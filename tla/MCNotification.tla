--------------------------- MODULE MCNotification ---------------------------
(***************************************************************************)
(* Two messages about one order, and one that nobody can handle.           *)
(***************************************************************************)
EXTENDS Notification, TLC

CONSTANTS m1, m2, m3, o1

MCOrderOf == [m \in Messages \ Malformed |-> o1]

NotificationSymmetry == Permutations(Workers) \cup Permutations(Tokens)
                          \cup Permutations(Messages \ Malformed)
=============================================================================
