--------------------------- MODULE CreateContract ---------------------------
(***************************************************************************)
(* What a caller of a create is promised, whatever carries it: the create  *)
(* reaches the engine in one way at most (it is never handed to a second   *)
(* one while the first may have got it), and "ok" is answered only for one *)
(* that did.  A create answered with an error may have reached the engine, *)
(* or may yet: nobody knows.                                               *)
(***************************************************************************)
CONSTANTS
    Creates,
    Ways,       \* in which a create can reach the engine
    NoWay

VARIABLES
    answer,     \* what the caller was told
    executed    \* the way in which the engine got the create

Init ==
    /\ answer = [k \in Creates |-> "none"]
    /\ executed = [k \in Creates |-> NoWay]

Execute(k) ==
    /\ executed[k] = NoWay
    /\ \E w \in Ways : executed' = [executed EXCEPT ![k] = w]
    /\ UNCHANGED answer

Answer(k, told) ==
    /\ answer[k] = "none"
    /\ told = "ok" => executed[k] # NoWay
    /\ answer' = [answer EXCEPT ![k] = told]
    /\ UNCHANGED executed

Next == \E k \in Creates : Execute(k) \/ \E told \in {"ok", "error"} : Answer(k, told)

Spec == Init /\ [][Next]_<<answer, executed>>

(* What it comes to: "ok" is never told of a create the engine lacks ...   *)
OkIsTrue == \A k \in Creates : answer[k] = "ok" => executed[k] # NoWay

(* ... and neither the way a create went nor what was told of it changes.  *)
Settled ==
    \A k \in Creates : /\ executed[k] # NoWay => executed'[k] = executed[k]
                       /\ answer[k] # "none" => answer'[k] = answer[k]
NothingTwice == [][Settled]_<<answer, executed>>
=============================================================================
