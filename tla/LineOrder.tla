------------------------------- MODULE LineOrder -------------------------------
(***************************************************************************)
(* What the chat promises of its lines.  A line is typed to one leader,    *)
(* who may give it a number, above those of its other lines; and it may be *)
(* shown to anybody, once and under that number, after the lines of that   *)
(* leader with smaller ones.  Until it has been shown it may get lost.     *)
(* Nothing relates the numbers of different leaders.                       *)
(***************************************************************************)
EXTENDS Integers, Sequences

CONSTANT Node

VARIABLES
    typed,    \* who typed each line, and to which leader
    numbered, \* lines with their numbers, as far as they are not lost
    shown     \* the lines that each process has shown, with their numbers

Init ==
    /\ typed = <<>>
    /\ numbered = {}
    /\ shown = [n \in Node |-> <<>>]

-----------------------------------------------------------------------------

\* The numbered lines that somebody has shown.
OnScreens == UNION {{shown[n][i] : i \in DOMAIN shown[n]} : n \in Node}

\* Of these some may be lost, but none that has been shown.
Keeping(lines) ==
    /\ numbered' \subseteq lines
    /\ OnScreens' \subseteq numbered'

\* The numbers of all lines of this leader are smaller.
Above(id, leader) ==
    \A f \in numbered : typed[f.line].to = leader => f.id < id

Type(n, leader) ==
    /\ typed' = Append(typed, [by |-> n, to |-> leader])
    /\ Keeping(numbered)
    /\ UNCHANGED shown

Number(e) ==
    /\ e.line \in DOMAIN typed
    /\ \A f \in numbered : f.line # e.line
    /\ Above(e.id, typed[e.line].to)
    /\ Keeping(numbered \cup {e})
    /\ UNCHANGED <<typed, shown>>

\* A leader numbers what it types itself at once.
Say(n, e) ==
    /\ typed' = Append(typed, [by |-> n, to |-> n])
    /\ e.line = Len(typed')
    /\ Above(e.id, n)
    /\ Keeping(numbered \cup {e})
    /\ UNCHANGED shown

Show(n, e) ==
    /\ e \in numbered
    /\ \A i \in DOMAIN shown[n] :
           typed[shown[n][i].line].to = typed[e.line].to => shown[n][i].id < e.id
    /\ shown' = [shown EXCEPT ![n] = Append(@, e)]
    /\ Keeping(numbered)
    /\ UNCHANGED typed

Lose ==
    /\ UNCHANGED <<typed, shown>>
    /\ Keeping(numbered)

Next ==
    \/ Lose
    \/ \E n, leader \in Node : Type(n, leader)
    \/ \E e \in numbered' : Number(e) \/ \E n \in Node : Say(n, e)
    \/ \E n \in Node : \E e \in numbered : Show(n, e)

Spec == Init /\ [][Next]_<<typed, numbered, shown>>
=============================================================================
