----------------------------- MODULE WindowProofs -----------------------------
(***************************************************************************)
(* Theorems about Window: the chat behind it keeps its invariants, whoever *)
(* reads its output and whenever, and the window keeps its types.          *)
(***************************************************************************)
EXTENDS Window, LinesProofs

-----------------------------------------------------------------------------
(* The chat behind the window *)

\* The window takes from the output, and that is all the chat knows of it.
ChatBut == <<status, group, is_leader, clock_num, election, heartbeat, joining,
             work, lost, inbox, typed, shown, faults>>

LEMMA OutputRead ==
    ASSUME TypeOK, NEW n \in Windowed, interpretInput(n)
    PROVE  UNCHANGED ChatBut /\ output' \in [Windowed -> Seq(Notices)]
<1>1. UNCHANGED ChatBut
  BY DEF interpretInput, ChatBut
<1>2. output[n] \in Seq(Notices) /\ output[n] # <<>>
  BY DEF interpretInput, TypeOK
<1>3. Tail(output[n]) \in Seq(Notices)
  BY <1>2
<1>4. output' = [output EXCEPT ![n] = Tail(output[n])]
  BY DEF interpretInput
<1> QED BY <1>1, <1>3, <1>4 DEF TypeOK

\* What the chat knows does not depend on what the window has read.
LEMMA ReadingKeeps ==
    ASSUME GroupInvariant, UNCHANGED ChatBut, output' \in [Windowed -> Seq(Notices)]
    PROVE  /\ GroupInvariant'
           /\ ListingInvariant => ListingInvariant'
           /\ OrderInvariant => OrderInvariant'
<1>1. TypeOK'
  BY DEF GroupInvariant, TypeOK, ChatBut
<1>2. ASSUME NEW n \in Node PROVE ProcessInv(n)'
  <2>1. ProcessInv(n)
    BY DEF GroupInvariant
  <2> QED BY <2>1 DEF ProcessInv, ChatBut, Leaders, Chatting, Running, Addresses,
                      Flagged, ProperMessages
<1>3. ASSUME ListingInvariant PROVE ListingInvariant'
  <2>1. /\ work' = work /\ inbox' = inbox /\ status' = status /\ group' = group
        /\ is_leader' = is_leader /\ faults' = faults
    BY DEF ChatBut
  <2>2. PetitionInvariant'
    BY <1>3, <2>1 DEF ListingInvariant, PetitionInvariant
  <2>3. \A x : Granted(x)' <=> Granted(x)
    BY <2>1 DEF Granted, Ended
  <2>4. \A n, x : Keeps(n, x)' <=> Keeps(n, x)
    BY <2>1 DEF Keeps, Ended, Prompt
  <2>5. \A n \in Node : /\ ListingTasks(n)' = ListingTasks(n)
                        /\ ListingMessages(n)' = ListingMessages(n)
    BY <2>1 DEF ListingTasks, ListingMessages, ListOf, Granted, Keeps, Ended, Prompt
  <2> QED BY <1>3, <2>1, <2>2, <2>3, <2>4, <2>5 DEF ListingInvariant
<1>4. ASSUME OrderInvariant PROVE OrderInvariant'
  BY <1>4 DEF OrderInvariant, ChatBut
<1> QED BY <1>1, <1>2, <1>3, <1>4 DEF GroupInvariant

LEMMA ChatKeeps ==
    ASSUME GroupInvariant, UNCHANGED vars
    PROVE  /\ GroupInvariant'
           /\ ListingInvariant => ListingInvariant'
           /\ OrderInvariant => OrderInvariant'
<1>1. UNCHANGED ChatBut /\ output' = output
  BY DEF vars, ChatBut
<1>2. output' \in [Windowed -> Seq(Notices)]
  BY <1>1 DEF GroupInvariant, TypeOK
<1> QED BY <1>1, <1>2, ReadingKeeps

LEMMA WindowKeeps ==
    ASSUME GroupInvariant, [WindowNext]_<<vars, windowVars>>
    PROVE  /\ GroupInvariant'
           /\ ListingInvariant => ListingInvariant'
           /\ OrderInvariant => OrderInvariant'
<1>1. CASE ChatStep
  <2>1. [Next]_vars
    BY <1>1 DEF ChatStep
  <2>2. GroupInvariant'
    BY <2>1, GroupNext, ConstantsAssumption
  <2> QED BY <2>1, <2>2, ListingNext, OrderNext DEF OrderKept
<1>2. ASSUME NEW n \in Windowed, interpretInput(n)
      PROVE  /\ GroupInvariant'
             /\ ListingInvariant => ListingInvariant'
             /\ OrderInvariant => OrderInvariant'
  <2>1. UNCHANGED ChatBut /\ output' \in [Windowed -> Seq(Notices)]
    BY <1>2, OutputRead DEF GroupInvariant
  <2> QED BY <2>1, ReadingKeeps
<1>3. ASSUME NEW n \in Windowed, EndOfStream(n) PROVE UNCHANGED vars
  BY <1>3 DEF EndOfStream
<1>4. CASE UNCHANGED <<vars, windowVars>>
  BY <1>4, ChatKeeps
<1> QED BY <1>1, <1>2, <1>3, <1>4, ChatKeeps DEF WindowNext

-----------------------------------------------------------------------------
(* The window *)

\* A list shows a leader that it names, or none.
Shows(list) ==
    /\ list \in [participants: SUBSET Name, leader: Name \cup {Nobody}]
    /\ list.leader \in list.participants \cup {Nobody}

LEMMA NamesAreNames ==
    ASSUME NEW nodes \in Seq(Node), nodes # <<>>
    PROVE  /\ NamesOf(nodes) \subseteq Name
           /\ Nick[nodes[1]] \in NamesOf(nodes)
<1>1. \A i \in DOMAIN nodes : nodes[i] \in Node
  OBVIOUS
<1>2. 1 \in DOMAIN nodes
  OBVIOUS
<1> QED BY <1>1, <1>2 DEF NamesOf, Name

\* A notice that is understood and does not throw leaves such a list.
LEMMA InterpretedShows ==
    ASSUME NEW list, Shows(list), NEW notice \in Notices, ~Throws(list, notice)
    PROVE  Shows(Interpreted(list, notice))
<1> DEFINE name == Nick[notice.nodes[1]]
<1>1. notice.event \in {"joined", "left", "leads", "users"}
      /\ notice.nodes \in Seq(Node) /\ notice.nodes # <<>>
  BY DEF Notices
<1>2. /\ NamesOf(notice.nodes) \subseteq Name /\ name \in NamesOf(notice.nodes)
      /\ name \in Name
  BY <1>1, NamesAreNames
<1>3. CASE notice.event = "users"
  <2>1. Interpreted(list, notice) = [participants |-> NamesOf(notice.nodes), leader |-> name]
    BY <1>3 DEF Interpreted, setParticipants
  <2> QED BY <1>2, <2>1 DEF Shows
<1>4. CASE notice.event = "joined"
  <2>1. Interpreted(list, notice) =
            [list EXCEPT !.participants = list.participants \cup {name}]
    BY <1>4 DEF Interpreted, addParticipant
  <2> QED BY <1>2, <2>1 DEF Shows
<1>5. CASE notice.event = "left"
  <2>1. Interpreted(list, notice) =
            [participants |-> list.participants \ {name},
             leader |-> IF list.leader = name THEN Nobody ELSE list.leader]
    BY <1>5 DEF Interpreted, removeParticipant
  <2> QED BY <2>1 DEF Shows
<1>6. CASE notice.event = "leads"
  <2>1. Interpreted(list, notice) = [list EXCEPT !.leader = name]
    BY <1>6 DEF Interpreted, setLeader
  <2>2. name \in list.participants
    BY <1>6 DEF Throws
  <2> QED BY <1>2, <2>1, <2>2 DEF Shows
<1> QED BY <1>1, <1>3, <1>4, <1>5, <1>6

LEMMA WindowTypes ==
    WindowTypeOK <=>
        /\ DOMAIN roster = Windowed /\ roster = [n \in Windowed |-> roster[n]]
        /\ \A n \in Windowed : Shows(roster[n])
        /\ reader \in [Windowed -> {"reading", "threw", "ended"}]
        /\ missed \subseteq Node
  BY DEF WindowTypeOK, Shows

LEMMA WindowTypeInit ==
    ASSUME WindowInit
    PROVE  WindowTypeOK
<1>1. Founders \in Seq(Node) /\ Founders # <<>>
  BY ConstantsAssumption
<1>2. \A n \in Windowed : Shows(roster[n])
  <2>1. ASSUME NEW n \in Windowed PROVE Shows(roster[n])
    <3>1. CASE Founding(n)
      <4>1. roster[n] = [participants |-> NamesOf(Founders), leader |-> Nick[Founders[1]]]
        BY <3>1 DEF WindowInit
      <4>2. NamesOf(Founders) \subseteq Name /\ Nick[Founders[1]] \in NamesOf(Founders)
        BY <1>1, NamesAreNames
      <4> QED BY <4>1, <4>2 DEF Shows
    <3>2. CASE ~Founding(n)
      BY <3>2 DEF WindowInit, Shows
    <3> QED BY <3>1, <3>2
  <2> QED BY <2>1
<1> QED BY <1>2, WindowTypes DEF WindowInit

LEMMA WindowTypeNext ==
    ASSUME TypeOK, WindowTypeOK, [WindowNext]_<<vars, windowVars>>
    PROVE  WindowTypeOK'
<1>1. CASE ChatStep
  BY <1>1 DEF ChatStep, WindowTypeOK
<1>2. ASSUME NEW n \in Windowed, interpretInput(n) PROVE WindowTypeOK'
  <2>1. output[n] \in Seq(Notices) /\ output[n] # <<>>
    BY <1>2 DEF interpretInput, TypeOK
  <2> DEFINE notice == Head(output[n])
  <2>2. notice \in Notices
    BY <2>1
  <2>3. missed' = missed
    BY <1>2 DEF interpretInput
  <2>4. Shows(roster[n])
    BY DEF WindowTypeOK, Shows
  <2>5. CASE Throws(roster[n], notice)
    <3>1. roster' = roster /\ reader' = [reader EXCEPT ![n] = "threw"]
      BY <1>2, <2>5 DEF interpretInput
    <3> QED BY <2>3, <3>1 DEF WindowTypeOK
  <2>6. CASE ~Throws(roster[n], notice)
    <3> DEFINE list == IF Understood(notice) THEN Interpreted(roster[n], notice)
                                             ELSE roster[n]
    <3>1. roster' = [roster EXCEPT ![n] = list] /\ reader' = reader
      BY <1>2, <2>6 DEF interpretInput
    <3>2. Shows(list)
      BY <2>2, <2>4, <2>6, InterpretedShows
    <3> HIDE DEF list
    <3> QED BY <2>3, <3>1, <3>2 DEF WindowTypeOK, Shows
  <2> QED BY <2>5, <2>6
<1>3. ASSUME NEW n \in Windowed, EndOfStream(n) PROVE WindowTypeOK'
  BY <1>3 DEF EndOfStream, WindowTypeOK
<1>4. CASE UNCHANGED <<vars, windowVars>>
  BY <1>4 DEF windowVars, WindowTypeOK
<1> QED BY <1>1, <1>2, <1>3, <1>4 DEF WindowNext

-----------------------------------------------------------------------------
(* Theorems *)

(***************************************************************************)
(* The invariants of a group hold for one whose processes are read by      *)
(* windows: none waits for its window, or learns from it.                  *)
(***************************************************************************)
THEOREM WindowGroup == WindowSpec => []GroupInvariant
<1>1. Init => GroupInvariant
  BY GroupInit, ConstantsAssumption
<1>2. GroupInvariant /\ [WindowNext]_<<vars, windowVars>> => GroupInvariant'
  BY WindowKeeps
<1> QED BY <1>1, <1>2, PTL DEF WindowSpec

(***************************************************************************)
(* So does the one about who is in whose list ...                          *)
(***************************************************************************)
THEOREM WindowListing == WindowSpec => []ListingInvariant
<1>1. Init => ListingInvariant
  BY ListingInit, ConstantsAssumption
<1>2. GroupInvariant /\ ListingInvariant /\ [WindowNext]_<<vars, windowVars>>
          => ListingInvariant'
  BY WindowKeeps
<1> QED BY <1>1, <1>2, WindowGroup, PTL DEF WindowSpec

(***************************************************************************)
(* ... and the ones about lines.                                           *)
(***************************************************************************)
THEOREM WindowLines == WindowSpec => []LeadersOrder
<1>1. Init => OrderInvariant
  BY OrderInit
<1>2. GroupInvariant /\ OrderInvariant /\ [WindowNext]_<<vars, windowVars>>
          => OrderInvariant'
  BY WindowKeeps
<1>3. GroupInvariant /\ OrderInvariant => LeadersOrder
  BY OrderGives
<1> QED BY <1>1, <1>2, <1>3, WindowGroup, PTL DEF WindowSpec

(***************************************************************************)
(* A window shows a leader that it lists, or none: setLeader throws rather *)
(* than take another, and who is taken off the list leads no more.         *)
(***************************************************************************)
THEOREM WindowTypeCorrect == WindowSpec => []WindowTypeOK
<1>1. WindowInit => WindowTypeOK
  BY WindowTypeInit
<1>2. GroupInvariant /\ WindowTypeOK /\ [WindowNext]_<<vars, windowVars>> => WindowTypeOK'
  BY WindowTypeNext DEF GroupInvariant
<1> QED BY <1>1, <1>2, WindowGroup, PTL DEF WindowSpec
=============================================================================
