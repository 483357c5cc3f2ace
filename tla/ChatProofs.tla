------------------------------- MODULE ChatProofs -------------------------------
(***************************************************************************)
(* Theorems about Chat, for groups of any size, any nicknames, timers and  *)
(* faults: type correctness, and what lists and leaders have in common.    *)
(* First come lemmas about Participants, for lists of any length: what     *)
(* each operation on a list does to its names, its addresses, its flags    *)
(* and its leader.                                                         *)
(***************************************************************************)
EXTENDS ChatInvariants, ListProofs

USE NodeAssumption

-----------------------------------------------------------------------------
(* What a list holds *)

NodesOf(group_) == [i \in DOMAIN group_.participants |-> group_.participants[i].node]

Distinct(group_) == NamesDiffer(NodesOf(group_))

LEMMA GroupTypes ==
    ASSUME NEW g \in Group
    PROVE  /\ g.participants \in Seq(Participant)
           /\ Len(g.participants) \in Nat
           /\ DOMAIN g.participants = 1..Len(g.participants)
           /\ \A i \in 1..Len(g.participants) :
                  /\ g.participants[i].node \in Node
                  /\ g.participants[i].is_leader \in BOOLEAN
           /\ Addresses(g) =
                  {g.participants[i].node : i \in 1..Len(g.participants)}
           /\ Flagged(g) =
                  {g.participants[i].node : i \in
                      {j \in 1..Len(g.participants) : g.participants[j].is_leader}}
           /\ Distinct(g) <=>
                  \A i, j \in 1..Len(g.participants) :
                      Nick[g.participants[i].node] = Nick[g.participants[j].node]
                          => i = j
<1> DEFINE s == g.participants
<1>1. /\ s \in Seq(Participant) /\ Len(s) \in Nat /\ DOMAIN s = 1..Len(s)
      /\ g.leader \in Node \cup {Nobody}
  BY DEF Group
<1>2. \A i \in 1..Len(s) : s[i] \in Participant
  BY <1>1
<1>3. \A i \in 1..Len(s) : s[i].node \in Node /\ s[i].is_leader \in BOOLEAN
  BY <1>2 DEF Participant
<1>4. Range(s) = {s[i] : i \in 1..Len(s)}
  BY <1>1 DEF Range
<1>5. Flagged(g) = {s[i].node : i \in {j \in 1..Len(s) : s[j].is_leader}}
  BY <1>4 DEF Flagged
<1> QED BY <1>1, <1>3, <1>5 DEF Addresses, Distinct, NamesDiffer, NodesOf

LEMMA InFlagged ==
    ASSUME NEW g \in Group, NEW m
    PROVE  m \in Flagged(g) <=>
               \E i \in 1..Len(g.participants) :
                   g.participants[i].is_leader /\ g.participants[i].node = m
  BY GroupTypes

LEMMA InAddresses ==
    ASSUME NEW g \in Group, NEW m
    PROVE  m \in Addresses(g) <=>
               \E i \in 1..Len(g.participants) : g.participants[i].node = m
  BY GroupTypes

LEMMA FlaggedIsListed ==
    ASSUME NEW g \in Group, NEW m \in Flagged(g)
    PROVE  m \in Addresses(g)
  BY InFlagged, InAddresses

LEMMA SameName ==
    ASSUME NEW g \in Group, Distinct(g),
           NEW i \in 1..Len(g.participants), NEW j \in 1..Len(g.participants),
           Nick[g.participants[i].node] = Nick[g.participants[j].node]
    PROVE  i = j
  BY GroupTypes

\* The others are those without the flag, each once for its place in the list.
LEMMA OthersProperties ==
    ASSUME NEW g \in Group
    PROVE  /\ Others(g) \in Seq(Node)
           /\ \E at \in [1..Len(Others(g)) -> 1..Len(g.participants)] :
                  /\ \A i \in 1..Len(Others(g)) :
                         /\ ~g.participants[at[i]].is_leader
                         /\ Others(g)[i] = g.participants[at[i]].node
                  /\ \A i, j \in 1..Len(Others(g)) : i # j => at[i] # at[j]
<1> DEFINE s == g.participants
           places == {i \in DOMAIN s : ~s[i].is_leader}
           r == Selected(s, places)
<1>1. s \in Seq(Participant) /\ Len(s) \in Nat /\ DOMAIN s = 1..Len(s)
  BY GroupTypes
<1>2. r \in Seq(Participant) /\ \E at : Selects(r, at, s, places, Len(s))
  BY <1>1, SelectedProperties
<1>3. Others(g) = [i \in DOMAIN r |-> r[i].node]
  BY DEF Others
<1> HIDE DEF r
<1>4. Len(r) \in Nat /\ DOMAIN r = 1..Len(r) /\ \A i \in 1..Len(r) : r[i] \in Participant
  BY <1>2
<1>5. Others(g) \in Seq(Node) /\ Len(Others(g)) = Len(r)
  <2>1. \A i \in 1..Len(r) : r[i].node \in Node
    BY <1>4 DEF Participant
  <2>2. Others(g) = [i \in 1..Len(r) |-> r[i].node]
    BY <1>3, <1>4
  <2> QED BY <1>4, <2>1, <2>2
<1>6. PICK at : Selects(r, at, s, places, Len(s))
  BY <1>2
<1>7. /\ at \in [1..Len(Others(g)) -> 1..Len(s)]
      /\ \A i \in 1..Len(Others(g)) :
             ~s[at[i]].is_leader /\ Others(g)[i] = s[at[i]].node
  BY <1>1, <1>3, <1>4, <1>5, <1>6 DEF Selects
<1>8. ASSUME NEW i \in 1..Len(Others(g)), NEW j \in 1..Len(Others(g)), i # j
      PROVE  at[i] # at[j]
  <2>1. i < j => at[i] < at[j]
    BY <1>5, <1>6 DEF Selects
  <2>2. j < i => at[j] < at[i]
    BY <1>5, <1>6 DEF Selects
  <2>3. at[i] \in Int /\ at[j] \in Int /\ i \in Int /\ j \in Int
    BY <1>1, <1>7
  <2> QED BY <1>8, <2>1, <2>2, <2>3
<1> QED BY <1>5, <1>7, <1>8

\* What a leader tells its group names everybody it tells, and nobody twice.
LEMMA GenerateProperties ==
    ASSUME NEW g \in Group, Distinct(g), g.leader \in Node, Flagged(g) = {g.leader}
    PROVE  LET nodes == generate_participant_update(g)
           IN  /\ nodes \in Seq(Node) \ {<<>>}
               /\ NamesDiffer(nodes)
               /\ \A k \in 1..Len(Others(g)) :
                      \E i \in DOMAIN nodes : nodes[i] = Others(g)[k]
<1> DEFINE s == g.participants
           rest == Others(g)
           nodes == generate_participant_update(g)
<1>1. rest \in Seq(Node) /\ Len(rest) \in Nat
  BY OthersProperties
<1>2. PICK at \in [1..Len(rest) -> 1..Len(s)] :
          /\ \A i \in 1..Len(rest) :
                 ~s[at[i]].is_leader /\ rest[i] = s[at[i]].node
          /\ \A i, j \in 1..Len(rest) : i # j => at[i] # at[j]
  BY OthersProperties
<1>3. nodes = <<g.leader>> \o rest
  BY DEF generate_participant_update
<1> HIDE DEF rest, nodes
<1>4. PICK l \in 1..Len(s) : s[l].is_leader /\ s[l].node = g.leader
  <2>1. ASSUME NEW m \in Flagged(g)
        PROVE  \E i \in 1..Len(s) : s[i].is_leader /\ s[i].node = m
    BY <2>1, InFlagged
  <2> QED BY <2>1
<1>5. /\ nodes \in Seq(Node) /\ Len(nodes) = Len(rest) + 1
      /\ DOMAIN nodes = 1..Len(rest) + 1
      /\ nodes[1] = g.leader
      /\ \A i \in 1..Len(rest) : nodes[i + 1] = rest[i]
  BY <1>1, <1>3
<1> DEFINE place(i) == IF i = 1 THEN l ELSE at[i - 1]
<1>6. ASSUME NEW i \in DOMAIN nodes
      PROVE  place(i) \in 1..Len(s) /\ nodes[i] = s[place(i)].node
  <2>1. CASE i = 1
    BY <1>4, <1>5, <2>1
  <2>2. CASE i # 1
    <3>1. i - 1 \in 1..Len(rest) /\ (i - 1) + 1 = i
      BY <1>1, <1>5, <2>2
    <3>2. nodes[i] = rest[i - 1] /\ at[i - 1] \in 1..Len(s)
      BY <1>2, <1>5, <3>1
    <3> QED BY <1>2, <2>2, <3>1, <3>2
  <2> QED BY <2>1, <2>2
<1>7. ASSUME NEW i \in DOMAIN nodes, NEW j \in DOMAIN nodes, place(i) = place(j)
      PROVE  i = j
  <2>1. CASE i = 1 /\ j # 1
    <3>1. j - 1 \in 1..Len(rest)
      BY <1>1, <1>5, <2>1
    <3> QED BY <1>2, <1>4, <1>7, <2>1, <3>1
  <2>2. CASE i # 1 /\ j = 1
    <3>1. i - 1 \in 1..Len(rest)
      BY <1>1, <1>5, <2>2
    <3> QED BY <1>2, <1>4, <1>7, <2>2, <3>1
  <2>3. CASE i # 1 /\ j # 1
    <3>0. i \in 1..Len(rest) + 1 /\ j \in 1..Len(rest) + 1
      BY <1>5
    <3>1. i - 1 \in 1..Len(rest) /\ j - 1 \in 1..Len(rest) /\ i \in Int /\ j \in Int
      BY <1>1, <2>3, <3>0
    <3>2. i - 1 = j - 1
      BY <1>2, <1>7, <2>3, <3>1
    <3> QED BY <3>1, <3>2
  <2> QED BY <2>1, <2>2, <2>3
<1> HIDE DEF place
<1>8. NamesDiffer(nodes)
  <2>1. SUFFICES ASSUME NEW i \in DOMAIN nodes, NEW j \in DOMAIN nodes,
                        Nick[nodes[i]] = Nick[nodes[j]]
                 PROVE  i = j
    BY DEF NamesDiffer
  <2>2. /\ place(i) \in 1..Len(s) /\ nodes[i] = s[place(i)].node
        /\ place(j) \in 1..Len(s) /\ nodes[j] = s[place(j)].node
    BY <1>6, <2>1
  <2>3. Nick[s[place(i)].node] = Nick[s[place(j)].node]
    BY <2>1, <2>2
  <2>4. place(i) = place(j)
    BY <2>2, <2>3, SameName
  <2> QED BY <1>7, <2>1, <2>4
<1>9. ASSUME NEW k \in 1..Len(rest) PROVE \E i \in DOMAIN nodes : nodes[i] = rest[k]
  <2>1. k + 1 \in DOMAIN nodes
    BY <1>1, <1>5
  <2> QED BY <1>5, <2>1
<1>10. nodes # <<>>
  BY <1>1, <1>5
<1> QED BY <1>5, <1>8, <1>9, <1>10 DEF nodes, rest

\* Removing a participant leaves the leader, its flag and the other names.
LEMMA WithoutProperties ==
    ASSUME NEW g \in Group, NEW n \in Node
    PROVE  LET h == Without(g, n)
           IN  /\ h \in Group
               /\ h.leader = g.leader
               /\ Flagged(h) = Flagged(g)
               /\ Distinct(g) => Distinct(h)
               /\ \A m \in Addresses(g) : m # n => m \in Addresses(h)
               /\ \A m \in Addresses(h) : m \in Addresses(g)
<1> DEFINE s == g.participants
           places == {i \in DOMAIN s : s[i].is_leader \/ s[i].node # n}
           r == Selected(s, places)
           h == Without(g, n)
<1>1. s \in Seq(Participant) /\ Len(s) \in Nat /\ DOMAIN s = 1..Len(s)
  BY GroupTypes
<1>2. r \in Seq(Participant) /\ \E at : Selects(r, at, s, places, Len(s))
  BY <1>1, SelectedProperties
<1>3. h = [g EXCEPT !.participants = r]
  BY DEF Without
<1> HIDE DEF r, h
<1>4. h \in Group /\ h.participants = r /\ h.leader = g.leader
  BY <1>2, <1>3 DEF Group
<1>5. Len(r) \in Nat
  BY <1>2
<1>6. PICK at : Selects(r, at, s, places, Len(s))
  BY <1>2
<1>7. /\ at \in [1..Len(r) -> 1..Len(s)]
      /\ \A i \in 1..Len(r) : at[i] \in places /\ r[i] = s[at[i]]
      /\ \A p \in 1..Len(s) : p \in places => \E i \in 1..Len(r) : at[i] = p
  BY <1>6 DEF Selects
<1>8. ASSUME NEW i \in 1..Len(r), NEW j \in 1..Len(r), at[i] = at[j]
      PROVE  i = j
  <2>1. i < j => at[i] < at[j]
    BY <1>6 DEF Selects
  <2>2. j < i => at[j] < at[i]
    BY <1>6 DEF Selects
  <2>3. at[i] \in Int /\ at[j] \in Int /\ i \in Int /\ j \in Int
    BY <1>1, <1>5, <1>7
  <2> QED BY <1>8, <2>1, <2>2, <2>3
<1>9. Flagged(h) = Flagged(g)
  <2>1. ASSUME NEW m \in Flagged(h) PROVE m \in Flagged(g)
    <3>1. PICK i \in 1..Len(r) : r[i].is_leader /\ r[i].node = m
      BY <1>4, <2>1, InFlagged
    <3>2. at[i] \in 1..Len(s) /\ s[at[i]].is_leader /\ s[at[i]].node = m
      BY <1>7, <3>1
    <3> QED BY <3>2, InFlagged
  <2>2. ASSUME NEW m \in Flagged(g) PROVE m \in Flagged(h)
    <3>1. PICK p \in 1..Len(s) : s[p].is_leader /\ s[p].node = m
      BY <2>2, InFlagged
    <3>2. PICK i \in 1..Len(r) : at[i] = p
      BY <1>1, <1>7, <3>1
    <3>3. r[i].is_leader /\ r[i].node = m
      BY <1>7, <3>1, <3>2
    <3> QED BY <1>4, <3>3, InFlagged
  <2> QED BY <2>1, <2>2
<1>10. ASSUME Distinct(g) PROVE Distinct(h)
  <2>1. ASSUME NEW i \in 1..Len(r), NEW j \in 1..Len(r),
               Nick[r[i].node] = Nick[r[j].node]
        PROVE  i = j
    <3>1. at[i] \in 1..Len(s) /\ at[j] \in 1..Len(s)
          /\ r[i] = s[at[i]] /\ r[j] = s[at[j]]
      BY <1>7
    <3>2. at[i] = at[j]
      BY <1>10, <2>1, <3>1, SameName
    <3> QED BY <1>8, <3>2
  <2> QED BY <1>4, <2>1, GroupTypes
<1>11. ASSUME NEW m \in Addresses(g), m # n PROVE m \in Addresses(h)
  <2>1. PICK p \in 1..Len(s) : s[p].node = m
    BY InAddresses
  <2>2. PICK i \in 1..Len(r) : at[i] = p
    BY <1>1, <1>7, <1>11, <2>1
  <2>3. r[i].node = m
    BY <1>7, <2>1, <2>2
  <2> QED BY <1>4, <2>3, InAddresses
<1>12. ASSUME NEW m \in Addresses(h) PROVE m \in Addresses(g)
  <2>1. PICK i \in 1..Len(r) : r[i].node = m
    BY <1>4, InAddresses
  <2>2. at[i] \in 1..Len(s) /\ s[at[i]].node = m
    BY <1>7, <2>1
  <2> QED BY <2>2, InAddresses
<1> QED BY <1>4, <1>9, <1>10, <1>11, <1>12 DEF h

\* A newcomer with a name of its own comes behind the others.
LEMMA InsertProperties ==
    ASSUME NEW g \in Group, Distinct(g), NEW n \in Node,
           ~contains_participant(g, Nick[n])
    PROVE  LET h == insert_participant(g, n, FALSE)
           IN  /\ h \in Group
               /\ h.leader = g.leader
               /\ Flagged(h) = Flagged(g)
               /\ Distinct(h)
               /\ \A m \in Addresses(g) : m \in Addresses(h)
               /\ \A m \in Addresses(h) : m = n \/ m \in Addresses(g)
<1> DEFINE s == g.participants
           new == [node |-> n, is_leader |-> FALSE]
           h == insert_participant(g, n, FALSE)
           r == Append(s, new)
<1>1. s \in Seq(Participant) /\ Len(s) \in Nat /\ DOMAIN s = 1..Len(s)
  BY GroupTypes
<1>2. new \in Participant
  BY DEF Participant
<1>3. h = [participants |-> r, leader |-> g.leader]
  BY DEF insert_participant
<1>4. /\ r \in Seq(Participant) /\ Len(r) = Len(s) + 1
      /\ r[Len(s) + 1] = new
      /\ \A i \in 1..Len(s) : r[i] = s[i]
  BY <1>1, <1>2
<1> HIDE DEF r, h
<1>5. h \in Group /\ h.participants = r /\ h.leader = g.leader
  BY <1>3, <1>4 DEF Group
<1>6. \A i \in 1..Len(s) : Nick[s[i].node] # Nick[n]
  BY <1>1 DEF contains_participant
<1>7. Flagged(h) = Flagged(g)
  <2>1. ASSUME NEW m \in Flagged(h) PROVE m \in Flagged(g)
    <3>1. PICK i \in 1..Len(r) : r[i].is_leader /\ r[i].node = m
      BY <1>5, <2>1, InFlagged
    <3>2. i \in 1..Len(s) /\ s[i].is_leader /\ s[i].node = m
      BY <1>1, <1>4, <3>1
    <3> QED BY <3>2, InFlagged
  <2>2. ASSUME NEW m \in Flagged(g) PROVE m \in Flagged(h)
    <3>1. PICK i \in 1..Len(s) : s[i].is_leader /\ s[i].node = m
      BY <2>2, InFlagged
    <3>2. i \in 1..Len(r) /\ r[i].is_leader /\ r[i].node = m
      BY <1>1, <1>4, <3>1
    <3> QED BY <1>5, <3>2, InFlagged
  <2> QED BY <2>1, <2>2
<1>8. Distinct(h)
  <2>1. ASSUME NEW i \in 1..Len(r), NEW j \in 1..Len(r),
               Nick[r[i].node] = Nick[r[j].node]
        PROVE  i = j
    <3>1. i \in 1..Len(s) \/ i = Len(s) + 1
      BY <1>1, <1>4
    <3>2. j \in 1..Len(s) \/ j = Len(s) + 1
      BY <1>1, <1>4
    <3>3. CASE i \in 1..Len(s) /\ j \in 1..Len(s)
      BY <1>4, <2>1, <3>3, SameName
    <3>4. CASE i \in 1..Len(s) /\ j = Len(s) + 1
      BY <1>4, <1>6, <2>1, <3>4
    <3>5. CASE i = Len(s) + 1 /\ j \in 1..Len(s)
      BY <1>4, <1>6, <2>1, <3>5
    <3> QED BY <3>1, <3>2, <3>3, <3>4, <3>5
  <2> QED BY <1>5, <2>1, GroupTypes
<1>9. ASSUME NEW m \in Addresses(g) PROVE m \in Addresses(h)
  <2>1. PICK i \in 1..Len(s) : s[i].node = m
    BY InAddresses
  <2>2. i \in 1..Len(r) /\ r[i].node = m
    BY <1>1, <1>4, <2>1
  <2> QED BY <1>5, <2>2, InAddresses
<1>10. ASSUME NEW m \in Addresses(h) PROVE m = n \/ m \in Addresses(g)
  <2>1. PICK i \in 1..Len(r) : r[i].node = m
    BY <1>5, InAddresses
  <2>2. CASE i = Len(s) + 1
    BY <1>4, <2>1, <2>2
  <2>3. CASE i # Len(s) + 1
    <3>1. i \in 1..Len(s) /\ s[i].node = m
      BY <1>1, <1>4, <2>1, <2>3
    <3> QED BY <3>1, InAddresses
  <2> QED BY <2>2, <2>3
<1> QED BY <1>5, <1>7, <1>8, <1>9, <1>10 DEF h

\* A list read anew has the names of the message, the first one's the leader's.
LEMMA ProcessProperties ==
    ASSUME NEW nodes \in Seq(Node) \ {<<>>}, NamesDiffer(nodes)
    PROVE  LET h == process_participant_update(nodes)
           IN  /\ h \in Group
               /\ h.leader = nodes[1] /\ h.leader \in Node
               /\ Flagged(h) = {nodes[1]}
               /\ Distinct(h)
               /\ \A i \in DOMAIN nodes : nodes[i] \in Addresses(h)
               /\ \A m \in Addresses(h) : \E i \in DOMAIN nodes : nodes[i] = m
<1> DEFINE r == [i \in DOMAIN nodes |-> [node |-> nodes[i], is_leader |-> i = 1]]
           h == process_participant_update(nodes)
<1>1. /\ Len(nodes) \in Nat /\ DOMAIN nodes = 1..Len(nodes) /\ 1 \in 1..Len(nodes)
      /\ \A i \in 1..Len(nodes) : nodes[i] \in Node
  OBVIOUS
<1>2. h = [participants |-> r, leader |-> nodes[1]]
  BY DEF process_participant_update
<1>3. r \in Seq(Participant) /\ Len(r) = Len(nodes)
  <2>1. \A i \in 1..Len(nodes) :
            [node |-> nodes[i], is_leader |-> i = 1] \in Participant
    BY <1>1 DEF Participant
  <2>2. r = [i \in 1..Len(nodes) |-> [node |-> nodes[i], is_leader |-> i = 1]]
    BY <1>1
  <2> HIDE DEF r
  <2>3. r \in [1..Len(nodes) -> Participant]
    BY <2>1, <2>2
  <2> QED BY <1>1, <2>3
<1>4. \A i \in 1..Len(nodes) : r[i].node = nodes[i] /\ r[i].is_leader = (i = 1)
  BY <1>1
<1> HIDE DEF r, h
<1>5. h \in Group /\ h.participants = r /\ h.leader = nodes[1]
  BY <1>1, <1>2, <1>3 DEF Group
<1>6. ASSUME NEW m \in Flagged(h) PROVE m = nodes[1]
  <2>1. PICK i \in 1..Len(r) : r[i].is_leader /\ r[i].node = m
    BY <1>5, InFlagged
  <2>2. i = 1
    BY <1>3, <1>4, <2>1
  <2> QED BY <1>3, <1>4, <2>1, <2>2
<1>7. Flagged(h) = {nodes[1]}
  <2>1. 1 \in 1..Len(r) /\ r[1].is_leader /\ r[1].node = nodes[1]
    BY <1>1, <1>3, <1>4
  <2>2. nodes[1] \in Flagged(h)
    BY <1>5, <2>1, InFlagged
  <2> QED BY <1>6, <2>2
<1>8. Distinct(h)
  <2>1. ASSUME NEW i \in 1..Len(r), NEW j \in 1..Len(r),
               Nick[r[i].node] = Nick[r[j].node]
        PROVE  i = j
    <3>1. i \in DOMAIN nodes /\ j \in DOMAIN nodes
      BY <1>1, <1>3
    <3>2. Nick[nodes[i]] = Nick[nodes[j]]
      BY <1>3, <1>4, <2>1
    <3> QED BY <3>1, <3>2 DEF NamesDiffer
  <2> QED BY <1>5, <2>1, GroupTypes
<1>9. ASSUME NEW i \in DOMAIN nodes PROVE nodes[i] \in Addresses(h)
  BY <1>1, <1>3, <1>4, <1>5, InAddresses
<1>10. ASSUME NEW m \in Addresses(h) PROVE \E i \in DOMAIN nodes : nodes[i] = m
  <2>1. PICK i \in 1..Len(r) : r[i].node = m
    BY <1>5, InAddresses
  <2> QED BY <1>1, <1>3, <1>4, <2>1
<1> QED BY <1>1, <1>5, <1>7, <1>8, <1>9, <1>10 DEF h

LEMMA Flagging ==
    ASSUME NEW p \in Participant, NEW flag \in BOOLEAN
    PROVE  [p EXCEPT !.is_leader = flag] \in Participant
  BY DEF Participant

\* Moving the flags keeps the list; whose flag is set last is the leader.
LEMMA FlagProperties ==
    ASSUME NEW g \in Group, NEW found, found \subseteq 1..Len(g.participants)
    PROVE  LET h == FlagLeaders(g, found)
           IN  /\ h \in Group
               /\ Addresses(h) = Addresses(g)
               /\ Distinct(g) => Distinct(h)
               /\ g.leader \in Node => h.leader \in Node
               /\ \/ h.leader = g.leader
                  \/ \E i \in found : h.leader = g.participants[i].node
               /\ \A i \in found : found = {i} =>
                      /\ h.leader = g.participants[i].node
                      /\ Flagged(h) = {g.participants[i].node}
<1> DEFINE s == g.participants
           last == CHOOSE i \in found : \A j \in found : j <= i
           r == [i \in DOMAIN s |-> [s[i] EXCEPT !.is_leader = i \in found]]
           h == FlagLeaders(g, found)
<1>1. /\ s \in Seq(Participant) /\ Len(s) \in Nat /\ DOMAIN s = 1..Len(s)
      /\ \A i \in 1..Len(s) : s[i] \in Participant /\ s[i].node \in Node
  BY GroupTypes
<1>2. h = [participants |-> r,
           leader |-> IF found = {} THEN g.leader ELSE s[last].node]
  BY DEF FlagLeaders
<1>3. r \in Seq(Participant) /\ Len(r) = Len(s)
  <2> DEFINE flag(i) == [s[i] EXCEPT !.is_leader = i \in found]
  <2>1. ASSUME NEW i \in 1..Len(s) PROVE flag(i) \in Participant
    <3>1. s[i] \in Participant
      BY <1>1
    <3>2. (i \in found) \in BOOLEAN
      OBVIOUS
    <3> QED BY <3>1, <3>2, Flagging
  <2>2. r = [i \in 1..Len(s) |-> flag(i)]
    BY <1>1
  <2> HIDE DEF r, flag
  <2>3. r \in [1..Len(s) -> Participant]
    BY <2>1, <2>2
  <2> QED BY <1>1, <2>3
<1>4. \A i \in 1..Len(s) : r[i].node = s[i].node /\ r[i].is_leader = (i \in found)
  BY <1>1 DEF Participant
<1>5. ASSUME found # {} PROVE last \in found /\ \A j \in found : j <= last
  <2> DEFINE T == {k \in Nat : Len(s) - k \in found}
  <2>1. PICK i \in found : TRUE
    BY <1>5
  <2>2. Len(s) - i \in T
    <3>1. i \in 1..Len(s) /\ Len(s) - i \in Nat /\ Len(s) - (Len(s) - i) = i
      BY <1>1, <2>1
    <3> QED BY <2>1, <3>1
  <2>3. PICK k \in T : \A y \in T : k <= y
    BY <2>2, Smallest
  <2>4. ASSUME NEW j \in found PROVE j <= Len(s) - k
    <3>1. j \in 1..Len(s) /\ Len(s) - j \in Nat /\ Len(s) - (Len(s) - j) = j
      BY <1>1
    <3>2. k <= Len(s) - j
      BY <2>3, <3>1
    <3> QED BY <1>1, <2>3, <3>1, <3>2
  <2> QED BY <2>3, <2>4
<1> HIDE DEF r, h, last
<1>6. h \in Group /\ h.participants = r
  BY <1>1, <1>2, <1>3, <1>5 DEF Group
<1>7. Addresses(h) = Addresses(g)
  <2>1. ASSUME NEW m PROVE m \in Addresses(h) <=> m \in Addresses(g)
    <3>1. m \in Addresses(h) <=> \E i \in 1..Len(r) : r[i].node = m
      BY <1>6, InAddresses
    <3>2. m \in Addresses(g) <=> \E i \in 1..Len(s) : s[i].node = m
      BY InAddresses
    <3> QED BY <1>3, <1>4, <3>1, <3>2
  <2> QED BY <2>1
<1>8. Distinct(g) => Distinct(h)
  BY <1>3, <1>4, <1>6, GroupTypes
<1>9. g.leader \in Node => h.leader \in Node
  BY <1>1, <1>2, <1>5
<1>10. \/ h.leader = g.leader
       \/ \E i \in found : h.leader = s[i].node
  BY <1>2, <1>5
<1>11. ASSUME NEW i \in found, found = {i}
       PROVE  h.leader = s[i].node /\ Flagged(h) = {s[i].node}
  <2>1. last = i /\ i \in 1..Len(s)
    BY <1>5, <1>11
  <2>2. h.leader = s[i].node
    BY <1>2, <1>11, <2>1
  <2>3. ASSUME NEW m \in Flagged(h) PROVE m = s[i].node
    <3>1. PICK k \in 1..Len(r) : r[k].is_leader /\ r[k].node = m
      BY <1>6, InFlagged
    <3> QED BY <1>3, <1>4, <1>11, <3>1
  <2>4. s[i].node \in Flagged(h)
    <3>1. i \in 1..Len(r) /\ r[i].is_leader /\ r[i].node = s[i].node
      BY <1>3, <1>4, <2>1
    <3> QED BY <1>6, <3>1, InFlagged
  <2> QED BY <2>2, <2>3, <2>4
<1> QED BY <1>6, <1>7, <1>8, <1>9, <1>10, <1>11 DEF h

\* Who declares its victory finds itself under its nickname.
LEMMA VictoryProperties ==
    ASSUME NEW g \in Group, Distinct(g), NEW n \in Addresses(g)
    PROVE  LET h == set_leader_by_nickname(g, Nick[n])
           IN  /\ h \in Group
               /\ Addresses(h) = Addresses(g)
               /\ Distinct(h)
               /\ h.leader = n
               /\ Flagged(h) = {n}
<1> DEFINE s == g.participants
           found == {i \in DOMAIN s : Nick[s[i].node] = Nick[n]}
<1>1. DOMAIN s = 1..Len(s)
  BY GroupTypes
<1>2. PICK i \in 1..Len(s) : s[i].node = n
  BY InAddresses
<1>3. \A j \in found : j = i
  BY <1>1, <1>2, SameName
<1>4. found = {i}
  BY <1>1, <1>2, <1>3
<1>5. set_leader_by_nickname(g, Nick[n]) = FlagLeaders(g, found)
  BY DEF set_leader_by_nickname
<1> HIDE DEF found
<1> QED BY <1>2, <1>4, <1>5, FlagProperties

-----------------------------------------------------------------------------
(* Tasks *)

LEMMA TasksApart ==
    /\ MembersTasks \subseteq ProperTasks
    /\ ProperTasks \subseteq Tasks
    /\ Seq(MembersTasks) \subseteq Seq(ProperTasks)
    /\ Seq(ProperTasks) \subseteq Seq(Tasks)
<1>1. MembersTasks \subseteq ProperTasks /\ ProperTasks \subseteq Tasks
  BY DEF MembersTasks, ProperTasks
<1> QED BY <1>1

LEMMA PlainMessages ==
    ASSUME NEW type \in {"ADD_ME", "JOIN_FAILURE", "JOIN_NICKNAME_FAILURE",
                         "HEARTBEAT", "START_ELECTION", "STOP_ELECTION",
                         "ELECTION_VICTORY"}
    PROVE  Plain(type) \in Messages /\ Plain(type).type # "PARTICIPANT_UPDATE"
  BY DEF Plain, Messages

LEMMA OtherMessages ==
    /\ \A n \in Node : /\ LeaderId(n) \in Messages
                       /\ LeaderId(n).type # "PARTICIPANT_UPDATE"
    /\ \A k \in Nat : /\ Request(k) \in Messages
                      /\ Request(k).type # "PARTICIPANT_UPDATE"
    /\ \A k, id \in Nat : /\ Line(k, id) \in Messages
                          /\ Line(k, id).type # "PARTICIPANT_UPDATE"
  BY DEF LeaderId, Request, Line, Messages

LEMMA SendProperties ==
    ASSUME NEW to \in Node, NEW msg \in Messages, Informs(to, msg),
           NEW else \in {"ignore", "remove", "elect", "exit"}
    PROVE  /\ Send(to, msg, else) \in ProperTasks
           /\ else # "remove" => Send(to, msg, else) \in MembersTasks
<1> DEFINE t == Send(to, msg, else)
<1>1. /\ t.task = "send" /\ t.to = to /\ t.msg = msg /\ t.else = else
  BY DEF Send
<1>2. t \in Tasks
  BY DEF Send, Tasks
<1> HIDE DEF t
<1>3. t \in ProperTasks
  BY <1>1, <1>2 DEF ProperTasks
<1>4. else # "remove" => t \in MembersTasks
  BY <1>1, <1>3 DEF MembersTasks, IsLeaders
<1> QED BY <1>3, <1>4 DEF t

LEMMA ThenProperties ==
    /\ Then("campaign") \in MembersTasks
    /\ Then("settle") \in ProperTasks
    /\ Then("announce") \in ProperTasks
  BY DEF Then, Tasks, ProperTasks, MembersTasks, IsLeaders

LEMMA PrintingProperties ==
    ASSUME NEW k \in Nat, NEW id \in Nat
    PROVE  Printing(k, id) \in ProperTasks
  BY DEF Printing, Tasks, ProperTasks

LEMMA TellingProperties ==
    ASSUME NEW n \in Node, NEW notice \in Notices
    PROVE  Telling(n, notice) \in Seq(ProperTasks)
<1>1. [task |-> "tell", notice |-> notice] \in ProperTasks
  BY DEF Tasks, ProperTasks
<1> QED BY <1>1 DEF Telling

\* What start_election leaves to do is for anybody.
LEMMA ElectionProperties ==
    ASSUME NEW n \in Node, NEW g \in Group
    PROVE  start_election(n, g) \in Seq(MembersTasks)
<1> DEFINE s == g.participants
           places == {i \in DOMAIN s : Nick[s[i].node] # Nick[n]}
           r == Selected(s, places)
           msg == Plain("START_ELECTION")
           sends == nonleader_broadcast_message(n, g, msg)
<1>1. s \in Seq(Participant)
  BY GroupTypes
<1>2. r \in Seq(Participant)
  BY <1>1, SelectedProperties
<1>3. sends = [i \in DOMAIN r |-> Send(r[i].node, msg, "ignore")]
  BY DEF nonleader_broadcast_message
<1>4. msg \in Messages /\ msg.type # "PARTICIPANT_UPDATE"
  BY PlainMessages
<1>5. start_election(n, g) = sends \o <<Then("campaign")>>
  BY DEF start_election
<1> HIDE DEF r, msg, sends
<1>6. Len(r) \in Nat /\ DOMAIN r = 1..Len(r)
  BY <1>2
<1>7. ASSUME NEW i \in 1..Len(r) PROVE Send(r[i].node, msg, "ignore") \in MembersTasks
  <2>1. r[i] \in Participant
    BY <1>2, <1>6
  <2>2. r[i].node \in Node
    BY <2>1 DEF Participant
  <2>3. Informs(r[i].node, msg)
    BY <1>4 DEF Informs
  <2> QED BY <1>4, <2>2, <2>3, SendProperties
<1>8. sends \in Seq(MembersTasks)
  <2> DEFINE send(i) == Send(r[i].node, msg, "ignore")
  <2>1. sends = [i \in 1..Len(r) |-> send(i)]
    BY <1>3, <1>6
  <2>2. \A i \in 1..Len(r) : send(i) \in MembersTasks
    BY <1>7
  <2> HIDE DEF send
  <2> QED BY <1>6, <2>1, <2>2
<1> QED BY <1>5, <1>8, ThenProperties

\* What a leader broadcasts to the others of its list.
LEMMA BroadcastProperties ==
    ASSUME NEW g \in Group, NEW msg \in Messages,
           \A k \in 1..Len(Others(g)) : Informs(Others(g)[k], msg)
    PROVE  leader_broadcast_message(g, msg) \in Seq(ProperTasks)
<1> DEFINE to == Others(g)
           sends == SendAll(to, msg, "remove")
           send(i) == Send(to[i], msg, "remove")
<1>1. to \in Seq(Node) /\ Len(to) \in Nat /\ DOMAIN to = 1..Len(to)
  BY OthersProperties
<1>2. leader_broadcast_message(g, msg) = sends \o <<Then("settle")>>
  BY DEF leader_broadcast_message
<1>3. sends = [i \in 1..Len(to) |-> send(i)]
  BY <1>1 DEF SendAll
<1> HIDE DEF to, sends
<1>4. ASSUME NEW i \in 1..Len(to) PROVE send(i) \in ProperTasks
  <2>1. to[i] \in Node /\ Informs(to[i], msg)
    BY <1>1 DEF to
  <2> QED BY <2>1, SendProperties
<1> HIDE DEF send
<1>5. sends \in Seq(ProperTasks)
  BY <1>1, <1>3, <1>4
<1> QED BY <1>2, <1>5, ThenProperties

LEMMA PlainBroadcast ==
    ASSUME NEW g \in Group, NEW msg \in Messages, msg.type # "PARTICIPANT_UPDATE"
    PROVE  leader_broadcast_message(g, msg) \in Seq(ProperTasks)
  BY BroadcastProperties DEF Informs

\* A PARTICIPANT_UPDATE goes to those whom it names.
LEMMA UpdateProperties ==
    ASSUME NEW n \in Node, NEW g \in Group, NEW notice \in Notices,
           Distinct(g), g.leader \in Node, Flagged(g) = {g.leader}
    PROVE  BroadcastUpdate(n, g, notice) \in Seq(ProperTasks)
<1> DEFINE nodes == generate_participant_update(g)
           msg == Update(g, notice)
<1>1. /\ nodes \in Seq(Node) \ {<<>>}
      /\ NamesDiffer(nodes)
      /\ \A k \in 1..Len(Others(g)) :
             \E i \in DOMAIN nodes : nodes[i] = Others(g)[k]
  BY GenerateProperties
<1>2. msg = [type |-> "PARTICIPANT_UPDATE", nodes |-> nodes, notice |-> notice]
  BY DEF Update
<1> HIDE DEF nodes, msg
<1>3. msg.type = "PARTICIPANT_UPDATE" /\ msg.nodes = nodes
  BY <1>2
<1>4. msg \in Messages
  BY <1>1, <1>2 DEF Messages
<1>5. \A k \in 1..Len(Others(g)) : Informs(Others(g)[k], msg)
  BY <1>1, <1>3 DEF Informs
<1>6. leader_broadcast_message(g, msg) \in Seq(ProperTasks)
  BY <1>4, <1>5, BroadcastProperties
<1>7. BroadcastUpdate(n, g, notice) =
          leader_broadcast_message(g, msg) \o Telling(n, notice)
  BY DEF BroadcastUpdate, msg
<1> QED BY <1>6, <1>7, TellingProperties

-----------------------------------------------------------------------------
(* Steps.  A step changes what one process holds, and inboxes. *)

Attempts == [hint: Node \cup {Nobody}, attempts: 0..MaxAttempts]

AnyMessage == [from: Node, msg: Messages]

InboxesProper ==
    /\ inbox \in [Node -> Seq(AnyMessage)]
    /\ \A m \in Node : inbox[m] \in Seq(ProperMessages(m))

FaultCounts ==
    {f \in [FaultKinds -> Nat] : \A kind \in FaultKinds : f[kind] <= MaxFaults[kind]}

\* The variables that the invariant only gives a type.
LooseTypes ==
    /\ clock_num \in [Node -> Nat]
    /\ election \in [Node -> [in: BOOLEAN, started: BOOLEAN,
                              age: 0..RESTART_WAIT_MILLIS]]
    /\ heartbeat \in [Node -> 0..HEARTBEAT_INTERVAL]
    /\ lost \in [Node -> Seq(Node)]
    /\ typed \in Seq([by: Node, to: Node])
    /\ shown \in [Node -> Seq([line: Nat, id: Nat])]
    /\ output \in [Windowed -> Seq(Notices)]
    /\ faults \in FaultCounts

CoreTypes ==
    /\ status \in [Node -> Status]
    /\ group \in [Node -> Group]
    /\ is_leader \in [Node -> BOOLEAN]
    /\ joining \in [Node -> Attempts]
    /\ work \in [Node -> Seq(ProperTasks)]

\* ProcessInv, of the state a process is in.
Sound(n, st, g, leads, j, tasks) ==
    /\ ~(st = "chatting" /\ leads) => tasks \in Seq(MembersTasks)
    /\ tasks # <<>> => st \in {"joining", "napping", "chatting"}
    /\ st \in {"joining", "napping"} => j.hint # Nobody
    /\ leads => st \notin {"out", "joining", "napping"}
    /\ st = "chatting" => g.leader # Nobody /\ n \in Addresses(g)
    /\ st = "chatting" /\ leads => g.leader = n /\ Flagged(g) = {n}
    /\ Distinct(g)

Together ==
    /\ CoreTypes
    /\ LooseTypes
    /\ InboxesProper
    /\ \A n \in Node :
           Sound(n, status[n], group[n], is_leader[n], joining[n], work[n])

LEMMA Parts == GroupInvariant <=> Together
<1>1. ASSUME NEW n \in Node
      PROVE  ProcessInv(n) <=>
                 /\ work[n] \in Seq(ProperTasks)
                 /\ inbox[n] \in Seq(ProperMessages(n))
                 /\ Sound(n, status[n], group[n], is_leader[n], joining[n], work[n])
  <2>1. n \in Chatting <=> status[n] = "chatting"
    BY DEF Chatting
  <2>2. n \in Leaders <=> (status[n] = "chatting" /\ is_leader[n])
    BY DEF Chatting, Leaders
  <2>3. n \in Running <=> status[n] \in {"joining", "napping", "chatting"}
    BY DEF Running
  <2>4. Distinct(group[n]) <=>
            NamesDiffer([i \in DOMAIN group[n].participants |->
                             group[n].participants[i].node])
    BY DEF Distinct, NodesOf
  <2> QED BY <2>1, <2>2, <2>3, <2>4 DEF ProcessInv, Sound
<1>2. TypeOK <=> /\ status \in [Node -> Status]
                 /\ group \in [Node -> Group]
                 /\ is_leader \in [Node -> BOOLEAN]
                 /\ joining \in [Node -> Attempts]
                 /\ work \in [Node -> Seq(Tasks)]
                 /\ LooseTypes
                 /\ inbox \in [Node -> Seq(AnyMessage)]
  BY DEF TypeOK, LooseTypes, Attempts, AnyMessage, FaultCounts
<1>3. ASSUME \A n \in Node : work[n] \in Seq(ProperTasks)
      PROVE  work \in [Node -> Seq(Tasks)] <=> work \in [Node -> Seq(ProperTasks)]
  BY <1>3, TasksApart
<1>4. work \in [Node -> Seq(ProperTasks)] =>
          \A n \in Node : work[n] \in Seq(ProperTasks)
  OBVIOUS
<1> QED
  BY <1>1, <1>2, <1>3, <1>4 DEF GroupInvariant, Together, CoreTypes, InboxesProper

Becomes(n, st, g, leads, j, tasks) ==
    /\ status' = [status EXCEPT ![n] = st]
    /\ group' = [group EXCEPT ![n] = g]
    /\ is_leader' = [is_leader EXCEPT ![n] = leads]
    /\ joining' = [joining EXCEPT ![n] = j]
    /\ work' = [work EXCEPT ![n] = tasks]

\* A step of n leaves the others as they are.
LEMMA Assembled ==
    ASSUME GroupInvariant, LooseTypes', InboxesProper',
           NEW n \in Node, NEW st \in Status, NEW g \in Group,
           NEW leads \in BOOLEAN, NEW j \in Attempts,
           NEW tasks \in Seq(ProperTasks),
           Becomes(n, st, g, leads, j, tasks),
           Sound(n, st, g, leads, j, tasks)
    PROVE  GroupInvariant'
<1>1. CoreTypes /\ \A m \in Node :
          Sound(m, status[m], group[m], is_leader[m], joining[m], work[m])
  BY Parts DEF Together
<1>2. CoreTypes'
  BY <1>1 DEF CoreTypes, Becomes
<1>3. ASSUME NEW m \in Node
      PROVE  Sound(m, status'[m], group'[m], is_leader'[m], joining'[m], work'[m])
  <2>1. CASE m = n
    <3>1. /\ status'[n] = st /\ group'[n] = g /\ joining'[n] = j
          /\ work'[n] = tasks
      BY <1>1 DEF CoreTypes, Becomes
    <3>2. is_leader'[n] = leads
      BY <1>1 DEF CoreTypes, Becomes
    <3> QED BY <2>1, <3>1, <3>2
  <2>2. CASE m # n
    <3>1. /\ status'[m] = status[m] /\ group'[m] = group[m]
          /\ joining'[m] = joining[m] /\ work'[m] = work[m]
      BY <1>1, <2>2 DEF CoreTypes, Becomes
    <3>2. is_leader'[m] = is_leader[m]
      BY <1>1, <2>2 DEF CoreTypes, Becomes
    <3> QED BY <1>1, <3>1, <3>2
  <2> QED BY <2>1, <2>2
<1>4. Together'
  BY <1>2, <1>3 DEF Together
<1> QED BY <1>4, Parts, PTL

\* What the invariant says of a process that has something to do, or not.
LEMMA OfProcess ==
    ASSUME GroupInvariant, NEW n \in Node
    PROVE  /\ status[n] \in Status
           /\ group[n] \in Group
           /\ is_leader[n] \in BOOLEAN
           /\ joining[n] \in Attempts
           /\ work[n] \in Seq(ProperTasks)
           /\ Sound(n, status[n], group[n], is_leader[n], joining[n], work[n])
           /\ Distinct(group[n])
           /\ status = [status EXCEPT ![n] = status[n]]
           /\ group = [group EXCEPT ![n] = group[n]]
           /\ is_leader = [is_leader EXCEPT ![n] = is_leader[n]]
           /\ joining = [joining EXCEPT ![n] = joining[n]]
           /\ work = [work EXCEPT ![n] = work[n]]
<1>1. Together
  BY Parts
<1>2. CoreTypes
  BY <1>1 DEF Together
<1>3. is_leader[n] \in BOOLEAN /\ is_leader = [is_leader EXCEPT ![n] = is_leader[n]]
  BY <1>2 DEF CoreTypes
<1>4. Sound(n, status[n], group[n], is_leader[n], joining[n], work[n])
  BY <1>1 DEF Together
<1>5. Distinct(group[n])
  BY <1>4 DEF Sound
<1> QED BY <1>2, <1>3, <1>4, <1>5 DEF CoreTypes

LEMMA OfAll ==
    ASSUME GroupInvariant
    PROVE  LooseTypes /\ InboxesProper
  BY Parts DEF Together

\* A handler goes on; its process and its group stay what they are.
LEMMA Proceeds ==
    ASSUME GroupInvariant, LooseTypes', InboxesProper',
           NEW n \in Node, status[n] \in {"joining", "napping", "chatting"},
           NEW tasks \in Seq(ProperTasks),
           ~(status[n] = "chatting" /\ is_leader[n]) => tasks \in Seq(MembersTasks),
           UNCHANGED <<status, group, is_leader, joining>>,
           Do(n, tasks)
    PROVE  GroupInvariant'
<1>1. Sound(n, status[n], group[n], is_leader[n], joining[n], tasks)
  BY OfProcess DEF Sound
<1>2. Becomes(n, status[n], group[n], is_leader[n], joining[n], tasks)
  BY OfProcess, Zenon DEF Do, Becomes
<1>3. /\ status[n] \in Status /\ group[n] \in Group
      /\ is_leader[n] \in BOOLEAN /\ joining[n] \in Attempts
  BY OfProcess
<1> QED BY <1>1, <1>2, <1>3, Assembled

\* A process ends.
LEMMA Ends ==
    ASSUME GroupInvariant, LooseTypes', InboxesProper',
           NEW n \in Node, NEW how \in {"gone", "segfault"},
           UNCHANGED <<group, is_leader, joining>>,
           End(n, how)
    PROVE  GroupInvariant'
<1>1. <<>> \in Seq(ProperTasks) /\ <<>> \in Seq(MembersTasks) /\ how \in Status
  BY DEF Status
<1>2. Sound(n, how, group[n], is_leader[n], joining[n], <<>>)
  BY <1>1, OfProcess DEF Sound
<1>3. Becomes(n, how, group[n], is_leader[n], joining[n], <<>>)
  BY OfProcess, Zenon DEF End, Becomes
<1>4. /\ group[n] \in Group /\ is_leader[n] \in BOOLEAN /\ joining[n] \in Attempts
  BY OfProcess
<1> QED BY <1>1, <1>2, <1>3, <1>4, Assembled

-----------------------------------------------------------------------------
(* Inboxes *)

LEMMA MessageTypes ==
    ASSUME NEW n \in Node
    PROVE  ProperMessages(n) \subseteq AnyMessage
  BY DEF ProperMessages, AnyMessage

LEMMA KeptInboxes ==
    ASSUME InboxesProper, inbox' = inbox
    PROVE  InboxesProper'
<1>1. inbox' \in [Node -> Seq(AnyMessage)]
  BY DEF InboxesProper
<1>2. \A m \in Node : inbox[m] \in Seq(ProperMessages(m))
  BY DEF InboxesProper
<1>3. \A m \in Node : inbox'[m] \in Seq(ProperMessages(m))
  BY <1>2
<1> QED BY <1>1, <1>3 DEF InboxesProper

LEMMA EmptiedInbox ==
    ASSUME InboxesProper, NEW n \in Node, inbox' = [inbox EXCEPT ![n] = <<>>]
    PROVE  InboxesProper'
<1>1. <<>> \in Seq(AnyMessage) /\ <<>> \in Seq(ProperMessages(n))
  OBVIOUS
<1> QED BY <1>1 DEF InboxesProper

LEMMA ReadInbox ==
    ASSUME InboxesProper, NEW n \in Node, inbox[n] # <<>>
    PROVE  /\ Head(inbox[n]).from \in Node
           /\ Head(inbox[n]).msg \in Messages
           /\ Informs(n, Head(inbox[n]).msg)
           /\ inbox' = [inbox EXCEPT ![n] = Tail(@)] => InboxesProper'
<1>1. inbox[n] \in Seq(ProperMessages(n)) /\ inbox[n] \in Seq(AnyMessage)
  BY DEF InboxesProper
<1>2. Head(inbox[n]) \in ProperMessages(n) /\ Tail(inbox[n]) \in Seq(ProperMessages(n))
  BY <1>1
<1>3. Tail(inbox[n]) \in Seq(AnyMessage)
  BY <1>1
<1>4. ASSUME inbox' = [inbox EXCEPT ![n] = Tail(@)] PROVE InboxesProper'
  BY <1>2, <1>3, <1>4 DEF InboxesProper
<1> QED BY <1>2, <1>4 DEF ProperMessages

LEMMA DeliveredMessage ==
    ASSUME InboxesProper, NEW n \in Node, NEW to \in Node, NEW msg \in Messages,
           Informs(to, msg), Deliver(n, to, msg)
    PROVE  InboxesProper'
<1> DEFINE m == [from |-> n, msg |-> msg]
<1>0. PICK k \in 0..Len(inbox[n]) :
          inbox' = [[inbox EXCEPT ![n] = SubSeq(@, k + 1, Len(@))]
                           EXCEPT ![to] = Append(@, m)]
  BY DEF Deliver
<1> DEFINE left == [inbox EXCEPT ![n] = SubSeq(@, k + 1, Len(@))]
           rest == SubSeq(inbox[n], k + 1, Len(inbox[n]))
<1>1. m \in ProperMessages(to) /\ m \in AnyMessage
  BY DEF ProperMessages, AnyMessage
<1>2. inbox' = [left EXCEPT ![to] = Append(@, m)]
  BY <1>0
<1> HIDE DEF m
<1>3. /\ left \in [Node -> Seq(AnyMessage)]
      /\ \A x \in Node : left[x] \in Seq(ProperMessages(x))
  <2>1. /\ inbox \in [Node -> Seq(AnyMessage)]
        /\ \A x \in Node : inbox[x] \in Seq(ProperMessages(x))
    BY DEF InboxesProper
  <2>2. rest \in Seq(AnyMessage) /\ rest \in Seq(ProperMessages(n))
    BY <2>1, SuffixProperties
  <2>3. left = [inbox EXCEPT ![n] = rest]
    BY <2>1
  <2> HIDE DEF left, rest
  <2> QED BY <2>1, <2>2, <2>3
<1> HIDE DEF left
<1>4. Append(left[to], m) \in Seq(AnyMessage)
  BY <1>1, <1>3
<1>5. Append(left[to], m) \in Seq(ProperMessages(to))
  BY <1>1, <1>3
<1> QED BY <1>2, <1>3, <1>4, <1>5 DEF InboxesProper

-----------------------------------------------------------------------------
(* The tasks of a running handler *)

\* The process leads: the shape of the condition in Sound.
Leading(n) == status[n] = "chatting" /\ is_leader[n]

LEMMA TaskProperties ==
    ASSUME GroupInvariant, NEW n \in Node, work[n] # <<>>
    PROVE  /\ status[n] \in {"joining", "napping", "chatting"}
           /\ Head(work[n]) \in ProperTasks
           /\ Tail(work[n]) \in Seq(ProperTasks)
           /\ ~Leading(n) => /\ Head(work[n]) \in MembersTasks
                             /\ Tail(work[n]) \in Seq(MembersTasks)
<1>1. work[n] \in Seq(ProperTasks)
  BY OfProcess
<1>2. Sound(n, status[n], group[n], is_leader[n], joining[n], work[n])
  BY OfProcess
<1>3. ~Leading(n) => work[n] \in Seq(MembersTasks)
  BY <1>2 DEF Sound, Leading
<1>4. status[n] \in {"joining", "napping", "chatting"}
  BY <1>2 DEF Sound
<1> QED BY <1>1, <1>3, <1>4

LEMMA SendTask ==
    ASSUME GroupInvariant, NEW n \in Node, Task(n, "send")
    PROVE  LET send == Head(work[n])
           IN  /\ send.to \in Node
               /\ send.msg \in Messages
               /\ Informs(send.to, send.msg)
               /\ send.else \in {"ignore", "remove", "elect", "exit"}
               /\ send.else = "remove" => Leading(n)
<1> DEFINE send == Head(work[n])
<1>1. work[n] # <<>> /\ send.task = "send"
  BY DEF Task
<1>2. send \in ProperTasks /\ (~Leading(n) => send \in MembersTasks)
  BY <1>1, TaskProperties
<1> HIDE DEF send
<1>3. send \in Tasks /\ Informs(send.to, send.msg)
  BY <1>1, <1>2 DEF ProperTasks
<1>4. send \in [task: {"send"}, to: Node, msg: Messages,
                else: {"ignore", "remove", "elect", "exit"}]
  BY <1>1, <1>3 DEF Tasks
<1>5. send.else = "remove" => Leading(n)
  BY <1>1, <1>2 DEF MembersTasks, IsLeaders
<1> QED BY <1>3, <1>4, <1>5 DEF send

\* A leader's own entry is the only one with the flag.
LEMMA LeaderProperties ==
    ASSUME GroupInvariant, NEW n \in Node, Leading(n)
    PROVE  /\ group[n].leader = n
           /\ Flagged(group[n]) = {n}
           /\ Distinct(group[n])
<1>1. Sound(n, status[n], group[n], is_leader[n], joining[n], work[n])
  BY OfProcess
<1> QED BY <1>1 DEF Sound, Leading

LEMMA ProceedingLeader ==
    ASSUME GroupInvariant, LooseTypes', InboxesProper',
           NEW n \in Node, Leading(n), NEW tasks \in Seq(ProperTasks),
           UNCHANGED <<status, group, is_leader, joining>>,
           Do(n, tasks)
    PROVE  GroupInvariant'
  BY Proceeds DEF Leading

LEMMA ProceedingMember ==
    ASSUME GroupInvariant, LooseTypes', InboxesProper',
           NEW n \in Node, status[n] \in {"joining", "napping", "chatting"},
           NEW tasks \in Seq(MembersTasks),
           UNCHANGED <<status, group, is_leader, joining>>,
           Do(n, tasks)
    PROVE  GroupInvariant'
<1>1. tasks \in Seq(ProperTasks)
  BY TasksApart
<1> QED BY <1>1, Proceeds

LEMMA GoesOn ==
    ASSUME GroupInvariant, LooseTypes', InboxesProper',
           NEW n \in Node, work[n] # <<>>,
           UNCHANGED <<status, group, is_leader, joining>>,
           Do(n, Tail(work[n]))
    PROVE  GroupInvariant'
  BY TaskProperties, Proceeds DEF Leading

LEMMA FaultProperties ==
    ASSUME GroupInvariant, ConstantsAssumption,
           NEW kind \in {"crash", "timeout"}, Fault(kind)
    PROVE  faults' \in FaultCounts
<1>1. /\ faults \in [FaultKinds -> Nat] /\ kind \in FaultKinds
      /\ \A k \in FaultKinds : faults[k] <= MaxFaults[k]
  BY OfAll DEF LooseTypes, FaultCounts, FaultKinds
<1>2. MaxFaults \in [FaultKinds -> Nat]
  BY DEF ConstantsAssumption
<1>3. faults[kind] < MaxFaults[kind] /\ faults' = [faults EXCEPT ![kind] = @ + 1]
  BY DEF Fault
<1>4. faults[kind] + 1 \in Nat /\ faults[kind] + 1 <= MaxFaults[kind]
  BY <1>1, <1>2, <1>3
<1> HIDE DEF FaultKinds
<1>5. /\ faults' \in [FaultKinds -> Nat] /\ faults'[kind] = faults[kind] + 1
      /\ \A k \in FaultKinds \ {kind} : faults'[k] = faults[k]
  BY <1>1, <1>3, <1>4
<1> QED BY <1>1, <1>4, <1>5 DEF FaultCounts

LEMMA EndTypes ==
    ASSUME GroupInvariant, NEW n \in Node, NEW how, End(n, how)
    PROVE  lost' \in [Node -> Seq(Node)]
<1>1. lost \in [Node -> Seq(Node)] /\ lost' = [lost EXCEPT ![n] = <<>>]
  BY OfAll DEF LooseTypes, End
<1>2. <<>> \in Seq(Node)
  OBVIOUS
<1> QED BY <1>1, <1>2

LEMMA CrashStep ==
    ASSUME GroupInvariant, ConstantsAssumption, NEW n \in Node, Crash(n)
    PROVE  GroupInvariant'
<1>1. LooseTypes'
  <2>1. End(n, "gone") /\ Fault("crash")
    BY DEF Crash
  <2>2. faults' \in FaultCounts
    BY <2>1, FaultProperties
  <2>3. lost' \in [Node -> Seq(Node)]
    BY <2>1, EndTypes
  <2> QED BY <2>2, <2>3, OfAll DEF Crash, LooseTypes, printed
<1>2. InboxesProper'
  BY OfAll, EmptiedInbox DEF Crash
<1>3. End(n, "gone") /\ UNCHANGED <<group, is_leader, joining>>
  BY DEF Crash
<1> QED BY <1>1, <1>2, <1>3, Ends

LEMMA AcknowledgedStep ==
    ASSUME GroupInvariant, NEW n \in Node, Acknowledged(n)
    PROVE  GroupInvariant'
<1> DEFINE send == Head(work[n])
<1>1. Task(n, "send") /\ Deliver(n, send.to, send.msg) /\ Do(n, Tail(work[n]))
  BY DEF Acknowledged
<1>2. send.to \in Node /\ send.msg \in Messages /\ Informs(send.to, send.msg)
  BY <1>1, SendTask
<1>3. UNCHANGED <<status, group, is_leader, joining>> /\ work[n] # <<>>
  BY <1>1 DEF Acknowledged, Task
<1>4. LooseTypes'
  BY OfAll DEF Acknowledged, LooseTypes, printed
<1> HIDE DEF send
<1>5. InboxesProper'
  BY <1>1, <1>2, OfAll, DeliveredMessage
<1> QED BY <1>1, <1>3, <1>4, <1>5, GoesOn

LEMMA CampaignStep ==
    ASSUME GroupInvariant, ConstantsAssumption, NEW n \in Node, Campaign(n)
    PROVE  GroupInvariant'
<1>1. /\ Task(n, "campaign") /\ Do(n, Tail(work[n])) /\ inbox' = inbox
      /\ UNCHANGED <<status, group, is_leader, joining>>
  BY DEF Campaign
<1>2. election' \in [Node -> [in: BOOLEAN, started: BOOLEAN,
                             age: 0..RESTART_WAIT_MILLIS]]
  BY OfAll DEF Campaign, LooseTypes, ConstantsAssumption
<1>3. LooseTypes'
  BY <1>2, OfAll DEF Campaign, LooseTypes, printed
<1>4. InboxesProper'
  BY <1>1, OfAll, KeptInboxes
<1> QED BY <1>1, <1>3, <1>4, GoesOn DEF Task

LEMMA SettleStep ==
    ASSUME GroupInvariant, NEW n \in Node, Settle(n)
    PROVE  GroupInvariant'
<1> DEFINE told == IF lost[n] # <<>>
                   THEN BroadcastUpdate(n, group[n], Notice("left", lost[n]))
                   ELSE <<>>
<1>1. /\ Task(n, "settle") /\ Do(n, told \o Tail(work[n])) /\ inbox' = inbox
      /\ UNCHANGED <<status, group, is_leader, joining>>
  BY DEF Settle
<1>2. work[n] # <<>> /\ Head(work[n]).task = "settle"
  BY <1>1 DEF Task
<1>3. Leading(n)
  BY <1>2, TaskProperties DEF MembersTasks, IsLeaders
<1>4. LooseTypes'
  BY OfAll DEF Settle, LooseTypes, printed
<1>5. InboxesProper'
  BY <1>1, OfAll, KeptInboxes
<1>6. told \in Seq(ProperTasks)
  <2>1. ASSUME lost[n] # <<>>
        PROVE  BroadcastUpdate(n, group[n], Notice("left", lost[n])) \in Seq(ProperTasks)
    <3>1. Notice("left", lost[n]) \in Notices
      BY <2>1, OfAll DEF LooseTypes, Notice, Notices
    <3>2. /\ group[n] \in Group /\ Distinct(group[n])
          /\ group[n].leader \in Node
          /\ Flagged(group[n]) = {group[n].leader}
      BY <1>3, OfProcess, LeaderProperties
    <3> QED BY <3>1, <3>2, UpdateProperties
  <2> QED BY <2>1
<1> HIDE DEF told
<1>7. told \o Tail(work[n]) \in Seq(ProperTasks)
  BY <1>2, <1>6, TaskProperties
<1> QED BY <1>1, <1>3, <1>4, <1>5, <1>7, ProceedingLeader

LEMMA AnnounceStep ==
    ASSUME GroupInvariant, NEW n \in Node, Announce(n)
    PROVE  GroupInvariant'
<1> DEFINE told == BroadcastUpdate(n, group[n], Notice("leads", <<n>>))
<1>1. /\ Task(n, "announce") /\ Do(n, told \o Tail(work[n])) /\ inbox' = inbox
      /\ UNCHANGED <<status, group, is_leader, joining>>
  BY DEF Announce
<1>2. work[n] # <<>> /\ Head(work[n]).task = "announce"
  BY <1>1 DEF Task
<1>3. Leading(n)
  BY <1>2, TaskProperties DEF MembersTasks, IsLeaders
<1>4. LooseTypes'
  BY OfAll DEF Announce, LooseTypes, printed
<1>5. InboxesProper'
  BY <1>1, OfAll, KeptInboxes
<1>6. told \in Seq(ProperTasks)
  <2>1. Notice("leads", <<n>>) \in Notices
    BY DEF Notice, Notices
  <2>2. /\ group[n] \in Group /\ Distinct(group[n])
        /\ group[n].leader \in Node
        /\ Flagged(group[n]) = {group[n].leader}
    BY <1>3, OfProcess, LeaderProperties
  <2> QED BY <2>1, <2>2, UpdateProperties
<1> HIDE DEF told
<1>7. told \o Tail(work[n]) \in Seq(ProperTasks)
  BY <1>2, <1>6, TaskProperties
<1> QED BY <1>1, <1>3, <1>4, <1>5, <1>7, ProceedingLeader

LEMMA PrintLineStep ==
    ASSUME GroupInvariant, NEW n \in Node, PrintLine(n)
    PROVE  GroupInvariant'
<1> DEFINE print == Head(work[n])
<1>1. /\ Task(n, "print") /\ Do(n, Tail(work[n])) /\ inbox' = inbox
      /\ UNCHANGED <<status, group, is_leader, joining>>
      /\ Show(n, print.line, print.id)
  BY DEF PrintLine
<1>2. work[n] # <<>> /\ print.task = "print"
  BY <1>1 DEF Task
<1>3. print.line \in Nat /\ print.id \in Nat
  <2>1. print \in Tasks
    BY <1>2, TaskProperties, TasksApart
  <2> HIDE DEF print
  <2> QED BY <1>2, <2>1 DEF Tasks
<1> HIDE DEF print
<1>4. shown' \in [Node -> Seq([line: Nat, id: Nat])]
  BY <1>1, <1>3, OfAll DEF Show, LooseTypes
<1>5. LooseTypes'
  BY <1>1, <1>4, OfAll DEF PrintLine, Show, LooseTypes
<1>6. InboxesProper'
  BY <1>1, OfAll, KeptInboxes
<1> QED BY <1>1, <1>2, <1>5, <1>6, GoesOn

LEMMA TellTypes ==
    ASSUME GroupInvariant, NEW n \in Node, NEW notice \in Notices, Tell(n, notice)
    PROVE  shown' = shown /\ output' \in [Windowed -> Seq(Notices)]
  BY OfAll DEF Tell, LooseTypes

LEMMA PrintNoticeStep ==
    ASSUME GroupInvariant, NEW n \in Node, PrintNotice(n)
    PROVE  GroupInvariant'
<1> DEFINE tell == Head(work[n])
<1>1. /\ Task(n, "tell") /\ Do(n, Tail(work[n])) /\ inbox' = inbox
      /\ UNCHANGED <<status, group, is_leader, joining>>
      /\ Tell(n, tell.notice)
  BY DEF PrintNotice
<1>2. work[n] # <<>> /\ tell.task = "tell"
  BY <1>1 DEF Task
<1>3. tell.notice \in Notices
  <2>1. tell \in Tasks
    BY <1>2, TaskProperties, TasksApart
  <2> HIDE DEF tell
  <2> QED BY <1>2, <2>1 DEF Tasks
<1> HIDE DEF tell
<1>4. shown' = shown /\ output' \in [Windowed -> Seq(Notices)]
  BY <1>1, <1>3, TellTypes
<1>5. LooseTypes'
  BY <1>4, OfAll DEF PrintNotice, LooseTypes
<1>6. InboxesProper'
  BY <1>1, OfAll, KeptInboxes
<1> QED BY <1>1, <1>2, <1>5, <1>6, GoesOn

LEMMA TimesOutStep ==
    ASSUME GroupInvariant, ConstantsAssumption, NEW n \in Node, TimesOut(n)
    PROVE  GroupInvariant'
<1> DEFINE send == Head(work[n])
           to == send.to
           else == send.else
           rest == Tail(work[n])
<1>1. /\ Task(n, "send") /\ work[n] # <<>>
      /\ UNCHANGED <<is_leader, clock_num, election, heartbeat, joining, typed,
                     shown, output>>
  BY DEF TimesOut, Task, printed
<1>2. /\ to \in Node /\ send.msg \in Messages /\ Informs(to, send.msg)
      /\ else \in {"ignore", "remove", "elect", "exit"}
      /\ else = "remove" => Leading(n)
  BY <1>1, SendTask
<1>3. /\ status[n] \in {"joining", "napping", "chatting"}
      /\ rest \in Seq(ProperTasks)
      /\ ~Leading(n) => rest \in Seq(MembersTasks)
  BY <1>1, TaskProperties
<1>4. faults' \in FaultCounts
  <2>1. Fault("timeout") \/ faults' = faults
    BY DEF TimesOut
  <2>2. CASE Fault("timeout")
    BY <2>2, FaultProperties
  <2>3. CASE faults' = faults
    BY <2>3, OfAll DEF LooseTypes
  <2> QED BY <2>1, <2>2, <2>3
<1>5. InboxesProper'
  <2>1. inbox' = [inbox EXCEPT ![n] = <<>>] \/ Deliver(n, to, send.msg)
    BY DEF TimesOut
  <2>2. CASE inbox' = [inbox EXCEPT ![n] = <<>>]
    BY <2>2, OfAll, EmptiedInbox
  <2>3. CASE Deliver(n, to, send.msg)
    <3> HIDE DEF send
    <3> QED BY <1>2, <2>3, OfAll, DeliveredMessage
  <2> QED BY <2>1, <2>2, <2>3
<1>6. ASSUME lost' \in [Node -> Seq(Node)] PROVE LooseTypes'
  BY <1>1, <1>4, <1>6, OfAll DEF LooseTypes
<1>7. CASE else = "ignore"
  <2>1. Do(n, rest) /\ UNCHANGED <<status, group, lost>>
    BY <1>7 DEF TimesOut
  <2>2. LooseTypes'
    BY <1>6, <2>1, OfAll DEF LooseTypes
  <2> QED BY <1>1, <1>5, <2>1, <2>2, GoesOn
<1>8. CASE else = "elect"
  <2> DEFINE campaign == start_election(n, group[n])
  <2>1. Do(n, campaign \o rest) /\ UNCHANGED <<status, group, lost>>
    BY <1>8 DEF TimesOut
  <2>2. LooseTypes'
    BY <1>6, <2>1, OfAll DEF LooseTypes
  <2>3. campaign \in Seq(MembersTasks) /\ campaign \in Seq(ProperTasks)
    BY OfProcess, ElectionProperties, TasksApart
  <2> HIDE DEF campaign, rest
  <2>4. /\ campaign \o rest \in Seq(ProperTasks)
        /\ ~Leading(n) => campaign \o rest \in Seq(MembersTasks)
    BY <1>3, <2>3
  <2> QED BY <1>1, <1>3, <1>5, <2>1, <2>2, <2>4, Proceeds DEF Leading
<1>9. CASE else = "exit"
  <2>1. End(n, "gone") /\ UNCHANGED group
    BY <1>9 DEF TimesOut
  <2>2. LooseTypes'
    BY <1>6, <2>1, EndTypes
  <2> QED BY <1>1, <1>5, <2>1, <2>2, Ends
<1>10. CASE else = "remove"
  <2> DEFINE h == Without(group[n], to)
  <2>1. /\ group' = [group EXCEPT ![n] = h]
        /\ lost' = [lost EXCEPT ![n] = Append(@, to)]
        /\ Do(n, rest) /\ UNCHANGED status
    BY <1>10 DEF TimesOut
  <2>2. Leading(n) /\ status[n] \in Status /\ is_leader[n] \in BOOLEAN
        /\ joining[n] \in Attempts /\ group[n] \in Group
    BY <1>2, <1>10, OfProcess
  <2>3. group[n].leader = n /\ Flagged(group[n]) = {n} /\ Distinct(group[n])
    BY <2>2, LeaderProperties
  <2>4. LooseTypes'
    <3> HIDE DEF send
    <3>1. lost' \in [Node -> Seq(Node)]
      BY <1>2, <2>1, OfAll DEF LooseTypes
    <3> QED BY <1>6, <3>1
  <2> HIDE DEF send, rest
  <2>5. h \in Group /\ h.leader = n /\ Flagged(h) = {n} /\ Distinct(h)
    BY <1>2, <2>2, <2>3, WithoutProperties
  <2> HIDE DEF h
  <2>6. n \in Addresses(h)
    BY <2>5, FlaggedIsListed
  <2>7. Sound(n, status[n], h, is_leader[n], joining[n], rest)
    BY <1>3, <2>2, <2>5, <2>6 DEF Sound, Leading
  <2>8. Becomes(n, status[n], h, is_leader[n], joining[n], rest)
    BY <1>1, <2>1, OfProcess, Zenon DEF Do, Becomes
  <2> QED BY <1>3, <1>5, <2>2, <2>4, <2>5, <2>7, <2>8, Assembled
<1> QED BY <1>2, <1>7, <1>8, <1>9, <1>10

-----------------------------------------------------------------------------
(* Joining *)

LEMMA AddMeProperties ==
    ASSUME NEW to \in Node
    PROVE  AddMe(to) \in Seq(ProperTasks) /\ AddMe(to) \in Seq(MembersTasks)
<1> DEFINE msg == Plain("ADD_ME")
<1>1. msg \in Messages /\ msg.type # "PARTICIPANT_UPDATE"
  BY PlainMessages
<1>2. Informs(to, msg)
  BY <1>1 DEF Informs
<1> HIDE DEF msg
<1>3. Send(to, msg, "exit") \in MembersTasks
  BY <1>1, <1>2, SendProperties
<1> QED BY <1>3, TasksApart DEF AddMe, msg

LEMMA JoinStep ==
    ASSUME GroupInvariant, ConstantsAssumption, NEW n \in Node,
           NEW hint \in Node, Join(n, hint)
    PROVE  GroupInvariant'
<1> DEFINE j == [hint |-> hint, attempts |-> 1]
<1>1. /\ status[n] = "out" /\ status' = [status EXCEPT ![n] = "joining"]
      /\ joining' = [joining EXCEPT ![n] = j]
      /\ Do(n, AddMe(hint)) /\ inbox' = inbox
      /\ UNCHANGED <<group, is_leader>>
  BY DEF Join
<1>2. j \in Attempts /\ j.hint # Nobody
  BY DEF Attempts, ConstantsAssumption
<1> HIDE DEF j
<1>3. LooseTypes'
  BY OfAll DEF Join, LooseTypes, printed
<1>4. InboxesProper'
  BY <1>1, OfAll, KeptInboxes
<1>5. /\ group[n] \in Group /\ is_leader[n] \in BOOLEAN /\ Distinct(group[n])
      /\ "joining" \in Status
  BY OfProcess DEF Status
<1>6. ~is_leader[n]
  <2>1. Sound(n, status[n], group[n], is_leader[n], joining[n], work[n])
    BY OfProcess
  <2> QED BY <1>1, <2>1 DEF Sound
<1>7. AddMe(hint) \in Seq(ProperTasks) /\ AddMe(hint) \in Seq(MembersTasks)
  BY AddMeProperties
<1>8. Sound(n, "joining", group[n], is_leader[n], j, AddMe(hint))
  BY <1>2, <1>5, <1>6, <1>7 DEF Sound
<1>9. Becomes(n, "joining", group[n], is_leader[n], j, AddMe(hint))
  BY <1>1, OfProcess, Zenon DEF Do, Becomes
<1> QED BY <1>2, <1>3, <1>4, <1>5, <1>7, <1>8, <1>9, Assembled

\* The next turn of the loop in join_chat.
LEMMA TryAgainStep ==
    ASSUME GroupInvariant, ConstantsAssumption, LooseTypes', InboxesProper',
           NEW n \in Node, status[n] \in {"joining", "napping"},
           NEW hint \in Node, TryAgain(n, hint), UNCHANGED <<group, is_leader>>
    PROVE  GroupInvariant'
<1>1. CASE joining[n].attempts < MaxAttempts
  <2> DEFINE j == [hint |-> hint, attempts |-> joining[n].attempts + 1]
  <2>1. /\ joining' = [joining EXCEPT ![n] = j]
        /\ status' = [status EXCEPT ![n] = "joining"]
        /\ Do(n, AddMe(hint))
    BY <1>1 DEF TryAgain
  <2>2. j \in Attempts /\ j.hint # Nobody
    BY <1>1, OfProcess, SMTT(20) DEF Attempts, ConstantsAssumption
  <2> HIDE DEF j
  <2>3. /\ group[n] \in Group /\ is_leader[n] \in BOOLEAN /\ Distinct(group[n])
        /\ "joining" \in Status
    BY OfProcess DEF Status
  <2>4. ~is_leader[n]
    <3>1. Sound(n, status[n], group[n], is_leader[n], joining[n], work[n])
      BY OfProcess
    <3> QED BY <3>1 DEF Sound
  <2>5. AddMe(hint) \in Seq(ProperTasks) /\ AddMe(hint) \in Seq(MembersTasks)
    BY AddMeProperties
  <2>6. Sound(n, "joining", group[n], is_leader[n], j, AddMe(hint))
    BY <2>2, <2>3, <2>4, <2>5 DEF Sound
  <2>7. Becomes(n, "joining", group[n], is_leader[n], j, AddMe(hint))
    BY <2>1, OfProcess, Zenon DEF Do, Becomes
  <2> QED BY <2>2, <2>3, <2>5, <2>6, <2>7, Assembled
<1>2. CASE ~(joining[n].attempts < MaxAttempts)
  <2>1. End(n, "gone") /\ UNCHANGED joining
    BY <1>2 DEF TryAgain
  <2> QED BY <2>1, Ends
<1> QED BY <1>1, <1>2

LEMMA TryAgainLost ==
    ASSUME GroupInvariant, NEW n \in Node, NEW hint \in Node, TryAgain(n, hint)
    PROVE  lost' \in [Node -> Seq(Node)]
<1>1. CASE joining[n].attempts < MaxAttempts
  BY <1>1, OfAll DEF TryAgain, LooseTypes
<1>2. CASE ~(joining[n].attempts < MaxAttempts)
  BY <1>2, EndTypes DEF TryAgain
<1> QED BY <1>1, <1>2

LEMMA WakeStep ==
    ASSUME GroupInvariant, ConstantsAssumption, NEW n \in Node, Wake(n)
    PROVE  GroupInvariant'
<1>1. /\ status[n] = "napping" /\ TryAgain(n, joining[n].hint) /\ inbox' = inbox
      /\ UNCHANGED <<group, is_leader>>
  BY DEF Wake
<1>2. joining[n].hint \in Node
  <2>1. joining[n] \in Attempts
    BY OfProcess
  <2>2. Sound(n, status[n], group[n], is_leader[n], joining[n], work[n])
    BY OfProcess
  <2>3. joining[n].hint # Nobody
    BY <1>1, <2>2 DEF Sound
  <2> QED BY <2>1, <2>3 DEF Attempts
<1>3. LooseTypes'
  <2>1. lost' \in [Node -> Seq(Node)]
    BY <1>1, <1>2, TryAgainLost
  <2> QED BY <2>1, OfAll DEF Wake, LooseTypes, printed
<1>4. InboxesProper'
  BY <1>1, OfAll, KeptInboxes
<1> QED BY <1>1, <1>2, <1>3, <1>4, TryAgainStep

-----------------------------------------------------------------------------
(* Messages that are read *)

LEMMA MessageFields ==
    ASSUME NEW msg \in Messages
    PROVE  /\ msg.type = "PARTICIPANT_UPDATE" =>
                  msg.nodes \in Seq(Node) \ {<<>>} /\ msg.notice \in Notices
           /\ msg.type = "LEADER_ID" => msg.leader \in Node
           /\ msg.type = "MESSAGE_REQUEST" => msg.line \in Nat
           /\ msg.type = "MESSAGE_BROADCAST" => msg.line \in Nat /\ msg.id \in Nat
  BY DEF Messages

\* Whoever reads a list finds itself in it, and a leader.
LEMMA ReadList ==
    ASSUME NEW n \in Node, NEW msg \in Messages, Informs(n, msg),
           msg.type = "PARTICIPANT_UPDATE"
    PROVE  LET h == process_participant_update(msg.nodes)
           IN  h \in Group /\ h.leader # Nobody /\ n \in Addresses(h) /\ Distinct(h)
<1> DEFINE nodes == msg.nodes
           h == process_participant_update(nodes)
<1>1. nodes \in Seq(Node) \ {<<>>}
  BY MessageFields
<1>2. NamesDiffer(nodes) /\ \E i \in DOMAIN nodes : nodes[i] = n
  BY DEF Informs
<1> HIDE DEF nodes
<1>3. /\ h \in Group /\ h.leader \in Node /\ Distinct(h)
      /\ \A i \in DOMAIN nodes : nodes[i] \in Addresses(h)
  BY <1>1, <1>2, ProcessProperties
<1> QED BY <1>2, <1>3 DEF nodes

LEMMA SendPlain ==
    ASSUME NEW to \in Node, NEW msg \in Messages, msg.type # "PARTICIPANT_UPDATE",
           NEW else \in {"ignore", "elect", "exit"}
    PROVE  /\ Send(to, msg, else) \in MembersTasks
           /\ <<Send(to, msg, else)>> \in Seq(MembersTasks)
<1>1. Informs(to, msg)
  BY DEF Informs
<1>2. Send(to, msg, else) \in MembersTasks
  BY <1>1, SendProperties
<1> QED BY <1>2

LEMMA HandlesForMembers ==
    ASSUME GroupInvariant, LooseTypes', NEW n \in Node,
           status[n] \in {"joining", "napping", "chatting"}, inbox[n] # <<>>,
           NEW tasks \in Seq(MembersTasks), Handles(n, tasks),
           UNCHANGED <<status, group, is_leader, joining>>
    PROVE  GroupInvariant'
<1>1. InboxesProper'
  BY OfAll, ReadInbox DEF Handles
<1> QED BY <1>1, ProceedingMember DEF Handles

LEMMA HandlesForLeaders ==
    ASSUME GroupInvariant, LooseTypes', NEW n \in Node, Leading(n), inbox[n] # <<>>,
           NEW tasks \in Seq(ProperTasks), Handles(n, tasks),
           UNCHANGED <<status, group, is_leader, joining>>
    PROVE  GroupInvariant'
<1>1. InboxesProper'
  BY OfAll, ReadInbox DEF Handles
<1> QED BY <1>1, ProceedingLeader DEF Handles

\* A process reads its last message, and ends.
LEMMA EndsReading ==
    ASSUME GroupInvariant, NEW n \in Node, NEW how \in {"gone", "segfault"},
           End(n, how), inbox' = [inbox EXCEPT ![n] = <<>>],
           UNCHANGED <<group, is_leader, joining, clock_num, election, heartbeat,
                       typed, shown, output, faults>>
    PROVE  GroupInvariant'
<1>1. LooseTypes'
  <2>1. lost' \in [Node -> Seq(Node)]
    BY EndTypes
  <2> QED BY <2>1, OfAll DEF LooseTypes
<1>2. InboxesProper'
  BY OfAll, EmptiedInbox
<1> QED BY <1>1, <1>2, Ends

LEMMA RespondStep ==
    ASSUME GroupInvariant, ConstantsAssumption, NEW n \in Node,
           status[n] = "chatting", inbox[n] # <<>>,
           NEW from \in Node, RespondToElection(n, from),
           UNCHANGED <<group, is_leader, joining, clock_num, heartbeat, typed,
                       shown, output, faults>>
    PROVE  GroupInvariant'
<1>1. CASE from \notin Addresses(group[n])
  <2>1. /\ End(n, "segfault") /\ inbox' = [inbox EXCEPT ![n] = <<>>]
        /\ UNCHANGED election
    BY <1>1 DEF RespondToElection
  <2> QED BY <2>1, EndsReading
<1>2. CASE from \in Addresses(group[n]) /\ Nick[n] > Nick[from]
  <2> DEFINE stop == <<Send(from, Plain("STOP_ELECTION"), "ignore")>>
             campaign == start_election(n, group[n])
  <2>1. Handles(n, stop \o campaign) /\ UNCHANGED <<status, lost, election>>
    BY <1>2 DEF RespondToElection
  <2>2. stop \in Seq(MembersTasks)
    BY PlainMessages, SendPlain
  <2>3. campaign \in Seq(MembersTasks)
    BY OfProcess, ElectionProperties
  <2> HIDE DEF stop, campaign
  <2>4. stop \o campaign \in Seq(MembersTasks)
    BY <2>2, <2>3
  <2>5. LooseTypes'
    BY <2>1, OfAll DEF LooseTypes
  <2> QED BY <2>1, <2>4, <2>5, HandlesForMembers
<1>3. CASE from \in Addresses(group[n]) /\ ~(Nick[n] > Nick[from])
  <2>1. /\ Handles(n, <<>>) /\ UNCHANGED <<status, lost>>
        /\ election' = [election EXCEPT ![n] = [in |-> TRUE, started |-> FALSE,
                                               age |-> 0]]
    BY <1>3 DEF RespondToElection
  <2>2. election' \in [Node -> [in: BOOLEAN, started: BOOLEAN,
                               age: 0..RESTART_WAIT_MILLIS]]
    BY <2>1, OfAll DEF LooseTypes, ConstantsAssumption
  <2>3. LooseTypes'
    BY <2>1, <2>2, OfAll DEF LooseTypes
  <2>4. <<>> \in Seq(MembersTasks)
    OBVIOUS
  <2> QED BY <2>1, <2>3, <2>4, HandlesForMembers
<1> QED BY <1>1, <1>2, <1>3

\* The reply to ADD_ME, or what is taken for it.
LEMMA ReplyStep ==
    ASSUME GroupInvariant, ConstantsAssumption, NEW n \in Node, Reply(n)
    PROVE  GroupInvariant'
<1> DEFINE msg == Head(inbox[n]).msg
<1>1. /\ status[n] = "joining" /\ work[n] = <<>> /\ inbox[n] # <<>>
      /\ UNCHANGED <<is_leader, clock_num, election, typed, faults>>
  BY DEF Reply, Idle
<1>2. msg \in Messages /\ Informs(n, msg)
  BY <1>1, OfAll, ReadInbox
<1>3. /\ group[n] \in Group /\ is_leader[n] \in BOOLEAN /\ Distinct(group[n])
      /\ joining[n] \in Attempts
  BY OfProcess
<1>4. ~is_leader[n] /\ joining[n].hint # Nobody
  <2>1. Sound(n, status[n], group[n], is_leader[n], joining[n], work[n])
    BY OfProcess
  <2> QED BY <1>1, <2>1 DEF Sound
<1>5. <<>> \in Seq(ProperTasks) /\ <<>> \in Seq(MembersTasks)
  OBVIOUS
<1>6. CASE msg.type = "PARTICIPANT_UPDATE"
  <2> DEFINE h == process_participant_update(msg.nodes)
  <2>1. /\ status' = [status EXCEPT ![n] = "chatting"]
        /\ group' = [group EXCEPT ![n] = h]
        /\ heartbeat' = [heartbeat EXCEPT ![n] = 0]
        /\ Tell(n, Notice("users", msg.nodes))
        /\ inbox' = [inbox EXCEPT ![n] = Tail(@)]
        /\ UNCHANGED <<joining, work, lost>>
    BY <1>6 DEF Reply
  <2>2. msg.nodes \in Seq(Node) \ {<<>>}
    BY <1>2, <1>6, MessageFields
  <2>3. h \in Group /\ h.leader # Nobody /\ n \in Addresses(h) /\ Distinct(h)
    BY <1>2, <1>6, ReadList
  <2>4. shown' = shown /\ output' \in [Windowed -> Seq(Notices)]
    <3>1. Notice("users", msg.nodes) \in Notices
      BY <2>2 DEF Notice, Notices
    <3> QED BY <2>1, <3>1, TellTypes
  <2>5. LooseTypes'
    <3>1. heartbeat' \in [Node -> 0..HEARTBEAT_INTERVAL]
      BY <2>1, OfAll DEF LooseTypes, ConstantsAssumption
    <3> QED BY <1>1, <2>1, <2>4, <3>1, OfAll DEF LooseTypes
  <2>6. InboxesProper'
    BY <1>1, <2>1, OfAll, ReadInbox
  <2> HIDE DEF h
  <2>7. Sound(n, "chatting", h, is_leader[n], joining[n], <<>>)
    BY <1>4, <1>5, <2>3 DEF Sound
  <2>8. Becomes(n, "chatting", h, is_leader[n], joining[n], <<>>)
    BY <1>1, <2>1, OfProcess, Zenon DEF Becomes
  <2>9. "chatting" \in Status
    BY DEF Status
  <2>10. is_leader[n] \in BOOLEAN /\ joining[n] \in Attempts /\ h \in Group
    BY <1>3, <2>3
  <2> DEFINE none == <<>>
  <2>11. /\ none \in Seq(ProperTasks)
         /\ Sound(n, "chatting", h, is_leader[n], joining[n], none)
         /\ Becomes(n, "chatting", h, is_leader[n], joining[n], none)
    BY <1>5, <2>7, <2>8
  <2> HIDE DEF none
  <2> QED BY <2>5, <2>6, <2>9, <2>10, <2>11, Assembled
<1>7. CASE msg.type = "JOIN_FAILURE"
  <2>1. /\ status' = [status EXCEPT ![n] = "napping"]
        /\ inbox' = [inbox EXCEPT ![n] = Tail(@)]
        /\ UNCHANGED <<group, heartbeat, joining, work, lost, shown, output>>
    BY <1>7 DEF Reply, printed
  <2>2. LooseTypes'
    BY <1>1, <2>1, OfAll DEF LooseTypes
  <2>3. InboxesProper'
    BY <1>1, <2>1, OfAll, ReadInbox
  <2>4. Sound(n, "napping", group[n], is_leader[n], joining[n], <<>>)
    BY <1>3, <1>4, <1>5 DEF Sound
  <2>5. Becomes(n, "napping", group[n], is_leader[n], joining[n], <<>>)
    BY <1>1, <2>1, OfProcess, Zenon DEF Becomes
  <2>6. "napping" \in Status
    BY DEF Status
  <2>7. group[n] \in Group /\ is_leader[n] \in BOOLEAN /\ joining[n] \in Attempts
    BY <1>3
  <2> DEFINE none == <<>>
  <2>8. /\ none \in Seq(ProperTasks)
        /\ Sound(n, "napping", group[n], is_leader[n], joining[n], none)
        /\ Becomes(n, "napping", group[n], is_leader[n], joining[n], none)
    BY <1>5, <2>4, <2>5
  <2> HIDE DEF none
  <2> QED BY <2>2, <2>3, <2>6, <2>7, <2>8, Assembled
<1>8. CASE msg.type = "LEADER_ID"
  <2>1. /\ TryAgain(n, msg.leader)
        /\ inbox' = [inbox EXCEPT ![n] = Tail(@)]
        /\ UNCHANGED <<group, heartbeat, shown, output>>
    BY <1>8 DEF Reply, printed
  <2>2. msg.leader \in Node
    BY <1>2, <1>8, MessageFields
  <2>3. LooseTypes'
    <3>1. lost' \in [Node -> Seq(Node)]
      BY <2>1, <2>2, TryAgainLost
    <3> QED BY <1>1, <2>1, <3>1, OfAll DEF LooseTypes
  <2>4. InboxesProper'
    BY <1>1, <2>1, OfAll, ReadInbox
  <2> HIDE DEF msg
  <2> QED BY <1>1, <2>1, <2>2, <2>3, <2>4, TryAgainStep
<1>9. CASE msg.type \notin {"PARTICIPANT_UPDATE", "JOIN_FAILURE", "LEADER_ID"}
  <2>1. /\ End(n, "gone") /\ inbox' = [inbox EXCEPT ![n] = <<>>]
        /\ UNCHANGED <<group, heartbeat, joining, shown, output>>
    BY <1>9 DEF Reply, printed
  <2> QED BY <1>1, <2>1, EndsReading
<1> QED BY <1>6, <1>7, <1>8, <1>9

LEMMA LineBroadcast ==
    ASSUME GroupInvariant, NEW n \in Node, NEW k \in Nat
    PROVE  Broadcast(n, k) \in Seq(ProperTasks)
<1> DEFINE id == clock_num[n]
           sends == leader_broadcast_message(group[n], Line(k, id))
<1>1. id \in Nat
  BY OfAll DEF LooseTypes
<1>2. Line(k, id) \in Messages /\ Line(k, id).type # "PARTICIPANT_UPDATE"
  BY <1>1, OtherMessages
<1> HIDE DEF id
<1>3. sends \in Seq(ProperTasks)
  BY <1>2, OfProcess, PlainBroadcast
<1>4. Printing(k, id) \in ProperTasks
  BY <1>1, PrintingProperties
<1>5. Broadcast(n, k) = sends \o <<Printing(k, id)>>
  BY DEF Broadcast, id
<1> HIDE DEF sends
<1> QED BY <1>3, <1>4, <1>5

LEMMA ClockTypes ==
    ASSUME GroupInvariant, NEW n \in Node,
           clock_num' = [clock_num EXCEPT ![n] = @ + 1]
    PROVE  clock_num' \in [Node -> Nat]
<1>1. clock_num \in [Node -> Nat]
  BY OfAll DEF LooseTypes
<1>2. clock_num[n] + 1 \in Nat
  BY <1>1
<1> QED BY <1>1, <1>2

LEMMA ElectionTypes ==
    ASSUME GroupInvariant, NEW n \in Node, NEW in \in BOOLEAN, NEW started \in BOOLEAN,
           election' = [election EXCEPT ![n].in = in, ![n].started = started]
    PROVE  election' \in [Node -> [in: BOOLEAN, started: BOOLEAN,
                                  age: 0..RESTART_WAIT_MILLIS]]
<1> DEFINE T == [in: BOOLEAN, started: BOOLEAN, age: 0..RESTART_WAIT_MILLIS]
<1>1. election \in [Node -> T]
  BY OfAll DEF LooseTypes
<1>2. election[n] \in T
  BY <1>1
<1>3. [election[n] EXCEPT !.in = in, !.started = started] \in T
  BY <1>2
<1>4. election' = [election EXCEPT ![n] = [election[n] EXCEPT !.in = in,
                                                              !.started = started]]
  BY <1>1
<1> HIDE DEF T
<1>5. election' \in [Node -> T]
  BY <1>1, <1>3, <1>4
<1> QED BY <1>5 DEF T

LEMMA LeaderReceivesStep ==
    ASSUME GroupInvariant, ConstantsAssumption, NEW n \in Node, LeaderReceives(n)
    PROVE  GroupInvariant'
<1> DEFINE from == Head(inbox[n]).from
           msg == Head(inbox[n]).msg
<1>1. /\ status[n] = "chatting" /\ is_leader[n] /\ inbox[n] # <<>>
      /\ UNCHANGED <<is_leader, heartbeat, joining, typed, shown, output, faults>>
  BY DEF LeaderReceives, printed
<1>2. from \in Node /\ msg \in Messages
  BY <1>1, OfAll, ReadInbox
<1>3. Leading(n)
  BY <1>1 DEF Leading
<1>4. /\ group[n] \in Group /\ Distinct(group[n])
      /\ group[n].leader = n /\ Flagged(group[n]) = {n}
  BY <1>3, OfProcess, LeaderProperties
<1>5. CASE msg.type = "ADD_ME" /\ contains_participant(group[n], Nick[from])
  <2> DEFINE tasks == <<Send(from, Plain("JOIN_NICKNAME_FAILURE"), "exit")>>
  <2>1. Handles(n, tasks) /\ UNCHANGED <<group, status, clock_num, election, lost>>
    BY <1>5 DEF LeaderReceives
  <2>2. tasks \in Seq(ProperTasks)
    BY <1>2, PlainMessages, SendPlain, TasksApart
  <2> HIDE DEF tasks
  <2>3. LooseTypes'
    BY <1>1, <2>1, OfAll DEF LooseTypes
  <2> QED BY <1>1, <1>3, <2>1, <2>2, <2>3, HandlesForLeaders
<1>6. CASE msg.type = "ADD_ME" /\ ~contains_participant(group[n], Nick[from])
  <2> DEFINE h == insert_participant(group[n], from, FALSE)
             tasks == BroadcastUpdate(n, h, Notice("joined", <<from>>))
  <2>1. /\ group' = [group EXCEPT ![n] = h] /\ Handles(n, tasks)
        /\ UNCHANGED <<status, clock_num, election, lost>>
    BY <1>6 DEF LeaderReceives
  <2>2. /\ h \in Group /\ Distinct(h) /\ h.leader = n /\ Flagged(h) = {n}
        /\ \A m \in Addresses(group[n]) : m \in Addresses(h)
    BY <1>2, <1>4, <1>6, InsertProperties
  <2>3. Notice("joined", <<from>>) \in Notices
    BY <1>2 DEF Notice, Notices
  <2> HIDE DEF h
  <2>4. tasks \in Seq(ProperTasks)
    BY <2>2, <2>3, UpdateProperties
  <2> HIDE DEF tasks
  <2>5. n \in Addresses(h)
    BY <2>2, FlaggedIsListed
  <2>6. LooseTypes'
    BY <1>1, <2>1, OfAll DEF LooseTypes
  <2>7. InboxesProper'
    BY <1>1, <2>1, OfAll, ReadInbox DEF Handles
  <2>8. Sound(n, status[n], h, is_leader[n], joining[n], tasks)
    BY <1>1, <2>2, <2>5 DEF Sound
  <2>9. Becomes(n, status[n], h, is_leader[n], joining[n], tasks)
    BY <1>1, <2>1, OfProcess, Zenon DEF Becomes, Handles, Do
  <2>10. status[n] \in Status /\ is_leader[n] \in BOOLEAN /\ joining[n] \in Attempts
    BY OfProcess
  <2> QED BY <2>2, <2>4, <2>6, <2>7, <2>8, <2>9, <2>10, Assembled
<1>7. CASE msg.type = "MESSAGE_REQUEST"
  <2> DEFINE tasks == Broadcast(n, msg.line)
  <2>1. /\ clock_num' = [clock_num EXCEPT ![n] = @ + 1] /\ Handles(n, tasks)
        /\ UNCHANGED <<status, group, election, lost>>
    BY <1>7 DEF LeaderReceives
  <2>2. tasks \in Seq(ProperTasks)
    BY <1>2, <1>7, MessageFields, LineBroadcast
  <2> HIDE DEF tasks
  <2>3. LooseTypes'
    <3>1. clock_num' \in [Node -> Nat]
      BY <2>1, ClockTypes
    <3> QED BY <1>1, <2>1, <3>1, OfAll DEF LooseTypes
  <2> QED BY <1>1, <1>3, <2>1, <2>2, <2>3, HandlesForLeaders
<1>8. CASE msg.type = "START_ELECTION"
  <2>1. RespondToElection(n, from) /\ UNCHANGED <<group, clock_num>>
    BY <1>8 DEF LeaderReceives
  <2> HIDE DEF from
  <2> QED BY <1>1, <1>2, <2>1, RespondStep
<1>9. CASE msg.type \notin {"ADD_ME", "MESSAGE_REQUEST", "START_ELECTION"}
  <2>1. Handles(n, <<>>) /\ UNCHANGED <<status, group, clock_num, election, lost>>
    BY <1>9 DEF LeaderReceives
  <2>2. LooseTypes'
    BY <1>1, <2>1, OfAll DEF LooseTypes
  <2>3. <<>> \in Seq(ProperTasks)
    OBVIOUS
  <2> QED BY <1>1, <1>3, <2>1, <2>2, <2>3, HandlesForLeaders
<1> QED BY <1>5, <1>6, <1>7, <1>8, <1>9

\* The list of a member changes: it still holds it, and a leader.
LEMMA Regroups ==
    ASSUME GroupInvariant, LooseTypes', NEW n \in Node,
           status[n] = "chatting", ~is_leader[n], inbox[n] # <<>>,
           Handles(n, <<>>), NEW h \in Group, group' = [group EXCEPT ![n] = h],
           h.leader # Nobody, n \in Addresses(h), Distinct(h),
           UNCHANGED <<status, is_leader, joining>>
    PROVE  GroupInvariant'
<1>1. <<>> \in Seq(ProperTasks) /\ <<>> \in Seq(MembersTasks)
  OBVIOUS
<1>2. InboxesProper'
  BY OfAll, ReadInbox DEF Handles
<1>3. Sound(n, status[n], h, is_leader[n], joining[n], <<>>)
  BY <1>1 DEF Sound
<1>4. Becomes(n, status[n], h, is_leader[n], joining[n], <<>>)
  BY OfProcess, Zenon DEF Becomes, Handles, Do
<1>5. status[n] \in Status /\ is_leader[n] \in BOOLEAN /\ joining[n] \in Attempts
  BY OfProcess
<1> QED BY <1>1, <1>2, <1>3, <1>4, <1>5, Assembled

LEMMA MemberReceivesStep ==
    ASSUME GroupInvariant, ConstantsAssumption, NEW n \in Node, MemberReceives(n)
    PROVE  GroupInvariant'
<1> DEFINE from == Head(inbox[n]).from
           msg == Head(inbox[n]).msg
<1>1. /\ status[n] = "chatting" /\ ~is_leader[n] /\ inbox[n] # <<>>
      /\ UNCHANGED <<is_leader, heartbeat, joining, typed, faults>>
  BY DEF MemberReceives
<1>2. from \in Node /\ msg \in Messages /\ Informs(n, msg)
  BY <1>1, OfAll, ReadInbox
<1>3. group[n] \in Group /\ Distinct(group[n])
  BY OfProcess
<1>4. group[n].leader # Nobody /\ n \in Addresses(group[n])
  <2>1. Sound(n, status[n], group[n], is_leader[n], joining[n], work[n])
    BY OfProcess
  <2> QED BY <1>1, <2>1 DEF Sound
<1>5. group[n].leader \in Node
  BY <1>3, <1>4 DEF Group
<1>6. <<>> \in Seq(MembersTasks)
  OBVIOUS
<1>7. CASE msg.type = "MESSAGE_BROADCAST"
  <2>1. /\ clock_num' = [clock_num EXCEPT ![n] = msg.id]
        /\ Show(n, msg.line, msg.id) /\ Handles(n, <<>>)
        /\ UNCHANGED <<status, group, election, lost>>
    BY <1>7 DEF MemberReceives
  <2>2. msg.line \in Nat /\ msg.id \in Nat
    BY <1>2, <1>7, MessageFields
  <2> HIDE DEF msg
  <2>3. clock_num' \in [Node -> Nat]
    BY <2>1, <2>2, OfAll DEF LooseTypes
  <2>4. shown' \in [Node -> Seq([line: Nat, id: Nat])] /\ output' = output
    BY <2>1, <2>2, OfAll DEF Show, LooseTypes
  <2>5. LooseTypes'
    BY <1>1, <2>1, <2>3, <2>4, OfAll DEF LooseTypes
  <2> QED BY <1>1, <1>6, <2>1, <2>5, HandlesForMembers
<1>8. CASE msg.type = "PARTICIPANT_UPDATE"
  <2> DEFINE h == process_participant_update(msg.nodes)
  <2>1. /\ group' = [group EXCEPT ![n] = h]
        /\ Tell(n, msg.notice) /\ Handles(n, <<>>)
        /\ UNCHANGED <<status, clock_num, election, lost>>
    BY <1>8 DEF MemberReceives
  <2>2. h \in Group /\ h.leader # Nobody /\ n \in Addresses(h) /\ Distinct(h)
    BY <1>2, <1>8, ReadList
  <2>3. shown' = shown /\ output' \in [Windowed -> Seq(Notices)]
    BY <1>2, <1>8, <2>1, MessageFields, TellTypes
  <2>4. LooseTypes'
    BY <1>1, <2>1, <2>3, OfAll DEF LooseTypes
  <2> HIDE DEF h
  <2> QED BY <1>1, <2>1, <2>2, <2>4, Regroups
<1>9. CASE msg.type = "ADD_ME"
  <2> DEFINE tasks == IF election[n].in
                      THEN <<Send(from, Plain("JOIN_FAILURE"), "ignore")>>
                      ELSE <<Send(from, LeaderId(group[n].leader), "exit")>>
  <2>1. /\ Handles(n, tasks)
        /\ UNCHANGED <<status, group, clock_num, election, shown, output, lost>>
    BY <1>9 DEF MemberReceives, printed
  <2>2. tasks \in Seq(MembersTasks)
    <3>1. <<Send(from, Plain("JOIN_FAILURE"), "ignore")>> \in Seq(MembersTasks)
      BY <1>2, PlainMessages, SendPlain
    <3>2. <<Send(from, LeaderId(group[n].leader), "exit")>> \in Seq(MembersTasks)
      BY <1>2, <1>5, OtherMessages, SendPlain
    <3> QED BY <3>1, <3>2
  <2> HIDE DEF tasks
  <2>3. LooseTypes'
    BY <1>1, <2>1, OfAll DEF LooseTypes
  <2> QED BY <1>1, <2>1, <2>2, <2>3, HandlesForMembers
<1>10. CASE msg.type = "HEARTBEAT"
  <2>1. /\ Handles(n, <<>>)
        /\ UNCHANGED <<status, group, clock_num, election, shown, output, lost>>
    BY <1>10 DEF MemberReceives, printed
  <2>2. LooseTypes'
    BY <1>1, <2>1, OfAll DEF LooseTypes
  <2> QED BY <1>1, <1>6, <2>1, <2>2, HandlesForMembers
<1>11. CASE msg.type = "START_ELECTION"
  <2>1. RespondToElection(n, from) /\ UNCHANGED <<group, clock_num, shown, output>>
    BY <1>11 DEF MemberReceives, printed
  <2> HIDE DEF from
  <2> QED BY <1>1, <1>2, <2>1, RespondStep
<1>12. CASE msg.type = "STOP_ELECTION"
  <2>1. /\ Handles(n, <<>>)
        /\ election' = [election EXCEPT ![n].in = TRUE, ![n].started = FALSE]
        /\ UNCHANGED <<status, group, clock_num, shown, output, lost>>
    BY <1>12 DEF MemberReceives, printed
  <2>2. election' \in [Node -> [in: BOOLEAN, started: BOOLEAN,
                               age: 0..RESTART_WAIT_MILLIS]]
    BY <2>1, ElectionTypes
  <2>3. LooseTypes'
    BY <1>1, <2>1, <2>2, OfAll DEF LooseTypes
  <2> QED BY <1>1, <1>6, <2>1, <2>3, HandlesForMembers
<1>13. CASE msg.type = "ELECTION_VICTORY"
  <2> DEFINE g == group[n]
             found == {i \in DOMAIN g.participants : g.participants[i].node = from}
             h == set_leader_by_addr(g, from)
  <2>1. /\ Handles(n, <<>>)
        /\ election' = [election EXCEPT ![n].in = FALSE, ![n].started = FALSE]
        /\ group' = [group EXCEPT ![n] = h]
        /\ UNCHANGED <<status, clock_num, shown, output, lost>>
    BY <1>13 DEF MemberReceives, printed
  <2>2. election' \in [Node -> [in: BOOLEAN, started: BOOLEAN,
                               age: 0..RESTART_WAIT_MILLIS]]
    BY <2>1, ElectionTypes
  <2>3. LooseTypes'
    BY <1>1, <2>1, <2>2, OfAll DEF LooseTypes
  <2>4. h = FlagLeaders(g, found) /\ found \subseteq 1..Len(g.participants)
    BY <1>3, GroupTypes DEF set_leader_by_addr
  <2> HIDE DEF found, h, g
  <2>5. /\ h \in Group /\ Addresses(h) = Addresses(g) /\ Distinct(h)
        /\ h.leader \in Node
    <3>1. g \in Group /\ Distinct(g) /\ g.leader \in Node
      BY <1>3, <1>5 DEF g
    <3> QED BY <2>4, <3>1, FlagProperties
  <2>6. h.leader # Nobody /\ n \in Addresses(h)
    BY <1>4, <2>5 DEF g
  <2> QED BY <1>1, <2>1, <2>3, <2>5, <2>6, Regroups
<1>14. CASE msg.type \notin {"MESSAGE_BROADCAST", "PARTICIPANT_UPDATE", "ADD_ME",
                             "HEARTBEAT", "START_ELECTION", "STOP_ELECTION",
                             "ELECTION_VICTORY"}
  <2>1. /\ End(n, "gone") /\ inbox' = [inbox EXCEPT ![n] = <<>>]
        /\ UNCHANGED <<group, clock_num, election, shown, output>>
    BY <1>14 DEF MemberReceives, printed
  <2> QED BY <1>1, <2>1, EndsReading
<1> QED BY <1>7, <1>8, <1>9, <1>10, <1>11, <1>12, <1>13, <1>14

-----------------------------------------------------------------------------
(* Lines typed, timers and time *)

\* Whoever chats knows a leader to send to.
LEMMA KnowsLeader ==
    ASSUME GroupInvariant, NEW n \in Node, status[n] = "chatting"
    PROVE  group[n].leader \in Node /\ n \in Addresses(group[n])
<1>1. Sound(n, status[n], group[n], is_leader[n], joining[n], work[n])
  BY OfProcess
<1>2. group[n].leader # Nobody /\ n \in Addresses(group[n])
  BY <1>1 DEF Sound
<1> QED BY <1>2, OfProcess DEF Group

LEMMA TypeStep ==
    ASSUME GroupInvariant, NEW n \in Node, Type(n)
    PROVE  GroupInvariant'
<1> DEFINE k == Len(typed) + 1
           leader == group[n].leader
<1>1. /\ status[n] = "chatting" /\ inbox' = inbox
      /\ typed' = Append(typed, [by |-> n, to |-> leader])
      /\ UNCHANGED <<status, group, is_leader, election, heartbeat, joining,
                     lost, shown, output, faults>>
  BY DEF Type, printed
<1>2. leader \in Node
  BY <1>1, KnowsLeader
<1>3. k \in Nat /\ typed' \in Seq([by: Node, to: Node])
  BY <1>1, <1>2, OfAll DEF LooseTypes
<1>4. InboxesProper'
  BY <1>1, OfAll, KeptInboxes
<1> HIDE DEF k, leader
<1>5. CASE is_leader[n]
  <2>1. clock_num' = [clock_num EXCEPT ![n] = @ + 1] /\ Do(n, Broadcast(n, k))
    BY <1>5 DEF Type, k
  <2>2. LooseTypes'
    <3>1. clock_num' \in [Node -> Nat]
      BY <2>1, ClockTypes
    <3> QED BY <1>1, <1>3, <3>1, OfAll DEF LooseTypes
  <2>3. Broadcast(n, k) \in Seq(ProperTasks)
    BY <1>3, LineBroadcast
  <2> QED BY <1>1, <1>4, <1>5, <2>1, <2>2, <2>3, ProceedingLeader DEF Leading
<1>6. CASE ~is_leader[n]
  <2>1. Do(n, <<Send(leader, Request(k), "elect")>>) /\ UNCHANGED clock_num
    BY <1>6 DEF Type, k, leader
  <2>2. <<Send(leader, Request(k), "elect")>> \in Seq(MembersTasks)
    BY <1>2, <1>3, OtherMessages, SendPlain
  <2>3. LooseTypes'
    BY <1>1, <1>3, <2>1, OfAll DEF LooseTypes
  <2> QED BY <1>1, <1>4, <2>1, <2>2, <2>3, ProceedingMember
<1> QED BY <1>5, <1>6

LEMMA HeartbeatStep ==
    ASSUME GroupInvariant, ConstantsAssumption, NEW n \in Node, Heartbeat(n)
    PROVE  GroupInvariant'
<1> DEFINE beat == Plain("HEARTBEAT")
           leader == group[n].leader
           all == leader_broadcast_message(group[n], beat)
           one == <<Send(leader, beat, "elect")>>
<1>1. /\ status[n] = "chatting" /\ inbox' = inbox
      /\ heartbeat' = [heartbeat EXCEPT ![n] = 0]
      /\ UNCHANGED <<status, group, is_leader, clock_num, election, joining,
                     lost, typed, shown, output, faults>>
  BY DEF Heartbeat, Beats, printed
<1>2. beat \in Messages /\ beat.type # "PARTICIPANT_UPDATE"
  BY PlainMessages
<1>3. heartbeat' \in [Node -> 0..HEARTBEAT_INTERVAL]
  BY <1>1, OfAll DEF LooseTypes, ConstantsAssumption
<1>4. LooseTypes'
  BY <1>1, <1>3, OfAll DEF LooseTypes
<1>5. InboxesProper'
  BY <1>1, OfAll, KeptInboxes
<1>6. leader \in Node
  BY <1>1, KnowsLeader
<1>7. is_leader[n] => Do(n, all)
  BY DEF Heartbeat
<1>8. ~is_leader[n] => Do(n, one)
  BY DEF Heartbeat
<1> HIDE DEF beat, leader
<1>9. all \in Seq(ProperTasks)
  BY <1>2, OfProcess, PlainBroadcast
<1>10. one \in Seq(MembersTasks)
  BY <1>2, <1>6, SendPlain
<1> HIDE DEF all, one
<1>11. CASE is_leader[n]
  BY <1>1, <1>4, <1>5, <1>7, <1>9, <1>11, ProceedingLeader DEF Leading
<1>12. CASE ~is_leader[n]
  BY <1>1, <1>4, <1>5, <1>8, <1>10, <1>12, ProceedingMember
<1> QED BY <1>11, <1>12

LEMMA DeclareVictoryStep ==
    ASSUME GroupInvariant, NEW n \in Node, DeclareVictory(n)
    PROVE  GroupInvariant'
<1> DEFINE h == set_leader_by_nickname(group[n], Nick[n])
           victory == Plain("ELECTION_VICTORY")
           first == leader_broadcast_message(h, victory)
           tasks == first \o <<Then("announce")>>
<1>1. /\ status[n] = "chatting" /\ inbox' = inbox
      /\ election' = [election EXCEPT ![n].in = FALSE, ![n].started = FALSE]
      /\ group' = [group EXCEPT ![n] = h]
      /\ is_leader' = [is_leader EXCEPT ![n] = TRUE]
      /\ Do(n, tasks)
      /\ UNCHANGED <<status, clock_num, heartbeat, joining, lost, typed, shown,
                     output, faults>>
  BY DEF DeclareVictory, Wins, printed
<1>2. group[n] \in Group /\ Distinct(group[n]) /\ n \in Addresses(group[n])
  BY <1>1, OfProcess, KnowsLeader
<1>3. /\ h \in Group /\ Addresses(h) = Addresses(group[n]) /\ Distinct(h)
      /\ h.leader = n /\ Flagged(h) = {n}
  BY <1>2, VictoryProperties
<1>4. victory \in Messages /\ victory.type # "PARTICIPANT_UPDATE"
  BY PlainMessages
<1> HIDE DEF h, victory
<1>5. first \in Seq(ProperTasks)
  BY <1>3, <1>4, PlainBroadcast
<1> HIDE DEF first
<1>6. tasks \in Seq(ProperTasks)
  BY <1>5, ThenProperties
<1> HIDE DEF tasks
<1>7. election' \in [Node -> [in: BOOLEAN, started: BOOLEAN,
                             age: 0..RESTART_WAIT_MILLIS]]
  BY <1>1, ElectionTypes
<1>8. LooseTypes'
  BY <1>1, <1>7, OfAll DEF LooseTypes
<1>9. InboxesProper'
  BY <1>1, OfAll, KeptInboxes
<1>10. Sound(n, status[n], h, TRUE, joining[n], tasks)
  BY <1>1, <1>2, <1>3 DEF Sound
<1>11. Becomes(n, status[n], h, TRUE, joining[n], tasks)
  BY <1>1, OfProcess, Zenon DEF Becomes, Do
<1>12. status[n] \in Status /\ joining[n] \in Attempts /\ TRUE \in BOOLEAN
  BY OfProcess
<1> QED BY <1>3, <1>6, <1>8, <1>9, <1>10, <1>11, <1>12, Assembled

LEMMA RestartElectionStep ==
    ASSUME GroupInvariant, NEW n \in Node, RestartElection(n)
    PROVE  GroupInvariant'
<1> DEFINE tasks == start_election(n, group[n])
<1>1. /\ status[n] = "chatting" /\ inbox' = inbox /\ Do(n, tasks)
      /\ UNCHANGED <<status, group, is_leader, joining>>
  BY DEF RestartElection, Restarts
<1>2. tasks \in Seq(MembersTasks)
  BY OfProcess, ElectionProperties
<1> HIDE DEF tasks
<1>3. LooseTypes'
  BY OfAll DEF RestartElection, LooseTypes, printed
<1>4. InboxesProper'
  BY <1>1, OfAll, KeptInboxes
<1> QED BY <1>1, <1>2, <1>3, <1>4, ProceedingMember

LEMMA TickStep ==
    ASSUME GroupInvariant, ConstantsAssumption, Tick
    PROVE  GroupInvariant'
<1> DEFINE T == [in: BOOLEAN, started: BOOLEAN, age: 0..RESTART_WAIT_MILLIS]
<1>1. /\ UNCHANGED <<status, group, is_leader, clock_num, joining, work, lost,
                     inbox, typed, shown, output, faults>>
      /\ heartbeat' = [n \in Node |-> Older(heartbeat[n], HEARTBEAT_INTERVAL)]
      /\ election' = [n \in Node |->
                         [election[n] EXCEPT !.age = Older(@, RESTART_WAIT_MILLIS)]]
  BY DEF Tick, printed
<1>2. Together
  BY Parts
<1>3. heartbeat' \in [Node -> 0..HEARTBEAT_INTERVAL]
  <2>1. ASSUME NEW n \in Node
        PROVE  Older(heartbeat[n], HEARTBEAT_INTERVAL) \in 0..HEARTBEAT_INTERVAL
    <3>1. heartbeat[n] \in 0..HEARTBEAT_INTERVAL
      BY OfAll DEF LooseTypes
    <3> QED BY <3>1 DEF Older, ConstantsAssumption
  <2> QED BY <1>1, <2>1
<1>4. election' \in [Node -> T]
  <2>1. ASSUME NEW n \in Node
        PROVE  [election[n] EXCEPT !.age = Older(@, RESTART_WAIT_MILLIS)] \in T
    <3>1. election[n] \in T
      BY OfAll DEF LooseTypes
    <3>2. Older(election[n].age, RESTART_WAIT_MILLIS) \in 0..RESTART_WAIT_MILLIS
      BY <3>1 DEF Older, ConstantsAssumption
    <3> QED BY <3>1, <3>2
  <2> HIDE DEF T
  <2> QED BY <1>1, <2>1
<1>5. LooseTypes'
  BY <1>1, <1>3, <1>4, OfAll DEF LooseTypes
<1>6. InboxesProper'
  BY <1>1, OfAll, KeptInboxes
<1>7. CoreTypes'
  BY <1>1, <1>2 DEF CoreTypes, Together
<1>8. Together'
  BY <1>1, <1>2, <1>5, <1>6, <1>7 DEF Together
<1> QED BY <1>8, Parts, PTL

-----------------------------------------------------------------------------

LEMMA StutterStep ==
    ASSUME GroupInvariant, UNCHANGED vars
    PROVE  GroupInvariant'
<1>1. Together
  BY Parts
<1>2. LooseTypes'
  BY OfAll DEF LooseTypes, vars, printed
<1>3. InboxesProper'
  BY OfAll, KeptInboxes DEF vars
<1>4. Together'
  BY <1>1, <1>2, <1>3 DEF Together, CoreTypes, vars
<1> QED BY <1>4, Parts, PTL

LEMMA GroupInit ==
    ASSUME ConstantsAssumption, Init
    PROVE  GroupInvariant
<1> DEFINE g == process_participant_update(Founders)
<1>1. /\ g \in Group /\ g.leader = Founders[1] /\ g.leader \in Node
      /\ Flagged(g) = {Founders[1]} /\ Distinct(g)
      /\ \A i \in DOMAIN Founders : Founders[i] \in Addresses(g)
  BY ProcessProperties DEF ConstantsAssumption
<1>2. Founders[1] \in Node /\ Founding(Founders[1])
  <2>1. 1 \in DOMAIN Founders
    BY DEF ConstantsAssumption
  <2> QED BY <1>1, <2>1 DEF Founding
<1> HIDE DEF g
<1>3. NoGroup \in Group /\ Distinct(NoGroup)
  BY DEF NoGroup, Group, Distinct, NodesOf, NamesDiffer
<1>4. <<>> \in Seq(ProperTasks) /\ <<>> \in Seq(MembersTasks)
  OBVIOUS
<1>5. CoreTypes
  <2>1. status \in [Node -> Status]
    BY DEF Init, Status
  <2>2. group \in [Node -> Group]
    BY <1>1, <1>3 DEF Init, g
  <2>3. is_leader \in [Node -> BOOLEAN]
    BY DEF Init
  <2>4. joining \in [Node -> Attempts]
    <3>1. [hint |-> Nobody, attempts |-> 0] \in Attempts
      BY DEF Attempts, ConstantsAssumption
    <3> QED BY <3>1 DEF Init
  <2>5. work \in [Node -> Seq(ProperTasks)]
    BY <1>4 DEF Init
  <2> QED BY <2>1, <2>2, <2>3, <2>4, <2>5 DEF CoreTypes
<1>6. LooseTypes
  <2>1. faults \in FaultCounts
    BY DEF Init, FaultCounts, ConstantsAssumption
  <2> QED BY <2>1 DEF Init, LooseTypes, ConstantsAssumption
<1>7. InboxesProper
  BY DEF Init, InboxesProper
<1>8. ASSUME NEW n \in Node
      PROVE  Sound(n, status[n], group[n], is_leader[n], joining[n], work[n])
  <2>1. work[n] = <<>> /\ is_leader[n] = (n = Founders[1])
    BY DEF Init
  <2>2. CASE Founding(n)
    <3>1. status[n] = "chatting" /\ group[n] = g
      BY <2>2 DEF Init, g
    <3>2. n \in Addresses(g)
      BY <1>1, <2>2 DEF Founding
    <3> QED BY <1>1, <1>4, <2>1, <3>1, <3>2 DEF Sound
  <2>3. CASE ~Founding(n)
    <3>1. status[n] = "out" /\ group[n] = NoGroup
      BY <2>3 DEF Init
    <3>2. n # Founders[1]
      BY <1>2, <2>3
    <3> QED BY <1>3, <1>4, <2>1, <3>1, <3>2 DEF Sound
  <2> QED BY <2>2, <2>3
<1>9. Together
  BY <1>5, <1>6, <1>7, <1>8 DEF Together
<1> QED BY <1>9, Parts

LEMMA GroupNext ==
    ASSUME ConstantsAssumption, GroupInvariant, [Next]_vars
    PROVE  GroupInvariant'
<1>1. ASSUME NEW n \in Node, NEW hint \in Node, Join(n, hint) PROVE GroupInvariant'
  BY <1>1, JoinStep
<1>2. ASSUME NEW n \in Node, Wake(n) PROVE GroupInvariant'
  BY <1>2, WakeStep
<1>3. ASSUME NEW n \in Node, Type(n) PROVE GroupInvariant'
  BY <1>3, TypeStep
<1>4. ASSUME NEW n \in Node, Receive(n) PROVE GroupInvariant'
  BY <1>4, ReplyStep, LeaderReceivesStep, MemberReceivesStep DEF Receive
<1>5. ASSUME NEW n \in Node, Timers(n) PROVE GroupInvariant'
  BY <1>5, HeartbeatStep, DeclareVictoryStep, RestartElectionStep DEF Timers
<1>6. ASSUME NEW n \in Node, Work(n) PROVE GroupInvariant'
  BY <1>6, AcknowledgedStep, TimesOutStep, CampaignStep, SettleStep, AnnounceStep,
     PrintLineStep, PrintNoticeStep DEF Work
<1>7. ASSUME NEW n \in Node, Crash(n) PROVE GroupInvariant'
  BY <1>7, CrashStep
<1>8. ASSUME Tick PROVE GroupInvariant'
  BY <1>8, TickStep
<1>9. ASSUME UNCHANGED vars PROVE GroupInvariant'
  BY <1>9, StutterStep
<1> QED BY <1>1, <1>2, <1>3, <1>4, <1>5, <1>6, <1>7, <1>8, <1>9 DEF Next

-----------------------------------------------------------------------------
(* Theorems *)

(***************************************************************************)
(* What each process may have to do, and may be told, keeps its list, its  *)
(* leader and its part in the chat together, whoever joins, crashes, is    *)
(* slow to answer or is elected: GroupInvariant is inductive.              *)
(***************************************************************************)
THEOREM GroupInductive == Spec => []GroupInvariant
<1>1. Init => GroupInvariant
  BY GroupInit, ConstantsAssumption
<1>2. GroupInvariant /\ [Next]_vars => GroupInvariant'
  BY GroupNext, ConstantsAssumption
<1> QED BY <1>1, <1>2, PTL DEF Spec

(***************************************************************************)
(* The variables keep their types: nobody sends to the NULL of a leader    *)
(* that is not known, and no list of a message is empty.                   *)
(***************************************************************************)
THEOREM ChatTypeCorrect == Spec => []TypeOK
<1>1. GroupInvariant => TypeOK
  BY DEF GroupInvariant
<1> QED BY <1>1, GroupInductive, PTL

(***************************************************************************)
(* Everybody in the chat is in its own list, even where it is taken for    *)
(* dead: declare_victory finds the entry that it flags.                    *)
(***************************************************************************)
THEOREM SelfAlwaysListed == Spec => []SelfListed
<1>1. GroupInvariant => SelfListed
  BY DEF GroupInvariant, ProcessInv, SelfListed, Chatting
<1> QED BY <1>1, GroupInductive, PTL

(***************************************************************************)
(* In a process that leads, the flag of the process, the leader pointer    *)
(* and the flags of the participants agree at every step.                  *)
(***************************************************************************)
THEOREM LeaderAlwaysLeads == Spec => []LeaderLeads
<1>1. GroupInvariant => LeaderLeads
  BY DEF GroupInvariant, ProcessInv, LeaderLeads, Leaders, Chatting
<1> QED BY <1>1, GroupInductive, PTL

(***************************************************************************)
(* No list ever names two participants alike.                              *)
(***************************************************************************)
THEOREM NamesStayDistinct == Spec => []DistinctNames
<1>1. ASSUME GroupInvariant PROVE DistinctNames
  <2>1. SUFFICES ASSUME NEW n \in Node
                 PROVE  LET list == group[n].participants
                        IN  \A i, j \in DOMAIN list :
                                Nick[list[i].node] = Nick[list[j].node] => i = j
    BY DEF DistinctNames
  <2>2. group[n] \in Group /\ Distinct(group[n])
    BY <1>1, OfProcess
  <2> QED BY <2>2, GroupTypes
<1> QED BY <1>1, GroupInductive, PTL
=============================================================================
