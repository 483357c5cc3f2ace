------------------------------- MODULE LinesProofs -------------------------------
(***************************************************************************)
(* The lines of one leader are seen in one order, by everybody and however *)
(* often the group has changed: OrderInvariant is inductive.               *)
(***************************************************************************)
EXTENDS ListingProofs

-----------------------------------------------------------------------------
(* Places of a sequence *)

LEMMA InSeq ==
    ASSUME NEW S, NEW q \in Seq(S)
    PROVE  \A i \in DOMAIN q : i \in Int /\ q[i] \in S
  OBVIOUS

LEMMA TailParts ==
    ASSUME NEW S, NEW q \in Seq(S), q # <<>>
    PROVE  /\ 1 \in DOMAIN q /\ Head(q) = q[1] /\ Head(q) \in S /\ Tail(q) \in Seq(S)
           /\ \A i \in DOMAIN Tail(q) :
                  /\ i \in Int /\ i + 1 \in DOMAIN q /\ i + 1 # 1 /\ 1 < i + 1
                  /\ Tail(q)[i] = q[i + 1]
<1>1. Len(q) \in Nat /\ DOMAIN q = 1..Len(q) /\ Len(q) # 0
  OBVIOUS
<1>2. Tail(q) \in Seq(S) /\ Len(Tail(q)) = Len(q) - 1 /\ Head(q) = q[1]
  OBVIOUS
<1>3. \A i \in 1..Len(q) - 1 : Tail(q)[i] = q[i + 1]
  OBVIOUS
<1>4. DOMAIN Tail(q) = 1..Len(q) - 1
  BY <1>2
<1>5. Head(q) \in S
  OBVIOUS
<1> QED BY <1>1, <1>2, <1>3, <1>4, <1>5

LEMMA AppendParts ==
    ASSUME NEW S, NEW q \in Seq(S), NEW e \in S
    PROVE  /\ Append(q, e) \in Seq(S)
           /\ Len(q) + 1 \in DOMAIN Append(q, e) /\ Append(q, e)[Len(q) + 1] = e
           /\ \A i \in DOMAIN q : /\ i \in DOMAIN Append(q, e) /\ Append(q, e)[i] = q[i]
                                  /\ i \in Int /\ i < Len(q) + 1
           /\ \A i \in DOMAIN Append(q, e) :
                  \/ i \in DOMAIN q
                  \/ i = Len(q) + 1
<1>1. Len(q) \in Nat /\ DOMAIN q = 1..Len(q)
  OBVIOUS
<1>2. Append(q, e) \in Seq(S) /\ Len(Append(q, e)) = Len(q) + 1
  OBVIOUS
<1>3. /\ \A i \in 1..Len(q) : Append(q, e)[i] = q[i]
      /\ Append(q, e)[Len(q) + 1] = e
  OBVIOUS
<1>4. DOMAIN Append(q, e) = 1..Len(q) + 1
  BY <1>2
<1> QED BY <1>1, <1>2, <1>3, <1>4

LEMMA Shifted ==
    /\ \A i, j, d \in Int : i + d = j + d => i = j
    /\ \A i, j, d \in Int : i < j => i + d < j + d
  OBVIOUS

-----------------------------------------------------------------------------
(* Where copies of lines are *)

Works == [Node -> Seq(Tasks)]

Screens == [Node -> Seq([line: Nat, id: Nat])]

LEMMA CopiesAre ==
    ASSUME NEW w, NEW b, NEW s, NEW e
    PROVE  e \in Copies(w, b, s) <=>
               \E x \in Node : \/ e \in Seen(s, x)
                               \/ e \in Waiting(b, x)
                               \/ \E n \in Node : e \in Ahead(w, n, x)
<1>1. \A n \in Node : e \in Pending(w, n) <=> \E x \in Node : e \in Ahead(w, n, x)
  BY DEF Pending, Ahead
<1>2. e \in Copies(w, b, s) <=>
          \E x \in Node : \/ e \in Seen(s, x)
                           \/ e \in Waiting(b, x)
                           \/ e \in Pending(w, x)
  BY DEF Copies
<1> QED BY <1>1, <1>2

LEMMA AheadIs ==
    ASSUME NEW w, NEW n, NEW x, NEW e
    PROVE  e \in Ahead(w, n, x) <=>
               \E i \in DOMAIN w[n] : Tells(n, w[n][i], x) /\ e = Told(w[n][i])
  BY DEF Ahead

LEMMA WaitingIs ==
    ASSUME NEW b, NEW x, NEW e
    PROVE  e \in Waiting(b, x) <=>
               \E i \in DOMAIN b[x] : IsLine(b[x][i].msg) /\ e = Entry(b[x][i].msg)
  BY DEF Waiting

LEMMA SeenIs ==
    ASSUME NEW s, NEW x, NEW e
    PROVE  e \in Seen(s, x) <=> \E i \in DOMAIN s[x] : e = s[x][i]
  BY DEF Seen

LEMMA EntryFields ==
    ASSUME NEW r
    PROVE  Entry(r).line = r.line /\ Entry(r).id = r.id
  BY DEF Entry

-----------------------------------------------------------------------------
(* Steps that neither make nor move a line or a request *)

\* A task or a message about a line.
OfLine(task) ==
    \/ task.task = "print"
    \/ task.task = "send" /\ (IsLine(task.msg) \/ IsRequest(task.msg))

Brings(msg) == IsLine(msg) \/ IsRequest(msg)

\* Tasks w2 are some of w, in the same order, and others that are about no line.
SomeWork(w, w2) ==
    \A n \in Node : \E d \in Int : \A i \in DOMAIN w2[n] : OfLine(w2[n][i]) =>
        i + d \in DOMAIN w[n] /\ w2[n][i] = w[n][i + d]

\* What came next, a request maybe, comes next still, or is gone.
LessWork(w, w2) ==
    \A n \in Node : \E d \in Int : \A i \in DOMAIN w2[n] : OfLine(w2[n][i]) =>
        i + d \in DOMAIN w[n] /\ w2[n][i] = w[n][i + d] /\ (i + d = 1 => i = 1)

LessInbox(b, b2) ==
    \A n \in Node : \E d \in Int : \A i \in DOMAIN b2[n] : Brings(b2[n][i].msg) =>
        i + d \in DOMAIN b[n] /\ b2[n][i] = b[n][i + d]

LEMMA TellsOfLine ==
    ASSUME NEW n, NEW task, NEW x
    PROVE  /\ Tells(n, task, x) => OfLine(task)
           /\ Asks(task) => OfLine(task)
  BY DEF Tells, Asks, OfLine, IsRequest

LEMMA LessIsSome ==
    ASSUME NEW w, NEW w2, LessWork(w, w2)
    PROVE  SomeWork(w, w2)
<1>1. ASSUME NEW n \in Node
      PROVE  \E d \in Int : \A i \in DOMAIN w2[n] : OfLine(w2[n][i]) =>
                 i + d \in DOMAIN w[n] /\ w2[n][i] = w[n][i + d]
  BY DEF LessWork
<1> QED BY <1>1 DEF SomeWork

LEMMA LessCopies ==
    ASSUME NEW w, NEW b, NEW s, NEW w2, NEW b2, SomeWork(w, w2), LessInbox(b, b2)
    PROVE  /\ \A n, x \in Node : Ahead(w2, n, x) \subseteq Ahead(w, n, x)
           /\ \A x \in Node : Waiting(b2, x) \subseteq Waiting(b, x)
           /\ Copies(w2, b2, s) \subseteq Copies(w, b, s)
           /\ \A k : Requested(b2, k) => Requested(b, k)
           /\ \A k : Copied(w2, b2, s, k) => Copied(w, b, s, k)
<1>1. ASSUME NEW n \in Node, NEW x \in Node, NEW e \in Ahead(w2, n, x)
      PROVE  e \in Ahead(w, n, x)
  <2>1. PICK i \in DOMAIN w2[n] : Tells(n, w2[n][i], x) /\ e = Told(w2[n][i])
    BY <1>1, AheadIs
  <2>2. \E j \in DOMAIN w[n] : w2[n][i] = w[n][j]
    BY <2>1, TellsOfLine DEF SomeWork
  <2> QED BY <2>1, <2>2, AheadIs
<1>2. ASSUME NEW x \in Node, NEW e \in Waiting(b2, x) PROVE e \in Waiting(b, x)
  <2>1. PICK i \in DOMAIN b2[x] : IsLine(b2[x][i].msg) /\ e = Entry(b2[x][i].msg)
    BY <1>2, WaitingIs
  <2>2. \E j \in DOMAIN b[x] : b2[x][i] = b[x][j]
    BY <2>1 DEF LessInbox, Brings
  <2> QED BY <2>1, <2>2, WaitingIs
<1>3. ASSUME NEW e \in Copies(w2, b2, s) PROVE e \in Copies(w, b, s)
  <2>1. \E x \in Node : \/ e \in Seen(s, x)
                       \/ e \in Waiting(b2, x)
                       \/ \E n \in Node : e \in Ahead(w2, n, x)
    BY <1>3, CopiesAre
  <2>2. \E x \in Node : \/ e \in Seen(s, x)
                       \/ e \in Waiting(b, x)
                       \/ \E n \in Node : e \in Ahead(w, n, x)
    BY <1>1, <1>2, <2>1
  <2> QED BY <2>2, CopiesAre, Zenon
<1>4. ASSUME NEW k, Requested(b2, k) PROVE Requested(b, k)
  <2>0. PICK x \in Node : \E i \in DOMAIN b2[x] :
            IsRequest(b2[x][i].msg) /\ b2[x][i].msg.line = k
    BY <1>4 DEF Requested
  <2>1. PICK i \in DOMAIN b2[x] : IsRequest(b2[x][i].msg) /\ b2[x][i].msg.line = k
    BY <2>0
  <2>2. \E j \in DOMAIN b[x] : b2[x][i] = b[x][j]
    BY <2>1 DEF LessInbox, Brings
  <2> QED BY <2>1, <2>2 DEF Requested
<1> QED BY <1>1, <1>2, <1>3, <1>4 DEF Copied

\* Clocks of leaders go on, and leaders stay leaders.
ClocksGoOn(c, l, c2, l2) ==
    \A n \in Node : l[n] => l2[n] /\ c[n] <= c2[n]

Counters == [Node -> Nat]

Histories == Seq([by: Node, to: Node])

\* The types of what the invariant is about.
Shape(w, b, s, y) ==
    w \in Works /\ b \in Inboxes /\ s \in Screens /\ y \in Histories

LEMMA EntryTypes ==
    ASSUME NEW w, NEW b, NEW s, NEW y, Shape(w, b, s, y),
           NEW e \in Copies(w, b, s)
    PROVE  e \in [line: Nat, id: Nat]
<1>1. PICK x \in Node : \/ e \in Seen(s, x)
                        \/ e \in Waiting(b, x)
                        \/ \E n \in Node : e \in Ahead(w, n, x)
  BY CopiesAre
<1>2. CASE e \in Seen(s, x)
  <2>1. s[x] \in Seq([line: Nat, id: Nat])
    BY DEF Shape, Screens
  <2>2. \A i \in DOMAIN s[x] : s[x][i] \in [line: Nat, id: Nat]
    BY <2>1, InSeq
  <2>3. \E i \in DOMAIN s[x] : e = s[x][i]
    BY <1>2, SeenIs
  <2> QED BY <2>2, <2>3
<1>3. CASE e \in Waiting(b, x)
  <2>1. PICK i \in DOMAIN b[x] : IsLine(b[x][i].msg) /\ e = Entry(b[x][i].msg)
    BY <1>3, WaitingIs
  <2>2. b[x] \in Seq(AnyMessage)
    BY DEF Shape, Inboxes
  <2>3. b[x][i].msg \in Messages
    <3>1. b[x][i] \in AnyMessage
      BY <2>1, <2>2, InSeq
    <3> QED BY <3>1 DEF AnyMessage
  <2> QED BY <2>1, <2>3, MessageFields DEF IsLine, Entry
<1>4. ASSUME NEW n \in Node, e \in Ahead(w, n, x) PROVE e \in [line: Nat, id: Nat]
  <2>1. PICK i \in DOMAIN w[n] : Tells(n, w[n][i], x) /\ e = Told(w[n][i])
    BY <1>4, AheadIs
  <2>2. w[n] \in Seq(Tasks)
    BY DEF Shape, Works
  <2>3. w[n][i] \in Tasks
    BY <2>1, <2>2
  <2> DEFINE t == w[n][i]
  <2> HIDE DEF t
  <2>4. CASE t.task = "print"
    <3>1. t.line \in Nat /\ t.id \in Nat
      BY <2>3, <2>4 DEF Tasks, t
    <3> QED BY <2>1, <2>4, <3>1 DEF Told, Entry, t
  <2>5. CASE t.task = "send" /\ IsLine(t.msg)
    <3>1. t.msg \in Messages
      BY <2>3, <2>5 DEF Tasks, t
    <3> QED BY <2>1, <2>5, <3>1, MessageFields DEF Told, Entry, t, IsLine
  <2> QED BY <2>1, <2>4, <2>5 DEF Tells, t
<1> QED BY <1>1, <1>2, <1>3, <1>4

LEMMA LessOrder ==
    ASSUME NEW w, NEW b, NEW s, NEW y, NEW c \in Counters, NEW l,
           NEW w2, NEW b2, NEW c2 \in Counters, NEW l2,
           Shape(w, b, s, y), Shape(w2, b2, s, y), OrderOf(w, b, s, y, c, l),
           LessWork(w, w2), LessInbox(b, b2), ClocksGoOn(c, l, c2, l2)
    PROVE  OrderOf(w2, b2, s, y, c2, l2)
<1>0. /\ \A n, x \in Node : Ahead(w2, n, x) \subseteq Ahead(w, n, x)
      /\ \A x \in Node : Waiting(b2, x) \subseteq Waiting(b, x)
      /\ Copies(w2, b2, s) \subseteq Copies(w, b, s)
      /\ \A k : Requested(b2, k) => Requested(b, k)
      /\ \A k : Copied(w2, b2, s, k) => Copied(w, b, s, k)
  BY LessIsSome, LessCopies
<1>5. /\ FromLeader(w, b, y) /\ Counted(w, b, s, y, c, l)
      /\ Ascending(w, b, s, y) /\ OneRequest(w, b, s, y)
  BY DEF OrderOf
<1>6. \A n \in Node : /\ DOMAIN w2[n] \subseteq Int /\ DOMAIN b2[n] \subseteq Int
  BY DEF Shape, Works, Inboxes
<1>1. FromLeader(w2, b2, y)
  <2>1. ASSUME NEW n \in Node, NEW x \in Node, NEW i \in DOMAIN w2[n],
               Tells(n, w2[n][i], x)
        PROVE  /\ y[Told(w2[n][i]).line].to = n
               /\ w2[n][i].task = "send" => x # n
               /\ \A j \in DOMAIN w2[n] : Tells(n, w2[n][j], x) => i = j
    <3>1. PICK d \in Int : \A j \in DOMAIN w2[n] : OfLine(w2[n][j]) =>
              j + d \in DOMAIN w[n] /\ w2[n][j] = w[n][j + d]
      BY DEF LessWork
    <3>2. i + d \in DOMAIN w[n] /\ w2[n][i] = w[n][i + d]
      BY <2>1, <3>1, TellsOfLine
    <3>3. ASSUME NEW j \in DOMAIN w2[n], Tells(n, w2[n][j], x) PROVE i = j
      <4>1. j + d \in DOMAIN w[n] /\ w2[n][j] = w[n][j + d]
        BY <3>1, <3>3, TellsOfLine
      <4>2. i + d = j + d
        BY <1>5, <2>1, <3>2, <3>3, <4>1 DEF FromLeader
      <4>3. i \in Int /\ j \in Int
        BY <1>6
      <4> QED BY <4>2, <4>3, Shifted
    <3> QED BY <1>5, <2>1, <3>2, <3>3 DEF FromLeader
  <2>2. ASSUME NEW x \in Node, NEW i \in DOMAIN b2[x], IsLine(b2[x][i].msg)
        PROVE  /\ y[b2[x][i].msg.line].to = b2[x][i].from
               /\ b2[x][i].from # x
    <3>1. \E j \in DOMAIN b[x] : b2[x][i] = b[x][j]
      BY <2>2 DEF LessInbox, Brings
    <3> QED BY <1>5, <2>2, <3>1 DEF FromLeader
  <2> QED BY <2>1, <2>2 DEF FromLeader
<1>2. Counted(w2, b2, s, y, c2, l2)
  <2>1. ASSUME NEW e \in Copies(w2, b2, s)
        PROVE  /\ e.line \in DOMAIN y
               /\ l2[y[e.line].to]
               /\ e.id < c2[y[e.line].to]
    <3>1. e.line \in DOMAIN y /\ l[y[e.line].to] /\ e.id < c[y[e.line].to]
      BY <1>0, <1>5 DEF Counted
    <3>2. y[e.line].to \in Node /\ e.id \in Nat
      <4>1. y[e.line] \in [by: Node, to: Node]
        BY <3>1, InSeq DEF Shape, Histories
      <4>2. e \in [line: Nat, id: Nat]
        BY EntryTypes
      <4> QED BY <4>1, <4>2
    <3> DEFINE n == y[e.line].to
    <3>3. l2[n] /\ c[n] <= c2[n] /\ c[n] \in Nat /\ c2[n] \in Nat
      BY <3>1, <3>2 DEF ClocksGoOn, Counters
    <3> QED BY <3>1, <3>2, <3>3
  <2>2. \A e, f \in Copies(w2, b2, s) : e.line = f.line => e.id = f.id
    BY <1>0, <1>5 DEF Counted
  <2> QED BY <2>1, <2>2 DEF Counted
<1>3. Ascending(w2, b2, s, y)
  <2> SUFFICES ASSUME NEW x \in Node
               PROVE  /\ \A i, j \in DOMAIN s[x] :
                             i < j /\ y[s[x][i].line].to = y[s[x][j].line].to =>
                                 s[x][i].id < s[x][j].id
                      /\ \A i, j \in DOMAIN b2[x] :
                             /\ i < j /\ b2[x][i].from = b2[x][j].from
                             /\ IsLine(b2[x][i].msg) /\ IsLine(b2[x][j].msg)
                             => b2[x][i].msg.id < b2[x][j].msg.id
                      /\ \A f \in Seen(s, x), e \in Waiting(b2, x) :
                             y[f.line].to = y[e.line].to => f.id < e.id
                      /\ \A n \in Node : \A e \in Ahead(w2, n, x),
                                            f \in Seen(s, x) \cup Waiting(b2, x) :
                             y[f.line].to = n => f.id < e.id
    BY DEF Ascending
  <2>1. \A i, j \in DOMAIN s[x] :
            i < j /\ y[s[x][i].line].to = y[s[x][j].line].to =>
                s[x][i].id < s[x][j].id
    BY <1>5 DEF Ascending
  <2>2. ASSUME NEW i \in DOMAIN b2[x], NEW j \in DOMAIN b2[x],
               i < j, b2[x][i].from = b2[x][j].from,
               IsLine(b2[x][i].msg), IsLine(b2[x][j].msg)
        PROVE  b2[x][i].msg.id < b2[x][j].msg.id
    <3>1. PICK d \in Int : \A k \in DOMAIN b2[x] : Brings(b2[x][k].msg) =>
              k + d \in DOMAIN b[x] /\ b2[x][k] = b[x][k + d]
      BY DEF LessInbox
    <3>2. /\ i + d \in DOMAIN b[x] /\ b2[x][i] = b[x][i + d]
          /\ j + d \in DOMAIN b[x] /\ b2[x][j] = b[x][j + d]
      BY <2>2, <3>1 DEF Brings
    <3>3. i + d < j + d
      <4>1. i \in Int /\ j \in Int
        BY <1>6
      <4> QED BY <2>2, <4>1, Shifted
    <3> QED BY <1>5, <2>2, <3>2, <3>3 DEF Ascending
  <2>3. \A f \in Seen(s, x), e \in Waiting(b2, x) :
            y[f.line].to = y[e.line].to => f.id < e.id
    BY <1>0, <1>5 DEF Ascending
  <2>4. \A n \in Node : \A e \in Ahead(w2, n, x), f \in Seen(s, x) \cup Waiting(b2, x) :
            y[f.line].to = n => f.id < e.id
    BY <1>0, <1>5 DEF Ascending
  <2> QED BY <2>1, <2>2, <2>3, <2>4
<1>4. OneRequest(w2, b2, s, y)
  <2>1. ASSUME NEW n \in Node, NEW i \in DOMAIN w2[n], Asks(w2[n][i])
        PROVE  AskedOnce(w2, b2, s, y, n, i)
    <3>1. PICK j \in DOMAIN w[n] : w2[n][i] = w[n][j] /\ (j = 1 => i = 1)
      BY <2>1, TellsOfLine DEF LessWork
    <3>2. AskedOnce(w, b, s, y, n, j)
      BY <1>5, <2>1, <3>1 DEF OneRequest
    <3> QED BY <1>0, <3>1, <3>2 DEF AskedOnce
  <2>2. ASSUME NEW n \in Node, NEW i \in DOMAIN b2[n], IsRequest(b2[n][i].msg)
        PROVE  RequestedOnce(w2, b2, s, y, n, i)
    <3>1. PICK d \in Int : \A k \in DOMAIN b2[n] : Brings(b2[n][k].msg) =>
              k + d \in DOMAIN b[n] /\ b2[n][k] = b[n][k + d]
      BY DEF LessInbox
    <3>2. i + d \in DOMAIN b[n] /\ b2[n][i] = b[n][i + d]
      BY <2>2, <3>1 DEF Brings
    <3>3. RequestedOnce(w, b, s, y, n, i + d)
      BY <1>5, <2>2, <3>2 DEF OneRequest
    <3>4. ASSUME NEW j \in DOMAIN b2[n], IsRequest(b2[n][j].msg),
                 b2[n][j].msg.line = b2[n][i].msg.line
          PROVE  i = j
      <4>1. j + d \in DOMAIN b[n] /\ b2[n][j] = b[n][j + d]
        BY <3>1, <3>4 DEF Brings
      <4>2. i + d = j + d
        BY <3>2, <3>3, <3>4, <4>1 DEF RequestedOnce
      <4>3. i \in Int /\ j \in Int
        BY <1>6
      <4> QED BY <4>2, <4>3, Shifted
    <3> QED BY <1>0, <3>2, <3>3, <3>4 DEF RequestedOnce
  <2> QED BY <2>1, <2>2 DEF OneRequest
<1> QED BY <1>1, <1>2, <1>3, <1>4 DEF OrderOf

-----------------------------------------------------------------------------
(* What handlers do apart from lines *)

\* Tasks, none of which is about a line.
QuietTasks(q) == \E S : q \in Seq(S) /\ \A t \in S : ~OfLine(t)

LEMMA QuietOnes ==
    /\ QuietTasks(<<>>)
    /\ \A t : ~OfLine(t) => QuietTasks(<<t>>)
<1>1. QuietTasks(<<>>)
  <2> DEFINE S == {}
  <2>1. <<>> \in Seq(S) /\ \A t \in S : ~OfLine(t)
    OBVIOUS
  <2> HIDE DEF S
  <2> QED BY <2>1 DEF QuietTasks
<1>2. ASSUME NEW t, ~OfLine(t) PROVE QuietTasks(<<t>>)
  <2> DEFINE S == {t}
  <2>1. <<t>> \in Seq(S) /\ \A u \in S : ~OfLine(u)
    BY <1>2
  <2> HIDE DEF S
  <2> QED BY <2>1 DEF QuietTasks
<1> QED BY <1>1, <1>2

LEMMA QuietJoined ==
    ASSUME NEW p, NEW q, QuietTasks(p), QuietTasks(q)
    PROVE  QuietTasks(p \o q)
<1>1. PICK S : p \in Seq(S) /\ \A t \in S : ~OfLine(t)
  BY DEF QuietTasks
<1>2. PICK R : q \in Seq(R) /\ \A t \in R : ~OfLine(t)
  BY DEF QuietTasks
<1> DEFINE T == S \cup R
<1>3. p \in Seq(T) /\ q \in Seq(T)
  BY <1>1, <1>2
<1>4. \A t \in T : ~OfLine(t)
  BY <1>1, <1>2
<1> HIDE DEF T
<1>5. p \o q \in Seq(T)
  BY <1>3
<1> QED BY <1>4, <1>5 DEF QuietTasks

LEMMA QuietSends ==
    ASSUME NEW to, NEW msg, NEW else
    PROVE  /\ ~Brings(msg) => ~OfLine(Send(to, msg, else))
           /\ \A t \in {"campaign", "settle", "announce"} : ~OfLine(Then(t))
           /\ \A n, notice : QuietTasks(Telling(n, notice))
<1>1. ~Brings(msg) => ~OfLine(Send(to, msg, else))
  BY DEF OfLine, Send, Brings
<1>2. \A t \in {"campaign", "settle", "announce"} : ~OfLine(Then(t))
  BY DEF OfLine, Then
<1>3. \A notice : ~OfLine([task |-> "tell", notice |-> notice])
  BY DEF OfLine
<1> QED BY <1>1, <1>2, <1>3, QuietOnes DEF Telling

LEMMA QuietMessages ==
    /\ \A type : type \notin {"MESSAGE_REQUEST", "MESSAGE_BROADCAST"} => ~Brings(Plain(type))
    /\ \A g, notice : ~Brings(Update(g, notice))
    /\ \A n : ~Brings(LeaderId(n))
  BY DEF Brings, IsLine, IsRequest, Plain, Update, LeaderId

LEMMA QuietBroadcast ==
    ASSUME NEW g \in Group, NEW msg, ~Brings(msg)
    PROVE  QuietTasks(leader_broadcast_message(g, msg))
<1> DEFINE S == {Send(x, msg, "remove") : x \in Addresses(g)} \cup {Then("settle")}
<1>1. \A t \in S : ~OfLine(t)
  BY QuietSends
<1>2. Then("settle") \in S /\ \A x \in Addresses(g) : Send(x, msg, "remove") \in S
  OBVIOUS
<1> HIDE DEF S
<1>3. leader_broadcast_message(g, msg) \in Seq(S)
  BY <1>2, BroadcastIn
<1> QED BY <1>1, <1>3 DEF QuietTasks

LEMMA QuietUpdate ==
    ASSUME NEW n, NEW g \in Group, NEW notice
    PROVE  QuietTasks(BroadcastUpdate(n, g, notice))
<1> DEFINE p == leader_broadcast_message(g, Update(g, notice))
           q == Telling(n, notice)
<1>1. QuietTasks(p)
  BY QuietBroadcast, QuietMessages
<1>2. QuietTasks(q)
  BY QuietSends
<1>3. BroadcastUpdate(n, g, notice) = p \o q
  BY DEF BroadcastUpdate
<1> HIDE DEF p, q
<1> QED BY <1>1, <1>2, <1>3, QuietJoined

LEMMA QuietElection ==
    ASSUME NEW n \in Node, NEW g \in Group
    PROVE  QuietTasks(start_election(n, g))
<1> DEFINE s == g.participants
           places == {i \in DOMAIN s : Nick[s[i].node] # Nick[n]}
           r == Selected(s, places)
           msg == Plain("START_ELECTION")
           send(i) == Send(r[i].node, msg, "ignore")
           sends == nonleader_broadcast_message(n, g, msg)
           S == {send(i) : i \in DOMAIN r} \cup {Then("campaign")}
<1>1. r \in Seq(Participant)
  <2>1. s \in Seq(Participant)
    BY GroupTypes
  <2> QED BY <2>1, SelectedProperties
<1>2. Len(r) \in Nat /\ DOMAIN r = 1..Len(r)
  <2> HIDE DEF r
  <2> QED BY <1>1
<1>3. sends = [i \in 1..Len(r) |-> send(i)]
  BY <1>2 DEF nonleader_broadcast_message
<1>4. start_election(n, g) = sends \o <<Then("campaign")>>
  BY DEF start_election
<1>5. ~Brings(msg)
  BY QuietMessages
<1> HIDE DEF r, msg, sends
<1>6. \A t \in S : ~OfLine(t)
  BY <1>5, QuietSends
<1>7. (\A i \in 1..Len(r) : send(i) \in S) /\ Then("campaign") \in S
  BY <1>2
<1> HIDE DEF S, send
<1>8. sends \in Seq(S)
  BY <1>2, <1>3, <1>7
<1>9. start_election(n, g) \in Seq(S)
  BY <1>4, <1>7, <1>8
<1> QED BY <1>6, <1>9 DEF QuietTasks

\* Tasks about no line take the place of all, or of the first.
LEMMA QuietFollows ==
    ASSUME NEW w \in Works, NEW n \in Node, NEW q, QuietTasks(q)
    PROVE  /\ LessWork(w, [w EXCEPT ![n] = q])
           /\ w[n] # <<>> => LessWork(w, [w EXCEPT ![n] = q \o Tail(w[n])])
<1> DEFINE w2 == [w EXCEPT ![n] = q]
           rest == Tail(w[n])
           w3 == [w EXCEPT ![n] = q \o rest]
           Moves(v, p) == \E d \in Int : \A i \in DOMAIN v[p] : OfLine(v[p][i]) =>
                i + d \in DOMAIN w[p] /\ v[p][i] = w[p][i + d] /\ (i + d = 1 => i = 1)
<1>1. /\ w2[n] = q /\ w3[n] = q \o rest
      /\ \A p \in Node : p # n => w2[p] = w[p] /\ w3[p] = w[p]
  BY DEF Works
<1>2. PICK S : q \in Seq(S) /\ \A t \in S : ~OfLine(t)
  BY DEF QuietTasks
<1>3. \A i \in DOMAIN q : ~OfLine(q[i])
  BY <1>2, InSeq
<1>4. ASSUME NEW v, NEW p \in Node, v[p] = w[p] PROVE Moves(v, p)
  <2>1. w[p] \in Seq(Tasks)
    BY DEF Works
  <2>2. \A i \in DOMAIN w[p] : i \in Int
    BY <2>1, InSeq
  <2>3. \A i \in Int : i + 0 = i
    OBVIOUS
  <2>4. \A i \in DOMAIN v[p] : OfLine(v[p][i]) =>
            i + 0 \in DOMAIN w[p] /\ v[p][i] = w[p][i + 0] /\ (i + 0 = 1 => i = 1)
    BY <1>4, <2>2, <2>3
  <2> QED BY <2>4
<1>5. Moves(w2, n)
  BY <1>1, <1>3
<1>6. LessWork(w, w2)
  <2>1. \A p \in Node : Moves(w2, p)
    <3> HIDE DEF Moves, w2
    <3> QED BY <1>1, <1>4, <1>5
  <2> QED BY <2>1 DEF LessWork
<1>7. ASSUME w[n] # <<>> PROVE LessWork(w, w3)
  <2> DEFINE d == 1 - Len(q)
  <2>1. w[n] \in Seq(Tasks) /\ rest \in Seq(Tasks)
    BY <1>7, TailParts DEF Works
  <2>2. \A i \in DOMAIN rest : /\ i + 1 \in DOMAIN w[n] /\ 1 < i + 1
                              /\ rest[i] = w[n][i + 1]
    BY <1>7, <2>1, TailParts
  <2> HIDE DEF rest
  <2>3. Len(q) \in Nat /\ DOMAIN q = 1..Len(q) /\ Len(rest) \in Nat /\ DOMAIN rest = 1..Len(rest)
    BY <1>2, <2>1
  <2> DEFINE T == S \cup Tasks
  <2>4. q \in Seq(T) /\ rest \in Seq(T)
    BY <1>2, <2>1
  <2> HIDE DEF T
  <2>5. /\ DOMAIN (q \o rest) = 1..(Len(q) + Len(rest))
        /\ \A i \in 1..(Len(q) + Len(rest)) :
               (q \o rest)[i] = IF i <= Len(q) THEN q[i] ELSE rest[i - Len(q)]
    BY <2>4
  <2>6. ASSUME NEW i \in DOMAIN (q \o rest), OfLine((q \o rest)[i])
        PROVE  /\ i + d \in DOMAIN w[n] /\ (q \o rest)[i] = w[n][i + d]
               /\ (i + d = 1 => i = 1)
    <3>1. CASE i <= Len(q)
      <4>1. i \in DOMAIN q /\ (q \o rest)[i] = q[i]
        BY <2>3, <2>5, <3>1
      <4> QED BY <1>3, <2>6, <4>1
    <3>2. CASE ~(i <= Len(q))
      <4> DEFINE j == i - Len(q)
      <4>1. j \in DOMAIN rest /\ (q \o rest)[i] = rest[j] /\ i + d = j + 1
        BY <2>3, <2>5, <3>2
      <4> HIDE DEF j
      <4> QED BY <2>2, <4>1
    <3> QED BY <3>1, <3>2
  <2>7. d \in Int
    BY <2>3
  <2> HIDE DEF d
  <2>8. Moves(w3, n)
    <3> HIDE DEF w3
    <3> QED BY <1>1, <2>6, <2>7
  <2>9. \A p \in Node : Moves(w3, p)
    <3> HIDE DEF Moves, w3
    <3> QED BY <1>1, <1>4, <2>8
  <2> QED BY <2>9 DEF LessWork
<1> QED BY <1>6, <1>7

\* A step that leaves w as it is, takes the first task or drops all.
LEMMA WorkShrinks ==
    ASSUME NEW w \in Works, NEW n \in Node
    PROVE  /\ LessWork(w, w)
           /\ LessWork(w, [w EXCEPT ![n] = <<>>])
           /\ w[n] # <<>> => LessWork(w, [w EXCEPT ![n] = Tail(@)])
<1>1. LessWork(w, [w EXCEPT ![n] = <<>>])
  BY QuietOnes, QuietFollows
<1>2. ASSUME w[n] # <<>> PROVE LessWork(w, [w EXCEPT ![n] = Tail(@)])
  <2> DEFINE rest == Tail(w[n])
             e == <<>>
  <2>1. rest \in Seq(Tasks)
    BY <1>2, TailParts DEF Works
  <2>2. LessWork(w, [w EXCEPT ![n] = e \o rest])
    BY <1>2, QuietOnes, QuietFollows
  <2> HIDE DEF rest
  <2>3. e \o rest = rest
    BY <2>1
  <2> HIDE DEF e
  <2>4. LessWork(w, [w EXCEPT ![n] = rest])
    BY <2>2, <2>3
  <2> QED BY <2>4 DEF rest
<1>3. LessWork(w, w)
  <2>1. ASSUME NEW p \in Node
        PROVE  \E d \in Int : \A i \in DOMAIN w[p] : OfLine(w[p][i]) =>
                   i + d \in DOMAIN w[p] /\ w[p][i] = w[p][i + d] /\ (i + d = 1 => i = 1)
    <3>1. w[p] \in Seq(Tasks)
      BY DEF Works
    <3>2. \A i \in DOMAIN w[p] : i + 0 = i
      BY <3>1
    <3> QED BY <3>2
  <2> QED BY <2>1 DEF LessWork
<1> QED BY <1>1, <1>2, <1>3

\* An inbox is left as it is, read, emptied, or gets a message about no line.
LEMMA InboxShrinks ==
    ASSUME NEW b \in Inboxes, NEW n \in Node
    PROVE  /\ LessInbox(b, b)
           /\ LessInbox(b, [b EXCEPT ![n] = <<>>])
           /\ b[n] # <<>> => LessInbox(b, [b EXCEPT ![n] = Tail(@)])
           /\ \A m \in AnyMessage : ~Brings(m.msg) =>
                  LessInbox(b, [b EXCEPT ![n] = Append(@, m)])
<1> DEFINE Moves(v, p) == \E d \in Int : \A i \in DOMAIN v[p] : Brings(v[p][i].msg) =>
                i + d \in DOMAIN b[p] /\ v[p][i] = b[p][i + d]
<1>1. ASSUME NEW v, NEW p \in Node, v[p] = b[p] PROVE Moves(v, p)
  <2>1. b[p] \in Seq(AnyMessage)
    BY DEF Inboxes
  <2>2. \A i \in DOMAIN b[p] : i + 0 = i
    BY <2>1
  <2> QED BY <1>1, <2>2
<1>2. ASSUME NEW v, Moves(v, n), \A p \in Node : p # n => v[p] = b[p]
      PROVE  LessInbox(b, v)
  <2>1. \A p \in Node : Moves(v, p)
    <3> HIDE DEF Moves
    <3> QED BY <1>1, <1>2
  <2> QED BY <2>1 DEF LessInbox
<1>3. LessInbox(b, b)
  <2>1. Moves(b, n)
    <3> HIDE DEF Moves
    <3> QED BY <1>1
  <2> HIDE DEF Moves
  <2> QED BY <1>2, <2>1
<1>4. LessInbox(b, [b EXCEPT ![n] = <<>>])
  <2> DEFINE v == [b EXCEPT ![n] = <<>>]
  <2>1. v[n] = <<>> /\ \A p \in Node : p # n => v[p] = b[p]
    BY DEF Inboxes
  <2> HIDE DEF v
  <2>2. Moves(v, n)
    BY <2>1
  <2> HIDE DEF Moves
  <2>3. LessInbox(b, v)
    BY <1>2, <2>1, <2>2
  <2> QED BY <2>3 DEF v
<1>5. ASSUME b[n] # <<>> PROVE LessInbox(b, [b EXCEPT ![n] = Tail(@)])
  <2> DEFINE v == [b EXCEPT ![n] = Tail(@)]
  <2>1. v[n] = Tail(b[n]) /\ \A p \in Node : p # n => v[p] = b[p]
    BY DEF Inboxes
  <2>2. b[n] \in Seq(AnyMessage)
    BY DEF Inboxes
  <2>3. \A i \in DOMAIN Tail(b[n]) : i + 1 \in DOMAIN b[n] /\ Tail(b[n])[i] = b[n][i + 1]
    BY <1>5, <2>2, TailParts
  <2> HIDE DEF v
  <2>4. Moves(v, n)
    BY <2>1, <2>3
  <2> HIDE DEF Moves
  <2>5. LessInbox(b, v)
    BY <1>2, <2>1, <2>4
  <2> QED BY <2>5 DEF v
<1>6. ASSUME NEW m \in AnyMessage, ~Brings(m.msg)
      PROVE  LessInbox(b, [b EXCEPT ![n] = Append(@, m)])
  <2> DEFINE v == [b EXCEPT ![n] = Append(@, m)]
             q == b[n]
  <2>1. v[n] = Append(b[n], m) /\ \A p \in Node : p # n => v[p] = b[p]
    BY DEF Inboxes
  <2>2. q \in Seq(AnyMessage)
    BY DEF Inboxes
  <2> HIDE DEF q
  <2>3. \A i \in DOMAIN Append(q, m) : Brings(Append(q, m)[i].msg) =>
            i + 0 \in DOMAIN q /\ Append(q, m)[i] = q[i + 0]
    <3>1. ASSUME NEW i \in DOMAIN Append(q, m), Brings(Append(q, m)[i].msg)
          PROVE  i \in DOMAIN q /\ Append(q, m)[i] = q[i] /\ i + 0 = i
      <4>1. i # Len(q) + 1
        BY <1>6, <2>2, <3>1, AppendParts
      <4>2. i \in DOMAIN q /\ Append(q, m)[i] = q[i] /\ i \in Int
        BY <2>2, <4>1, AppendParts
      <4> QED BY <4>2
    <3> QED BY <3>1
  <2> HIDE DEF v
  <2>4. Moves(v, n)
    <3>1. v[n] = Append(q, m) /\ b[n] = q /\ 0 \in Int
      BY <2>1 DEF q
    <3> QED BY <2>3, <3>1
  <2> HIDE DEF Moves
  <2>5. LessInbox(b, v)
    BY <1>2, <2>1, <2>4
  <2> QED BY <2>5 DEF v
<1> QED BY <1>3, <1>4, <1>5, <1>6

\* An inbox that loses some of what came first.
LEMMA DroppedFront ==
    ASSUME NEW b \in Inboxes, NEW n \in Node, NEW k \in 0..Len(b[n])
    PROVE  /\ [b EXCEPT ![n] = SubSeq(@, k + 1, Len(@))] \in Inboxes
           /\ LessInbox(b, [b EXCEPT ![n] = SubSeq(@, k + 1, Len(@))])
<1> DEFINE v == [b EXCEPT ![n] = SubSeq(@, k + 1, Len(@))]
           rest == SubSeq(b[n], k + 1, Len(b[n]))
<1>1. \A p \in Node : b[p] \in Seq(AnyMessage)
  BY DEF Inboxes
<1>2. /\ rest \in Seq(AnyMessage) /\ Len(rest) = Len(b[n]) - k
      /\ \A i \in 1..Len(b[n]) - k :
             k + i \in 1..Len(b[n]) /\ rest[i] = b[n][k + i]
  BY <1>1, SuffixProperties
<1>3. v = [b EXCEPT ![n] = rest]
  OBVIOUS
<1> HIDE DEF v, rest
<1>4. v \in Inboxes
  BY <1>2, <1>3 DEF Inboxes
<1>5. v[n] = rest /\ \A p \in Node : p # n => v[p] = b[p]
  BY <1>3 DEF Inboxes
<1>6. k \in Int /\ \A i \in DOMAIN v[n] :
          i \in Int /\ i + k \in DOMAIN b[n] /\ v[n][i] = b[n][i + k]
  <2>1. DOMAIN b[n] = 1..Len(b[n]) /\ DOMAIN rest = 1..Len(b[n]) - k
    BY <1>1, <1>2
  <2>2. k \in Int /\ \A i \in 1..Len(b[n]) - k : i \in Int /\ k + i = i + k
    BY <1>1
  <2> QED BY <1>2, <1>5, <2>1, <2>2
<1>7. ASSUME NEW p \in Node, p # n
      PROVE  0 \in Int /\ \A i \in DOMAIN v[p] :
                 i + 0 \in DOMAIN b[p] /\ v[p][i] = b[p][i + 0]
  <2>1. \A i \in DOMAIN b[p] : i + 0 = i
    BY <1>1
  <2> QED BY <1>5, <1>7, <2>1
<1>8. \A p \in Node : \E d \in Int : \A i \in DOMAIN v[p] :
          i + d \in DOMAIN b[p] /\ v[p][i] = b[p][i + d]
  BY <1>6, <1>7
<1>9. LessInbox(b, v)
  BY <1>8 DEF LessInbox
<1> QED BY <1>4, <1>9 DEF v

\* When the first task is gone, other tasks may take its place, or none is left.
LEMMA TakingFirst ==
    ASSUME NEW w \in Works, NEW n \in Node, w[n] # <<>>, NEW q, QuietTasks(q)
    PROVE  LET w1 == [w EXCEPT ![n] = Tail(@)]
           IN  /\ SomeWork(w1, w1)
               /\ SomeWork(w1, [w EXCEPT ![n] = <<>>])
               /\ SomeWork(w1, [w EXCEPT ![n] = q \o Tail(w[n])])
<1> DEFINE w1 == [w EXCEPT ![n] = Tail(@)]
           rest == Tail(w[n])
           w0 == [w EXCEPT ![n] = <<>>]
           w2 == [w EXCEPT ![n] = q \o rest]
           Moves(v, p) == \E d \in Int : \A i \in DOMAIN v[p] : OfLine(v[p][i]) =>
                i + d \in DOMAIN w1[p] /\ v[p][i] = w1[p][i + d]
<1>1. /\ w0[n] = <<>> /\ w1[n] = rest /\ w2[n] = q \o rest
      /\ \A p \in Node : p # n => w0[p] = w1[p] /\ w2[p] = w1[p]
  BY DEF Works
<1>2. rest \in Seq(Tasks) /\ \A p \in Node : w[p] \in Seq(Tasks)
  BY TailParts DEF Works
<1> HIDE DEF w0, w1, w2, rest
<1>3. ASSUME NEW p \in Node PROVE w1[p] \in Seq(Tasks)
  BY <1>1, <1>2 DEF w1, Works
<1>4. ASSUME NEW v, NEW p \in Node, v[p] = w1[p] PROVE Moves(v, p)
  <2>1. \A i \in DOMAIN w1[p] : i + 0 = i
    BY <1>3
  <2> QED BY <1>4, <2>1
<1>5. Moves(w0, n)
  BY <1>1
<1>6. Moves(w2, n)
  <2> DEFINE d == -Len(q)
  <2>1. PICK S : q \in Seq(S) /\ \A t \in S : ~OfLine(t)
    BY DEF QuietTasks
  <2>2. \A i \in DOMAIN q : ~OfLine(q[i])
    BY <2>1, InSeq
  <2>3. Len(q) \in Nat /\ DOMAIN q = 1..Len(q) /\ Len(rest) \in Nat /\ DOMAIN rest = 1..Len(rest)
    BY <1>2, <2>1
  <2> DEFINE T == S \cup Tasks
  <2>4. q \in Seq(T) /\ rest \in Seq(T)
    BY <1>2, <2>1
  <2> HIDE DEF T
  <2>5. /\ DOMAIN (q \o rest) = 1..(Len(q) + Len(rest))
        /\ \A i \in 1..(Len(q) + Len(rest)) :
               (q \o rest)[i] = IF i <= Len(q) THEN q[i] ELSE rest[i - Len(q)]
    BY <2>4
  <2>6. ASSUME NEW i \in DOMAIN (q \o rest), OfLine((q \o rest)[i])
        PROVE  i + d \in DOMAIN rest /\ (q \o rest)[i] = rest[i + d]
    <3>1. CASE i <= Len(q)
      <4>1. i \in DOMAIN q /\ (q \o rest)[i] = q[i]
        BY <2>3, <2>5, <3>1
      <4> QED BY <2>2, <2>6, <4>1
    <3>2. CASE ~(i <= Len(q))
      BY <2>3, <2>5, <3>2
    <3> QED BY <3>1, <3>2
  <2>7. d \in Int
    BY <2>3
  <2> HIDE DEF d
  <2> QED BY <1>1, <2>6, <2>7
<1>7. \A p \in Node : Moves(w0, p) /\ Moves(w1, p) /\ Moves(w2, p)
  <2> HIDE DEF Moves
  <2> QED BY <1>1, <1>4, <1>5, <1>6
<1>8. SomeWork(w1, w0) /\ SomeWork(w1, w1) /\ SomeWork(w1, w2)
  BY <1>7 DEF SomeWork
<1> QED BY <1>8 DEF w0, w1, w2, rest

-----------------------------------------------------------------------------
(* More is typed *)

LEMMA InCopies ==
    ASSUME NEW w, NEW b, NEW s, NEW x \in Node
    PROVE  /\ \A e \in Seen(s, x) : e \in Copies(w, b, s)
           /\ \A e \in Waiting(b, x) : e \in Copies(w, b, s)
           /\ \A n \in Node : \A e \in Ahead(w, n, x) : e \in Copies(w, b, s)
<1>1. ASSUME NEW e \in Seen(s, x) PROVE e \in Copies(w, b, s)
  BY <1>1, CopiesAre, Zenon
<1>2. ASSUME NEW e \in Waiting(b, x) PROVE e \in Copies(w, b, s)
  BY <1>2, CopiesAre, Zenon
<1>3. ASSUME NEW n \in Node, NEW e \in Ahead(w, n, x) PROVE e \in Copies(w, b, s)
  BY <1>3, CopiesAre, Zenon
<1> QED BY <1>1, <1>2, <1>3

\* The copy that is told, waits or is shown at a place is one of the copies.
LEMMA PlacesCopied ==
    ASSUME NEW w, NEW b, NEW s, NEW x \in Node
    PROVE  /\ \A i \in DOMAIN s[x] : s[x][i] \in Seen(s, x) /\ s[x][i] \in Copies(w, b, s)
           /\ \A i \in DOMAIN b[x] : IsLine(b[x][i].msg) =>
                  /\ Entry(b[x][i].msg) \in Waiting(b, x)
                  /\ Entry(b[x][i].msg) \in Copies(w, b, s)
           /\ \A n \in Node : \A i \in DOMAIN w[n] : Tells(n, w[n][i], x) =>
                  /\ Told(w[n][i]) \in Ahead(w, n, x)
                  /\ Told(w[n][i]) \in Copies(w, b, s)
<1>1. ASSUME NEW i \in DOMAIN s[x] PROVE s[x][i] \in Seen(s, x)
  BY <1>1 DEF Seen
<1>2. ASSUME NEW i \in DOMAIN b[x], IsLine(b[x][i].msg)
      PROVE  Entry(b[x][i].msg) \in Waiting(b, x)
  BY <1>2, WaitingIs
<1>3. ASSUME NEW n \in Node, NEW i \in DOMAIN w[n], Tells(n, w[n][i], x)
      PROVE  Told(w[n][i]) \in Ahead(w, n, x)
  BY <1>3, AheadIs
<1> QED BY <1>1, <1>2, <1>3, InCopies

LEMMA MoreTyped ==
    ASSUME NEW w, NEW b, NEW s, NEW y, NEW c, NEW l,
           Shape(w, b, s, y), OrderOf(w, b, s, y, c, l),
           NEW r \in [by: Node, to: Node]
    PROVE  /\ OrderOf(w, b, s, Append(y, r), c, l)
           /\ ~Copied(w, b, s, Len(y) + 1)
           /\ ~Requested(b, Len(y) + 1)
           /\ \A n \in Node : \A i \in DOMAIN w[n] :
                  Asks(w[n][i]) => w[n][i].msg.line # Len(y) + 1
<1> DEFINE y2 == Append(y, r)
           C == Copies(w, b, s)
<1>1. /\ \A k \in DOMAIN y : k \in DOMAIN y2 /\ y2[k] = y[k]
      /\ Len(y) + 1 \notin DOMAIN y
  <2>1. y \in Seq([by: Node, to: Node])
    BY DEF Shape, Histories
  <2>2. /\ \A k \in DOMAIN y : /\ k \in DOMAIN y2 /\ y2[k] = y[k]
                               /\ k \in Int /\ k < Len(y) + 1
    BY <2>1, AppendParts
  <2>3. Len(y) \in Nat
    BY <2>1
  <2> QED BY <2>2, <2>3
<1> HIDE DEF y2
<1>0. /\ FromLeader(w, b, y) /\ Counted(w, b, s, y, c, l)
      /\ Ascending(w, b, s, y) /\ OneRequest(w, b, s, y)
  BY DEF OrderOf
<1>2. \A e \in C : e.line \in DOMAIN y /\ y2[e.line] = y[e.line]
  BY <1>1, <1>0 DEF Counted
<1>3. FromLeader(w, b, y2)
  <2>1. ASSUME NEW n \in Node, NEW x \in Node, NEW i \in DOMAIN w[n],
               Tells(n, w[n][i], x)
        PROVE  y2[Told(w[n][i]).line] = y[Told(w[n][i]).line]
    BY <1>2, <2>1, PlacesCopied
  <2>2. ASSUME NEW x \in Node, NEW i \in DOMAIN b[x], IsLine(b[x][i].msg)
        PROVE  y2[b[x][i].msg.line] = y[b[x][i].msg.line]
    <3>1. Entry(b[x][i].msg) \in C
      BY <2>2, PlacesCopied
    <3> QED BY <1>2, <3>1, EntryFields
  <2> QED BY <1>0, <2>1, <2>2 DEF FromLeader
<1>4. Counted(w, b, s, y2, c, l)
  BY <1>1, <1>2, <1>0 DEF Counted
<1>5. Ascending(w, b, s, y2)
  <2>1. \A x \in Node : \A i \in DOMAIN s[x] : y2[s[x][i].line] = y[s[x][i].line]
    BY <1>2, PlacesCopied
  <2>2. \A x \in Node : /\ \A e \in Seen(s, x) : y2[e.line] = y[e.line]
                        /\ \A e \in Waiting(b, x) : y2[e.line] = y[e.line]
    BY <1>2, InCopies
  <2> QED BY <1>0, <2>1, <2>2 DEF Ascending
<1>6. OneRequest(w, b, s, y2)
  <2>1. ASSUME NEW n \in Node, NEW i \in DOMAIN w[n], Asks(w[n][i])
        PROVE  AskedOnce(w, b, s, y2, n, i)
    BY <1>1, <1>0, <2>1 DEF OneRequest, AskedOnce
  <2>2. ASSUME NEW n \in Node, NEW i \in DOMAIN b[n], IsRequest(b[n][i].msg)
        PROVE  RequestedOnce(w, b, s, y2, n, i)
    BY <1>1, <1>0, <2>2 DEF OneRequest, RequestedOnce
  <2> QED BY <2>1, <2>2 DEF OneRequest
<1>7. ~Copied(w, b, s, Len(y) + 1)
  BY <1>1, <1>2 DEF Copied
<1>8. ~Requested(b, Len(y) + 1)
  BY <1>1, <1>0 DEF Requested, OneRequest, RequestedOnce
<1>9. ASSUME NEW n \in Node, NEW i \in DOMAIN w[n], Asks(w[n][i])
      PROVE  w[n][i].msg.line # Len(y) + 1
  <2>1. AskedOnce(w, b, s, y, n, i)
    BY <1>0, <1>9 DEF OneRequest
  <2> QED BY <1>1, <2>1 DEF AskedOnce
<1> QED BY <1>3, <1>4, <1>5, <1>6, <1>7, <1>8, <1>9 DEF OrderOf, y2

-----------------------------------------------------------------------------
(* Requests *)

\* Nothing is to be seen of line k yet.
Unheard(w, b, s, k) ==
    /\ ~Copied(w, b, s, k)
    /\ ~Requested(b, k)
    /\ \A n \in Node : \A i \in DOMAIN w[n] : Asks(w[n][i]) => w[n][i].msg.line # k

\* What has been added to tasks w and inboxes b is no line.
NoLines(w, b, w2, b2) ==
    /\ \A n, x \in Node : \A i \in DOMAIN w2[n] : Tells(n, w2[n][i], x) =>
           i \in DOMAIN w[n] /\ w2[n][i] = w[n][i]
    /\ \A x \in Node : \A i \in DOMAIN b2[x] : IsLine(b2[x][i].msg) =>
           i \in DOMAIN b[x] /\ b2[x][i] = b[x][i]

LEMMA SameCopies ==
    ASSUME NEW w, NEW b, NEW s, NEW w2, NEW b2, NoLines(w, b, w2, b2)
    PROVE  /\ \A n, x \in Node : Ahead(w2, n, x) \subseteq Ahead(w, n, x)
           /\ \A x \in Node : Waiting(b2, x) \subseteq Waiting(b, x)
           /\ \A e \in Copies(w2, b2, s) : e \in Copies(w, b, s)
           /\ \A k : Copied(w2, b2, s, k) => Copied(w, b, s, k)
<1>1. ASSUME NEW n \in Node, NEW x \in Node, NEW e \in Ahead(w2, n, x)
      PROVE  e \in Ahead(w, n, x)
  <2>1. PICK i \in DOMAIN w2[n] : Tells(n, w2[n][i], x) /\ e = Told(w2[n][i])
    BY <1>1, AheadIs
  <2> QED BY <2>1, AheadIs DEF NoLines
<1>2. ASSUME NEW x \in Node, NEW e \in Waiting(b2, x) PROVE e \in Waiting(b, x)
  <2>1. PICK i \in DOMAIN b2[x] : IsLine(b2[x][i].msg) /\ e = Entry(b2[x][i].msg)
    BY <1>2, WaitingIs
  <2> QED BY <2>1, WaitingIs DEF NoLines
<1>3. ASSUME NEW e \in Copies(w2, b2, s) PROVE e \in Copies(w, b, s)
  <2>1. \E x \in Node : \/ e \in Seen(s, x)
                       \/ e \in Waiting(b2, x)
                       \/ \E n \in Node : e \in Ahead(w2, n, x)
    BY <1>3, CopiesAre
  <2>2. \E x \in Node : \/ e \in Seen(s, x)
                       \/ e \in Waiting(b, x)
                       \/ \E n \in Node : e \in Ahead(w, n, x)
    BY <1>1, <1>2, <2>1
  <2> QED BY <2>2, CopiesAre, Zenon
<1> QED BY <1>1, <1>2, <1>3 DEF Copied

LEMMA SameLines ==
    ASSUME NEW w, NEW b, NEW s, NEW y, NEW c, NEW l, NEW w2, NEW b2,
           OrderOf(w, b, s, y, c, l), NoLines(w, b, w2, b2), OneRequest(w2, b2, s, y)
    PROVE  OrderOf(w2, b2, s, y, c, l)
<1>1. /\ \A n, x \in Node : Ahead(w2, n, x) \subseteq Ahead(w, n, x)
      /\ \A x \in Node : Waiting(b2, x) \subseteq Waiting(b, x)
      /\ \A e \in Copies(w2, b2, s) : e \in Copies(w, b, s)
  BY SameCopies
<1>2. FromLeader(w, b, y) /\ Counted(w, b, s, y, c, l) /\ Ascending(w, b, s, y)
  BY DEF OrderOf
<1>3. FromLeader(w2, b2, y)
  BY <1>2 DEF FromLeader, NoLines
<1>4. Counted(w2, b2, s, y, c, l)
  BY <1>1, <1>2 DEF Counted
<1>5. Ascending(w2, b2, s, y)
  BY <1>1, <1>2 DEF Ascending, NoLines
<1> QED BY <1>3, <1>4, <1>5 DEF OrderOf

\* n is to ask for line k, of which nothing is to be seen yet.
LEMMA AskingOrder ==
    ASSUME NEW w, NEW b, NEW s, NEW y, NEW c, NEW l,
           Shape(w, b, s, y), OrderOf(w, b, s, y, c, l),
           NEW n \in Node, NEW task \in Tasks, Asks(task),
           task.msg.line \in DOMAIN y, y[task.msg.line] = [by |-> n, to |-> task.to],
           Unheard(w, b, s, task.msg.line)
    PROVE  /\ OrderOf([w EXCEPT ![n] = <<task>>], b, s, y, c, l)
           /\ Copies([w EXCEPT ![n] = <<task>>], b, s) \subseteq Copies(w, b, s)
<1> DEFINE w2 == [w EXCEPT ![n] = <<task>>]
<1>1. /\ w2[n] = <<task>> /\ \A p \in Node : p # n => w2[p] = w[p]
  BY DEF Shape, Works
<1>2. /\ DOMAIN w2[n] = {1} /\ w2[n][1] = task
  BY <1>1
<1> HIDE DEF w2
<1>3. \A x : ~Tells(n, task, x)
  BY DEF Asks, Tells, IsLine
<1>4. NoLines(w, b, w2, b)
  BY <1>1, <1>2, <1>3 DEF NoLines
<1>5. \A k : Copied(w2, b, s, k) => Copied(w, b, s, k)
  BY <1>4, SameCopies
<1>6. OneRequest(w, b, s, y)
  BY DEF OrderOf
<1>7. ASSUME NEW p \in Node, NEW i \in DOMAIN w2[p], Asks(w2[p][i])
      PROVE  AskedOnce(w2, b, s, y, p, i)
  <2>1. CASE p = n
    <3>1. i = 1 /\ w2[p][i] = task
      BY <1>2, <2>1
    <3> QED BY <1>5, <2>1, <3>1 DEF AskedOnce, Unheard
  <2>2. CASE p # n
    <3>1. w2[p] = w[p] /\ AskedOnce(w, b, s, y, p, i)
      BY <1>1, <1>6, <1>7, <2>2 DEF OneRequest
    <3> QED BY <1>5, <3>1 DEF AskedOnce
  <2> QED BY <2>1, <2>2
<1>8. ASSUME NEW p \in Node, NEW i \in DOMAIN b[p], IsRequest(b[p][i].msg)
      PROVE  RequestedOnce(w2, b, s, y, p, i)
  <2>1. RequestedOnce(w, b, s, y, p, i)
    BY <1>6, <1>8 DEF OneRequest
  <2> QED BY <1>5, <2>1 DEF RequestedOnce
<1>9. OneRequest(w2, b, s, y)
  BY <1>7, <1>8 DEF OneRequest
<1> QED BY <1>4, <1>9, SameLines, SameCopies DEF w2

\* The request for line k, which was nowhere else, gets to whom it was typed to.
LEMMA RequestArrives ==
    ASSUME NEW w, NEW b, NEW s, NEW y, NEW c, NEW l,
           Shape(w, b, s, y), OrderOf(w, b, s, y, c, l),
           NEW to \in Node, NEW m \in AnyMessage, IsRequest(m.msg),
           m.msg.line \in DOMAIN y, y[m.msg.line].to = to,
           Unheard(w, b, s, m.msg.line)
    PROVE  OrderOf(w, [b EXCEPT ![to] = Append(@, m)], s, y, c, l)
<1> DEFINE b2 == [b EXCEPT ![to] = Append(@, m)]
           k == m.msg.line
           last == Len(b[to]) + 1
<1>1. b[to] \in Seq(AnyMessage)
  BY DEF Shape, Inboxes
<1>2. /\ b2[to] = Append(b[to], m) /\ \A p \in Node : p # to => b2[p] = b[p]
  BY DEF Shape, Inboxes
<1>3. /\ last \in DOMAIN b2[to] /\ b2[to][last] = m
      /\ \A i \in DOMAIN b[to] : i \in DOMAIN b2[to] /\ b2[to][i] = b[to][i]
      /\ \A i \in DOMAIN b2[to] : i \in DOMAIN b[to] \/ i = last
  BY <1>1, <1>2, AppendParts
<1> HIDE DEF b2, last
<1>4. ~IsLine(m.msg)
  BY DEF IsLine, IsRequest
<1>5. NoLines(w, b, w, b2)
  BY <1>2, <1>3, <1>4 DEF NoLines
<1>6. \A j : Copied(w, b2, s, j) => Copied(w, b, s, j)
  BY <1>5, SameCopies
<1>7. OneRequest(w, b, s, y)
  BY DEF OrderOf
<1>8. ASSUME NEW p \in Node, NEW i \in DOMAIN w[p], Asks(w[p][i])
      PROVE  AskedOnce(w, b2, s, y, p, i)
  <2>1. AskedOnce(w, b, s, y, p, i) /\ w[p][i].msg.line # k
    BY <1>7, <1>8 DEF OneRequest, Unheard
  <2>2. ~Requested(b2, w[p][i].msg.line)
    BY <1>2, <1>3, <2>1 DEF AskedOnce, Requested
  <2> QED BY <1>6, <2>1, <2>2 DEF AskedOnce
<1>9. ASSUME NEW p \in Node, NEW i \in DOMAIN b2[p], IsRequest(b2[p][i].msg)
      PROVE  RequestedOnce(w, b2, s, y, p, i)
  <2>0. ~Requested(b, k) /\ ~Copied(w, b2, s, k)
    BY <1>6 DEF Unheard
  <2>1. CASE p = to /\ i = last
    <3>1. ASSUME NEW j \in DOMAIN b2[p], IsRequest(b2[p][j].msg), b2[p][j].msg.line = k
          PROVE  j = last
      BY <1>3, <2>0, <2>1, <3>1 DEF Requested
    <3> QED BY <1>3, <2>0, <2>1, <3>1 DEF RequestedOnce
  <2>2. CASE ~(p = to /\ i = last)
    <3>1. i \in DOMAIN b[p] /\ b2[p][i] = b[p][i]
      BY <1>2, <1>3, <2>2
    <3>2. RequestedOnce(w, b, s, y, p, i) /\ b[p][i].msg.line # k
      BY <1>7, <1>9, <2>0, <3>1 DEF OneRequest, Requested
    <3>3. ASSUME NEW j \in DOMAIN b2[p], IsRequest(b2[p][j].msg),
                 b2[p][j].msg.line = b[p][i].msg.line
          PROVE  i = j
      <4>1. j \in DOMAIN b[p] /\ b2[p][j] = b[p][j]
        BY <1>2, <1>3, <3>2, <3>3
      <4> QED BY <3>2, <3>3, <4>1 DEF RequestedOnce
    <3> QED BY <1>6, <3>1, <3>2, <3>3 DEF RequestedOnce
  <2> QED BY <2>1, <2>2
<1>10. OneRequest(w, b2, s, y)
  BY <1>8, <1>9 DEF OneRequest
<1> QED BY <1>5, <1>10, SameLines DEF b2

-----------------------------------------------------------------------------
(* Copies that move *)

\* Copy e, by n, may be the next that x gets to see: x has printed those with
\* smaller ids, and those that n has still to tell it have greater ones.
Fits(w, b, s, y, c, l, n, x, e) ==
    /\ e.line \in DOMAIN y /\ y[e.line].to = n /\ l[n] /\ e.id < c[n]
    /\ \A f \in Copies(w, b, s) : e.line = f.line => e.id = f.id
    /\ \A f \in Seen(s, x) : y[f.line].to = n => f.id < e.id
    /\ \A g \in Ahead(w, n, x) : e.id < g.id
    /\ ~Requested(b, e.line)
    /\ \A p \in Node : \A i \in DOMAIN w[p] : Asks(w[p][i]) => w[p][i].msg.line # e.line

\* Copies are what they were, and e.
OneMore(w, b, s, w2, b2, s2, e) ==
    \A f \in Copies(w2, b2, s2) : f \in Copies(w, b, s) \/ f = e

LEMMA MoreCounted ==
    ASSUME NEW w, NEW b, NEW s, NEW y, NEW c, NEW l, NEW w2, NEW b2, NEW s2,
           NEW n, NEW x, NEW e,
           Counted(w, b, s, y, c, l), Fits(w, b, s, y, c, l, n, x, e),
           OneMore(w, b, s, w2, b2, s2, e)
    PROVE  Counted(w2, b2, s2, y, c, l)
<1>1. ASSUME NEW f \in Copies(w2, b2, s2)
      PROVE  f.line \in DOMAIN y /\ l[y[f.line].to] /\ f.id < c[y[f.line].to]
  <2>1. f \in Copies(w, b, s) \/ f = e
    BY DEF OneMore
  <2> QED BY <2>1 DEF Counted, Fits
<1>2. ASSUME NEW f \in Copies(w2, b2, s2), NEW g \in Copies(w2, b2, s2),
             f.line = g.line
      PROVE  f.id = g.id
  <2>1. (f \in Copies(w, b, s) \/ f = e) /\ (g \in Copies(w, b, s) \/ g = e)
    BY DEF OneMore
  <2> QED BY <1>2, <2>1 DEF Counted, Fits
<1> QED BY <1>1, <1>2 DEF Counted

LEMMA NoMoreRequests ==
    ASSUME NEW w, NEW b, NEW s, NEW y, NEW c, NEW l, NEW b2, NEW s2,
           NEW n, NEW x, NEW e,
           OneRequest(w, b, s, y), Fits(w, b, s, y, c, l, n, x, e),
           OneMore(w, b, s, w, b2, s2, e),
           \A p \in Node : \A i \in DOMAIN b2[p] : IsRequest(b2[p][i].msg) =>
               i \in DOMAIN b[p] /\ b2[p][i] = b[p][i]
    PROVE  OneRequest(w, b2, s2, y)
<1>1. \A k : k # e.line => (Copied(w, b2, s2, k) => Copied(w, b, s, k))
  BY DEF Copied, OneMore
<1>2. \A k : Requested(b2, k) => Requested(b, k)
  BY DEF Requested
<1>3. ASSUME NEW p \in Node, NEW i \in DOMAIN w[p], Asks(w[p][i])
      PROVE  AskedOnce(w, b2, s2, y, p, i)
  <2>1. AskedOnce(w, b, s, y, p, i) /\ w[p][i].msg.line # e.line
    BY <1>3 DEF OneRequest, Fits
  <2> QED BY <1>1, <1>2, <2>1 DEF AskedOnce
<1>4. ASSUME NEW p \in Node, NEW i \in DOMAIN b2[p], IsRequest(b2[p][i].msg)
      PROVE  RequestedOnce(w, b2, s2, y, p, i)
  <2>1. i \in DOMAIN b[p] /\ b2[p][i] = b[p][i]
    BY <1>4
  <2>2. RequestedOnce(w, b, s, y, p, i)
    BY <1>4, <2>1 DEF OneRequest
  <2>3. b[p][i].msg.line # e.line
    BY <1>4, <2>1 DEF Fits, Requested
  <2> QED BY <1>1, <2>1, <2>2, <2>3 DEF RequestedOnce
<1> QED BY <1>3, <1>4 DEF OneRequest

\* A line gets to the end of an inbox.
LEMMA LineArrives ==
    ASSUME NEW w, NEW b, NEW s, NEW y, NEW c, NEW l,
           Shape(w, b, s, y), OrderOf(w, b, s, y, c, l),
           NEW x \in Node, NEW m \in AnyMessage, IsLine(m.msg), m.from # x,
           Fits(w, b, s, y, c, l, m.from, x, Entry(m.msg)),
           \A f \in Waiting(b, x) : y[f.line].to = m.from => f.id < m.msg.id
    PROVE  OrderOf(w, [b EXCEPT ![x] = Append(@, m)], s, y, c, l)
<1> DEFINE b2 == [b EXCEPT ![x] = Append(@, m)]
           n == m.from
           e == Entry(m.msg)
           last == Len(b[x]) + 1
<1>1. b[x] \in Seq(AnyMessage)
  BY DEF Shape, Inboxes
<1>2. /\ b2[x] = Append(b[x], m) /\ \A p \in Node : p # x => b2[p] = b[p]
  BY DEF Shape, Inboxes
<1>3. /\ last \in DOMAIN b2[x] /\ b2[x][last] = m
      /\ \A i \in DOMAIN b[x] : /\ i \in DOMAIN b2[x] /\ b2[x][i] = b[x][i]
                               /\ i \in Int /\ i < last
      /\ \A i \in DOMAIN b2[x] : i \in DOMAIN b[x] \/ i = last
  BY <1>1, <1>2, AppendParts
<1>4. last \in Int
  BY <1>1
<1>5. e.line = m.msg.line /\ e.id = m.msg.id
  BY EntryFields
<1> HIDE DEF b2, last, e
<1>0. /\ FromLeader(w, b, y) /\ Counted(w, b, s, y, c, l)
      /\ Ascending(w, b, s, y) /\ OneRequest(w, b, s, y)
  BY DEF OrderOf
<1>12. Fits(w, b, s, y, c, l, n, x, e)
  BY DEF e
<1>6. \A p \in Node : \A f \in Waiting(b2, p) : f \in Waiting(b, p) \/ (p = x /\ f = e)
  <2>1. ASSUME NEW p \in Node, NEW f \in Waiting(b2, p)
        PROVE  f \in Waiting(b, p) \/ (p = x /\ f = e)
    <3>1. PICK i \in DOMAIN b2[p] : IsLine(b2[p][i].msg) /\ f = Entry(b2[p][i].msg)
      BY <2>1, WaitingIs
    <3>2. (i \in DOMAIN b[p] /\ b2[p][i] = b[p][i]) \/ (p = x /\ b2[p][i] = m)
      BY <1>2, <1>3
    <3> QED BY <3>1, <3>2, WaitingIs DEF e
  <2> QED BY <2>1
<1>7. OneMore(w, b, s, w, b2, s, e)
  <2>1. ASSUME NEW f \in Copies(w, b2, s) PROVE f \in Copies(w, b, s) \/ f = e
    <3>1. \E p \in Node : \/ f \in Seen(s, p)
                         \/ f \in Waiting(b2, p)
                         \/ \E q \in Node : f \in Ahead(w, q, p)
      BY <2>1, CopiesAre
    <3>2. \/ f = e
          \/ \E p \in Node : \/ f \in Seen(s, p)
                            \/ f \in Waiting(b, p)
                            \/ \E q \in Node : f \in Ahead(w, q, p)
      BY <1>6, <3>1
    <3> QED BY <3>2, CopiesAre, Zenon
  <2> QED BY <2>1 DEF OneMore
<1>8. FromLeader(w, b2, y)
  <2>1. ASSUME NEW p \in Node, NEW i \in DOMAIN b2[p], IsLine(b2[p][i].msg)
        PROVE  y[b2[p][i].msg.line].to = b2[p][i].from /\ b2[p][i].from # p
    <3>1. (i \in DOMAIN b[p] /\ b2[p][i] = b[p][i]) \/ (p = x /\ b2[p][i] = m)
      BY <1>2, <1>3
    <3>2. y[m.msg.line].to = n
      BY <1>5, <1>12 DEF Fits
    <3> QED BY <1>0, <2>1, <3>1, <3>2 DEF FromLeader
  <2> QED BY <1>0, <2>1 DEF FromLeader
<1>9. Counted(w, b2, s, y, c, l)
  BY <1>0, <1>12, <1>7, MoreCounted
<1>10. Ascending(w, b2, s, y)
  <2>0. ASSUME NEW p \in Node, p # x
        PROVE  b2[p] = b[p] /\ \A f \in Waiting(b2, p) : f \in Waiting(b, p)
    BY <1>2, <1>6, <2>0
  <2>1. ASSUME NEW i \in DOMAIN b2[x], NEW j \in DOMAIN b2[x],
               i < j, b2[x][i].from = b2[x][j].from,
               IsLine(b2[x][i].msg), IsLine(b2[x][j].msg)
        PROVE  b2[x][i].msg.id < b2[x][j].msg.id
    <3>1. i \in DOMAIN b[x]
      BY <1>3, <1>4, <2>1
    <3>2. CASE j \in DOMAIN b[x]
      BY <1>3, <1>0, <2>1, <3>1, <3>2 DEF Ascending
    <3>3. CASE j = last
      <4>1. b2[x][i] = b[x][i] /\ b2[x][j] = m
        BY <1>3, <3>1, <3>3
      <4>2. Entry(b[x][i].msg) \in Waiting(b, x)
        BY <2>1, <3>1, <4>1, PlacesCopied
      <4>3. y[b[x][i].msg.line].to = n
        BY <1>0, <2>1, <3>1, <4>1 DEF FromLeader
      <4> QED BY <4>1, <4>2, <4>3, EntryFields
    <3> QED BY <1>3, <3>2, <3>3
  <2>2. ASSUME NEW f \in Seen(s, x), NEW g \in Waiting(b2, x),
               y[f.line].to = y[g.line].to
        PROVE  f.id < g.id
    <3>1. g \in Waiting(b, x) \/ g = e
      BY <1>6
    <3> QED BY <1>0, <1>12, <2>2, <3>1 DEF Ascending, Fits
  <2>3. ASSUME NEW p \in Node, NEW g \in Ahead(w, p, x),
               NEW f \in Seen(s, x) \cup Waiting(b2, x), y[f.line].to = p
        PROVE  f.id < g.id
    <3>1. f \in Seen(s, x) \cup Waiting(b, x) \/ f = e
      BY <1>6
    <3> QED BY <1>0, <1>12, <2>3, <3>1 DEF Ascending, Fits
  <2> QED BY <1>0, <2>0, <2>1, <2>2, <2>3 DEF Ascending
<1>11. OneRequest(w, b2, s, y)
  <2>1. \A p \in Node : \A i \in DOMAIN b2[p] : IsRequest(b2[p][i].msg) =>
            i \in DOMAIN b[p] /\ b2[p][i] = b[p][i]
    BY <1>2, <1>3 DEF IsLine, IsRequest
  <2> QED BY <1>7, <1>0, <1>12, <2>1, NoMoreRequests
<1> QED BY <1>8, <1>9, <1>10, <1>11 DEF OrderOf, b2

\* A line is printed.
LEMMA LineShown ==
    ASSUME NEW w, NEW b, NEW s, NEW y, NEW c, NEW l,
           Shape(w, b, s, y), OrderOf(w, b, s, y, c, l),
           NEW n, NEW x \in Node, NEW e \in [line: Nat, id: Nat],
           Fits(w, b, s, y, c, l, n, x, e),
           \A f \in Waiting(b, x) : y[f.line].to = n => e.id < f.id
    PROVE  /\ OrderOf(w, b, [s EXCEPT ![x] = Append(@, e)], y, c, l)
           /\ OneMore(w, b, s, w, b, [s EXCEPT ![x] = Append(@, e)], e)
<1> DEFINE s2 == [s EXCEPT ![x] = Append(@, e)]
           last == Len(s[x]) + 1
<1>1. s[x] \in Seq([line: Nat, id: Nat])
  BY DEF Shape, Screens
<1>2. /\ s2[x] = Append(s[x], e) /\ \A p \in Node : p # x => s2[p] = s[p]
  BY DEF Shape, Screens
<1>3. /\ last \in DOMAIN s2[x] /\ s2[x][last] = e
      /\ \A i \in DOMAIN s[x] : /\ i \in DOMAIN s2[x] /\ s2[x][i] = s[x][i]
                               /\ i \in Int /\ i < last
      /\ \A i \in DOMAIN s2[x] : i \in DOMAIN s[x] \/ i = last
  BY <1>1, <1>2, AppendParts
<1>4. last \in Int
  BY <1>1
<1> HIDE DEF s2, last
<1>0. /\ FromLeader(w, b, y) /\ Counted(w, b, s, y, c, l)
      /\ Ascending(w, b, s, y) /\ OneRequest(w, b, s, y)
  BY DEF OrderOf
<1>6. \A p \in Node : \A f \in Seen(s2, p) : f \in Seen(s, p) \/ (p = x /\ f = e)
  <2>1. ASSUME NEW p \in Node, NEW f \in Seen(s2, p)
        PROVE  f \in Seen(s, p) \/ (p = x /\ f = e)
    <3>1. PICK i \in DOMAIN s2[p] : f = s2[p][i]
      BY <2>1, SeenIs
    <3>2. (i \in DOMAIN s[p] /\ s2[p][i] = s[p][i]) \/ (p = x /\ s2[p][i] = e)
      BY <1>2, <1>3
    <3> QED BY <3>1, <3>2, SeenIs
  <2> QED BY <2>1
<1>7. OneMore(w, b, s, w, b, s2, e)
  <2>1. ASSUME NEW f \in Copies(w, b, s2) PROVE f \in Copies(w, b, s) \/ f = e
    <3>1. \E p \in Node : \/ f \in Seen(s2, p)
                         \/ f \in Waiting(b, p)
                         \/ \E q \in Node : f \in Ahead(w, q, p)
      BY <2>1, CopiesAre
    <3>2. \/ f = e
          \/ \E p \in Node : \/ f \in Seen(s, p)
                            \/ f \in Waiting(b, p)
                            \/ \E q \in Node : f \in Ahead(w, q, p)
      BY <1>6, <3>1
    <3> QED BY <3>2, CopiesAre, Zenon
  <2> QED BY <2>1 DEF OneMore
<1>9. Counted(w, b, s2, y, c, l)
  BY <1>0, <1>7, MoreCounted
<1>10. Ascending(w, b, s2, y)
  <2>0. ASSUME NEW p \in Node, p # x
        PROVE  s2[p] = s[p] /\ \A f \in Seen(s2, p) : f \in Seen(s, p)
    BY <1>2, <1>6, <2>0
  <2>1. ASSUME NEW i \in DOMAIN s2[x], NEW j \in DOMAIN s2[x],
               i < j, y[s2[x][i].line].to = y[s2[x][j].line].to
        PROVE  s2[x][i].id < s2[x][j].id
    <3>1. i \in DOMAIN s[x]
      BY <1>3, <1>4, <2>1
    <3>2. CASE j \in DOMAIN s[x]
      BY <1>3, <1>0, <2>1, <3>1, <3>2 DEF Ascending
    <3>3. CASE j = last
      <4>1. s2[x][i] = s[x][i] /\ s2[x][j] = e
        BY <1>3, <3>1, <3>3
      <4>2. s[x][i] \in Seen(s, x)
        BY <3>1, PlacesCopied
      <4> QED BY <2>1, <4>1, <4>2 DEF Fits
    <3> QED BY <1>3, <3>2, <3>3
  <2>2. ASSUME NEW f \in Seen(s2, x), NEW g \in Waiting(b, x),
               y[f.line].to = y[g.line].to
        PROVE  f.id < g.id
    <3>1. f \in Seen(s, x) \/ f = e
      BY <1>6
    <3> QED BY <1>0, <2>2, <3>1 DEF Ascending, Fits
  <2>3. ASSUME NEW p \in Node, NEW g \in Ahead(w, p, x),
               NEW f \in Seen(s2, x) \cup Waiting(b, x), y[f.line].to = p
        PROVE  f.id < g.id
    <3>1. f \in Seen(s, x) \cup Waiting(b, x) \/ f = e
      BY <1>6
    <3> QED BY <1>0, <2>3, <3>1 DEF Ascending, Fits
  <2> QED BY <1>0, <2>0, <2>1, <2>2, <2>3 DEF Ascending
<1>11. OneRequest(w, b, s2, y)
  <2>1. \A p \in Node : \A i \in DOMAIN b[p] : IsRequest(b[p][i].msg) =>
            i \in DOMAIN b[p] /\ b[p][i] = b[p][i]
    OBVIOUS
  <2> QED BY <1>7, <1>0, <2>1, NoMoreRequests
<1> QED BY <1>0, <1>7, <1>9, <1>10, <1>11 DEF OrderOf, s2

\* Nobody asks for a line of which there is a copy.
LEMMA NotAsked ==
    ASSUME NEW w, NEW b, NEW s, NEW y, OneRequest(w, b, s, y),
           NEW k, Copied(w, b, s, k)
    PROVE  /\ ~Requested(b, k)
           /\ \A n \in Node : \A i \in DOMAIN w[n] : Asks(w[n][i]) => w[n][i].msg.line # k
<1>1. ASSUME NEW n \in Node, NEW i \in DOMAIN b[n], IsRequest(b[n][i].msg)
      PROVE  b[n][i].msg.line # k
  <2>1. RequestedOnce(w, b, s, y, n, i)
    BY <1>1 DEF OneRequest
  <2> QED BY <2>1 DEF RequestedOnce
<1>2. ASSUME NEW n \in Node, NEW i \in DOMAIN w[n], Asks(w[n][i])
      PROVE  w[n][i].msg.line # k
  <2>1. AskedOnce(w, b, s, y, n, i)
    BY <1>2 DEF OneRequest
  <2> QED BY <2>1 DEF AskedOnce
<1> QED BY <1>1, <1>2 DEF Requested

\* The first task of n, which tells x a line, is taken off.
LEMMA TaskTaken ==
    ASSUME NEW w, NEW b, NEW s, NEW y, NEW c, NEW l,
           Shape(w, b, s, y), OrderOf(w, b, s, y, c, l),
           NEW n \in Node, NEW x \in Node, w[n] # <<>>, Tells(n, Head(w[n]), x)
    PROVE  LET w2 == [w EXCEPT ![n] = Tail(@)]
               e  == Told(Head(w[n]))
           IN  /\ Fits(w2, b, s, y, c, l, n, x, e)
               /\ \A f \in Waiting(b, x) : y[f.line].to = n => f.id < e.id
               /\ e \in [line: Nat, id: Nat] /\ e \in Copies(w, b, s)
               /\ Head(w[n]).task = "send" => x # n
<1> DEFINE w2 == [w EXCEPT ![n] = Tail(@)]
           e  == Told(Head(w[n]))
<1>1. w[n] \in Seq(Tasks) /\ w2[n] = Tail(w[n]) /\ \A p \in Node : p # n => w2[p] = w[p]
  BY DEF Shape, Works
<1>2. /\ 1 \in DOMAIN w[n] /\ Head(w[n]) = w[n][1]
      /\ \A i \in DOMAIN w2[n] : i + 1 \in DOMAIN w[n] /\ i + 1 # 1 /\ w2[n][i] = w[n][i + 1]
  <2> DEFINE q == w[n]
  <2>1. q \in Seq(Tasks) /\ q # <<>> /\ w2[n] = Tail(q)
    BY <1>1
  <2> HIDE DEF q, w2
  <2>2. /\ 1 \in DOMAIN q /\ Head(q) = q[1]
        /\ \A i \in DOMAIN Tail(q) : i + 1 \in DOMAIN q /\ i + 1 # 1 /\ Tail(q)[i] = q[i + 1]
    BY <2>1, TailParts
  <2>3. /\ 1 \in DOMAIN q /\ Head(q) = q[1]
        /\ \A i \in DOMAIN w2[n] : i + 1 \in DOMAIN q /\ i + 1 # 1 /\ w2[n][i] = q[i + 1]
    BY <2>1, <2>2
  <2> QED BY <2>3 DEF q
<1> HIDE DEF w2
<1>0. /\ FromLeader(w, b, y) /\ Counted(w, b, s, y, c, l)
      /\ Ascending(w, b, s, y) /\ OneRequest(w, b, s, y)
  BY DEF OrderOf
<1>3. /\ e = Told(w[n][1]) /\ Tells(n, w[n][1], x)
      /\ e \in Ahead(w, n, x) /\ e \in Copies(w, b, s)
  BY <1>2, PlacesCopied
<1> HIDE DEF e
<1>4. /\ y[e.line].to = n
      /\ Head(w[n]).task = "send" => x # n
      /\ \A j \in DOMAIN w[n] : Tells(n, w[n][j], x) => 1 = j
  BY <1>2, <1>3, <1>0 DEF FromLeader
<1>5. /\ e.line \in DOMAIN y /\ l[n] /\ e.id < c[n]
      /\ \A f \in Copies(w, b, s) : e.line = f.line => e.id = f.id
  BY <1>3, <1>4, <1>0 DEF Counted
<1>6. /\ \A f \in Seen(s, x) : y[f.line].to = n => f.id < e.id
      /\ \A f \in Waiting(b, x) : y[f.line].to = n => f.id < e.id
  BY <1>3, <1>0 DEF Ascending
<1>7. \A g \in Ahead(w2, n, x) : FALSE
  <2>1. ASSUME NEW g \in Ahead(w2, n, x) PROVE FALSE
    <3>1. PICK i \in DOMAIN w2[n] : Tells(n, w2[n][i], x)
      BY <2>1, AheadIs
    <3> QED BY <1>2, <1>4, <3>1
  <2> QED BY <2>1
<1>8. Copied(w, b, s, e.line)
  BY <1>3 DEF Copied
<1>9. ~Requested(b, e.line)
  BY <1>8, <1>0, NotAsked
<1>10. ASSUME NEW p \in Node, NEW i \in DOMAIN w2[p], Asks(w2[p][i])
       PROVE  w2[p][i].msg.line # e.line
  <2>1. PICK j \in DOMAIN w[p] : w2[p][i] = w[p][j]
    BY <1>1, <1>2
  <2> QED BY <1>0, <1>8, <1>10, <2>1, NotAsked
<1>11. Copies(w2, b, s) \subseteq Copies(w, b, s)
  <2>1. LessWork(w, w2) /\ LessInbox(b, b)
    BY WorkShrinks, InboxShrinks DEF Shape, w2
  <2> QED BY <2>1, LessIsSome, LessCopies
<1>12. Fits(w2, b, s, y, c, l, n, x, e)
  BY <1>4, <1>5, <1>6, <1>7, <1>9, <1>10, <1>11 DEF Fits
<1>13. e \in [line: Nat, id: Nat]
  BY <1>3, EntryTypes
<1> QED BY <1>3, <1>4, <1>6, <1>12, <1>13 DEF e, w2

\* The first message to x, which is a line, is read.
LEMMA MessageTaken ==
    ASSUME NEW w, NEW b, NEW s, NEW y, NEW c, NEW l,
           Shape(w, b, s, y), OrderOf(w, b, s, y, c, l),
           NEW x \in Node, b[x] # <<>>, IsLine(Head(b[x]).msg)
    PROVE  LET b2 == [b EXCEPT ![x] = Tail(@)]
               n  == Head(b[x]).from
               e  == Entry(Head(b[x]).msg)
           IN  /\ Fits(w, b2, s, y, c, l, n, x, e)
               /\ \A f \in Waiting(b2, x) : y[f.line].to = n => e.id < f.id
               /\ e \in [line: Nat, id: Nat] /\ e \in Copies(w, b, s)
<1> DEFINE b2 == [b EXCEPT ![x] = Tail(@)]
           n  == Head(b[x]).from
           e  == Entry(Head(b[x]).msg)
<1>1. b[x] \in Seq(AnyMessage) /\ b2[x] = Tail(b[x]) /\ \A p \in Node : p # x => b2[p] = b[p]
  BY DEF Shape, Inboxes
<1>2. /\ 1 \in DOMAIN b[x] /\ Head(b[x]) = b[x][1] /\ b[x][1] \in AnyMessage
      /\ \A i \in DOMAIN b2[x] : i + 1 \in DOMAIN b[x] /\ 1 < i + 1 /\ b2[x][i] = b[x][i + 1]
  <2> DEFINE q == b[x]
  <2>1. q \in Seq(AnyMessage) /\ q # <<>> /\ b2[x] = Tail(q)
    BY <1>1
  <2> HIDE DEF q, b2
  <2>2. /\ 1 \in DOMAIN q /\ Head(q) = q[1] /\ Head(q) \in AnyMessage
        /\ \A i \in DOMAIN Tail(q) : i + 1 \in DOMAIN q /\ 1 < i + 1 /\ Tail(q)[i] = q[i + 1]
    BY <2>1, TailParts
  <2>3. /\ 1 \in DOMAIN q /\ Head(q) = q[1] /\ q[1] \in AnyMessage
        /\ \A i \in DOMAIN b2[x] : i + 1 \in DOMAIN q /\ 1 < i + 1 /\ b2[x][i] = q[i + 1]
    BY <2>1, <2>2
  <2> QED BY <2>3 DEF q
<1> HIDE DEF b2
<1>0. /\ FromLeader(w, b, y) /\ Counted(w, b, s, y, c, l)
      /\ Ascending(w, b, s, y) /\ OneRequest(w, b, s, y)
  BY DEF OrderOf
<1>3. /\ n = b[x][1].from /\ e = Entry(b[x][1].msg) /\ IsLine(b[x][1].msg)
      /\ e \in Waiting(b, x) /\ e \in Copies(w, b, s)
      /\ e.line = b[x][1].msg.line /\ e.id = b[x][1].msg.id
  BY <1>2, PlacesCopied, EntryFields
<1>14. n \in Node
  BY <1>2 DEF AnyMessage
<1> HIDE DEF e, n
<1>4. y[e.line].to = n
  BY <1>2, <1>3, <1>0 DEF FromLeader
<1>5. /\ e.line \in DOMAIN y /\ l[n] /\ e.id < c[n]
      /\ \A f \in Copies(w, b, s) : e.line = f.line => e.id = f.id
  BY <1>3, <1>4, <1>0 DEF Counted
<1>6. /\ \A f \in Seen(s, x) : y[f.line].to = n => f.id < e.id
      /\ \A g \in Ahead(w, n, x) : e.id < g.id
  BY <1>3, <1>4, <1>0, <1>14 DEF Ascending
<1>7. ASSUME NEW f \in Waiting(b2, x), y[f.line].to = n PROVE e.id < f.id
  <2>1. PICK i \in DOMAIN b2[x] : IsLine(b2[x][i].msg) /\ f = Entry(b2[x][i].msg)
    BY WaitingIs
  <2>2. i + 1 \in DOMAIN b[x] /\ 1 < i + 1 /\ b2[x][i] = b[x][i + 1]
    BY <1>2
  <2>3. f.line = b[x][i + 1].msg.line /\ f.id = b[x][i + 1].msg.id
    BY <2>1, <2>2, EntryFields
  <2>4. b[x][i + 1].from = n
    BY <1>7, <1>0, <2>1, <2>2, <2>3 DEF FromLeader
  <2> QED BY <1>2, <1>3, <1>0, <2>1, <2>2, <2>3, <2>4 DEF Ascending
<1>8. Copied(w, b, s, e.line)
  BY <1>3 DEF Copied
<1>9. ~Requested(b2, e.line)
  <2>1. ~Requested(b, e.line)
    BY <1>8, <1>0, NotAsked
  <2>2. \A p \in Node : \A i \in DOMAIN b2[p] : \E j \in DOMAIN b[p] : b2[p][i] = b[p][j]
    <3>1. ASSUME NEW p \in Node, NEW i \in DOMAIN b2[p]
          PROVE  \E j \in DOMAIN b[p] : b2[p][i] = b[p][j]
      BY <1>1, <1>2
    <3> QED BY <3>1
  <2> QED BY <2>1, <2>2 DEF Requested
<1>10. ASSUME NEW p \in Node, NEW i \in DOMAIN w[p], Asks(w[p][i])
       PROVE  w[p][i].msg.line # e.line
  BY <1>0, <1>8, <1>10, NotAsked
<1>11. Copies(w, b2, s) \subseteq Copies(w, b, s)
  <2>1. LessWork(w, w) /\ LessInbox(b, b2)
    BY WorkShrinks, InboxShrinks DEF Shape, b2
  <2> QED BY <2>1, LessIsSome, LessCopies
<1>12. Fits(w, b2, s, y, c, l, n, x, e)
  BY <1>4, <1>5, <1>6, <1>9, <1>10, <1>11 DEF Fits
<1>13. e \in [line: Nat, id: Nat]
  BY <1>3, EntryTypes
<1> QED BY <1>3, <1>7, <1>12, <1>13 DEF e, n, b2

-----------------------------------------------------------------------------
(* Requests that move, and what comes of them *)

\* Less work and fewer messages do not make an unheard line heard.
LEMMA StaysUnheard ==
    ASSUME NEW w, NEW b, NEW s, NEW w2, NEW b2, NEW k,
           SomeWork(w, w2), LessInbox(b, b2), Unheard(w, b, s, k)
    PROVE  Unheard(w2, b2, s, k)
<1>1. ~Copied(w2, b2, s, k) /\ ~Requested(b2, k)
  BY LessCopies DEF Unheard
<1>2. ASSUME NEW n \in Node, NEW i \in DOMAIN w2[n], Asks(w2[n][i])
      PROVE  w2[n][i].msg.line # k
  <2>1. \E j \in DOMAIN w[n] : w2[n][i] = w[n][j]
    BY <1>2, TellsOfLine DEF SomeWork
  <2> QED BY <1>2, <2>1 DEF Unheard
<1> QED BY <1>1, <1>2 DEF Unheard

\* Nor does the line that is next lose its place.
LEMMA StaysNext ==
    ASSUME NEW w, NEW b, NEW s, NEW y, NEW c \in Counters, NEW l,
           NEW w2, NEW b2, NEW c2 \in Counters, NEW l2,
           NEW n \in Node, NEW x \in Node, NEW e \in [line: Nat, id: Nat],
           SomeWork(w, w2), LessInbox(b, b2), ClocksGoOn(c, l, c2, l2),
           Fits(w, b, s, y, c, l, n, x, e)
    PROVE  Fits(w2, b2, s, y, c2, l2, n, x, e)
<1>1. /\ \A p, z \in Node : Ahead(w2, p, z) \subseteq Ahead(w, p, z)
      /\ Copies(w2, b2, s) \subseteq Copies(w, b, s)
      /\ \A k : Requested(b2, k) => Requested(b, k)
  BY LessCopies
<1>2. l2[n] /\ e.id < c2[n]
  <2>1. l[n] /\ l2[n] /\ e.id < c[n] /\ c[n] <= c2[n]
    BY DEF Fits, ClocksGoOn
  <2>2. e.id \in Nat /\ c[n] \in Nat /\ c2[n] \in Nat
    BY DEF Counters
  <2> QED BY <2>1, <2>2
<1>3. ASSUME NEW p \in Node, NEW i \in DOMAIN w2[p], Asks(w2[p][i])
      PROVE  w2[p][i].msg.line # e.line
  <2>1. \E j \in DOMAIN w[p] : w2[p][i] = w[p][j]
    BY <1>3, TellsOfLine DEF SomeWork
  <2> QED BY <1>3, <2>1 DEF Fits
<1> QED BY <1>1, <1>2, <1>3 DEF Fits

\* The request is taken from the tasks ...
LEMMA RequestSent ==
    ASSUME NEW w, NEW b, NEW s, NEW y, NEW c, NEW l,
           Shape(w, b, s, y), OrderOf(w, b, s, y, c, l),
           NEW n \in Node, w[n] # <<>>, Asks(Head(w[n]))
    PROVE  LET k == Head(w[n]).msg.line
           IN  /\ k \in DOMAIN y /\ y[k].to = Head(w[n]).to
               /\ Unheard([w EXCEPT ![n] = Tail(@)], b, s, k)
<1> DEFINE w2 == [w EXCEPT ![n] = Tail(@)]
           k == Head(w[n]).msg.line
           q == w[n]
<1>1. q \in Seq(Tasks) /\ q # <<>> /\ w2[n] = Tail(q) /\ \A p \in Node : p # n => w2[p] = w[p]
  BY DEF Shape, Works
<1> HIDE DEF w2
<1>2. /\ 1 \in DOMAIN w[n] /\ Head(w[n]) = w[n][1]
      /\ \A i \in DOMAIN w2[n] :
             /\ i \in Int /\ i + 1 \in DOMAIN w[n] /\ i + 1 # 1
             /\ w2[n][i] = w[n][i + 1]
  <2> HIDE DEF q
  <2>2. /\ 1 \in DOMAIN q /\ Head(q) = q[1]
        /\ \A i \in DOMAIN Tail(q) : /\ i \in Int /\ i + 1 \in DOMAIN q /\ i + 1 # 1
                                    /\ Tail(q)[i] = q[i + 1]
    BY <1>1, TailParts
  <2>3. /\ 1 \in DOMAIN q /\ Head(q) = q[1]
        /\ \A i \in DOMAIN w2[n] : /\ i \in Int /\ i + 1 \in DOMAIN q /\ i + 1 # 1
                                  /\ w2[n][i] = q[i + 1]
    BY <1>1, <2>2
  <2> QED BY <2>3 DEF q
<1> HIDE DEF q
<1>3. OneRequest(w, b, s, y)
  BY DEF OrderOf
<1>4. AskedOnce(w, b, s, y, n, 1) /\ k = w[n][1].msg.line
  BY <1>2, <1>3 DEF OneRequest
<1>5. /\ k \in DOMAIN y /\ y[k] = [by |-> n, to |-> Head(w[n]).to]
      /\ ~Requested(b, k) /\ ~Copied(w, b, s, k)
  BY <1>2, <1>4 DEF AskedOnce
<1>6. LessWork(w, w2) /\ LessInbox(b, b)
  BY <1>2, WorkShrinks, InboxShrinks DEF Shape, w2
<1>7. ~Copied(w2, b, s, k)
  <2>1. \A j : Copied(w2, b, s, j) => Copied(w, b, s, j)
    BY <1>6, LessIsSome, LessCopies
  <2> QED BY <1>5, <2>1
<1>8. ASSUME NEW p \in Node, NEW i \in DOMAIN w2[p], Asks(w2[p][i])
      PROVE  w2[p][i].msg.line # k
  <2>1. CASE p = n
    <3>1. w2[p][i] = w[n][i + 1] /\ i + 1 \in DOMAIN w[n] /\ i + 1 # 1
      BY <1>2, <2>1
    <3>2. Asks(w[n][i + 1])
      BY <1>8, <3>1
    <3> QED BY <1>3, <3>1, <3>2 DEF OneRequest, AskedOnce
  <2>2. CASE p # n
    <3>1. w2[p] = w[p]
      BY <1>1, <2>2
    <3>2. AskedOnce(w, b, s, y, p, i)
      BY <1>3, <1>8, <3>1 DEF OneRequest
    <3>3. w[p][i].msg.line = k => [by |-> p, to |-> w[p][i].to].by = n
      BY <1>5, <3>2 DEF AskedOnce
    <3> QED BY <2>2, <3>1, <3>3
  <2> QED BY <2>1, <2>2
<1> QED BY <1>5, <1>7, <1>8 DEF Unheard, k, w2

\* ... and from the inbox.
LEMMA RequestRead ==
    ASSUME NEW w, NEW b, NEW s, NEW y, NEW c, NEW l,
           Shape(w, b, s, y), OrderOf(w, b, s, y, c, l),
           NEW n \in Node, b[n] # <<>>, IsRequest(Head(b[n]).msg)
    PROVE  LET k == Head(b[n]).msg.line
           IN  /\ k \in DOMAIN y /\ y[k].to = n /\ ~Copied(w, b, s, k)
               /\ Unheard(w, [b EXCEPT ![n] = Tail(@)], s, k)
<1> DEFINE b2 == [b EXCEPT ![n] = Tail(@)]
           k == Head(b[n]).msg.line
           q == b[n]
<1>1. q \in Seq(AnyMessage) /\ q # <<>> /\ b2[n] = Tail(q)
      /\ \A p \in Node : p # n => b2[p] = b[p]
  BY DEF Shape, Inboxes
<1> HIDE DEF b2
<1>2. /\ 1 \in DOMAIN b[n] /\ Head(b[n]) = b[n][1]
      /\ \A i \in DOMAIN b2[n] :
             /\ i \in Int /\ i + 1 \in DOMAIN b[n] /\ i + 1 # 1
             /\ b2[n][i] = b[n][i + 1]
  <2> HIDE DEF q
  <2>2. /\ 1 \in DOMAIN q /\ Head(q) = q[1]
        /\ \A i \in DOMAIN Tail(q) : /\ i \in Int /\ i + 1 \in DOMAIN q /\ i + 1 # 1
                                    /\ Tail(q)[i] = q[i + 1]
    BY <1>1, TailParts
  <2>3. /\ 1 \in DOMAIN q /\ Head(q) = q[1]
        /\ \A i \in DOMAIN b2[n] : /\ i \in Int /\ i + 1 \in DOMAIN q /\ i + 1 # 1
                                  /\ b2[n][i] = q[i + 1]
    BY <1>1, <2>2
  <2> QED BY <2>3 DEF q
<1> HIDE DEF q
<1>3. OneRequest(w, b, s, y)
  BY DEF OrderOf
<1>4. RequestedOnce(w, b, s, y, n, 1) /\ k = b[n][1].msg.line
  BY <1>2, <1>3 DEF OneRequest
<1>5. /\ k \in DOMAIN y /\ y[k].to = n /\ ~Copied(w, b, s, k) /\ IsRequest(b[n][1].msg)
      /\ \A j \in DOMAIN b[n] : IsRequest(b[n][j].msg) /\ b[n][j].msg.line = k => 1 = j
  BY <1>2, <1>4 DEF RequestedOnce
<1>6. Copies(w, b2, s) \subseteq Copies(w, b, s)
  <2>1. LessWork(w, w) /\ LessInbox(b, b2)
    BY WorkShrinks, InboxShrinks DEF Shape, b2
  <2> QED BY <2>1, LessIsSome, LessCopies
<1>7. ~Copied(w, b2, s, k)
  BY <1>5, <1>6 DEF Copied
<1>8. ASSUME NEW p \in Node, NEW i \in DOMAIN b2[p], IsRequest(b2[p][i].msg)
      PROVE  b2[p][i].msg.line # k
  <2>1. CASE p = n
    BY <1>2, <1>5, <1>8, <2>1
  <2>2. CASE p # n
    <3>1. b2[p] = b[p]
      BY <1>1, <2>2
    <3>2. RequestedOnce(w, b, s, y, p, i)
      BY <1>3, <1>8, <3>1 DEF OneRequest
    <3> QED BY <1>5, <2>2, <3>1, <3>2 DEF RequestedOnce
  <2> QED BY <2>1, <2>2
<1>9. ~Requested(b2, k)
  BY <1>8 DEF Requested
<1>10. ASSUME NEW p \in Node, NEW i \in DOMAIN w[p], Asks(w[p][i])
       PROVE  w[p][i].msg.line # k
  <2>1. AskedOnce(w, b, s, y, p, i)
    BY <1>10, <1>3 DEF OneRequest
  <2>2. Requested(b, k)
    BY <1>2, <1>4, <1>5 DEF Requested
  <2> QED BY <2>1, <2>2 DEF AskedOnce
<1> QED BY <1>5, <1>7, <1>9, <1>10 DEF Unheard, k, b2

\* Tasks q of n tell line e to everybody at most once, and ask for nothing.
Relays(q, n, e) ==
    \A i \in DOMAIN q :
        /\ ~Asks(q[i])
        /\ \A x \in Node : Tells(n, q[i], x) =>
               /\ Told(q[i]) = e
               /\ q[i].task = "send" => x # n
               /\ \A j \in DOMAIN q : Tells(n, q[j], x) => i = j

\* A leader counts a line that was typed to it, and is to broadcast it.
LEMMA LineCounted ==
    ASSUME NEW w, NEW b, NEW s, NEW y, NEW c \in Counters, NEW l,
           Shape(w, b, s, y), OrderOf(w, b, s, y, c, l),
           NEW n \in Node, l[n], NEW k \in DOMAIN y, y[k].to = n,
           Unheard(w, b, s, k),
           NEW q, Relays(q, n, [line |-> k, id |-> c[n]])
    PROVE  /\ OrderOf([w EXCEPT ![n] = q], b, s, y, [c EXCEPT ![n] = @ + 1], l)
           /\ OneMore(w, b, s, [w EXCEPT ![n] = q], b, s, [line |-> k, id |-> c[n]])
<1> DEFINE w2 == [w EXCEPT ![n] = q]
           c2 == [c EXCEPT ![n] = @ + 1]
           e  == [line |-> k, id |-> c[n]]
<1>1. /\ w2[n] = q /\ \A p \in Node : p # n => w2[p] = w[p]
  BY DEF Shape, Works
<1>2. /\ c[n] \in Nat /\ c2[n] = c[n] + 1 /\ \A p \in Node : p # n => c2[p] = c[p]
  BY DEF Counters
<1>3. e.line = k /\ e.id = c[n]
  OBVIOUS
<1> HIDE DEF w2, c2, e
<1>11. \A i \in DOMAIN q :
          /\ ~Asks(q[i])
          /\ \A x \in Node : Tells(n, q[i], x) =>
                 /\ Told(q[i]) = e
                 /\ q[i].task = "send" => x # n
                 /\ \A j \in DOMAIN q : Tells(n, q[j], x) => i = j
  BY DEF Relays, e
<1>0. /\ FromLeader(w, b, y) /\ Counted(w, b, s, y, c, l)
      /\ Ascending(w, b, s, y) /\ OneRequest(w, b, s, y)
  BY DEF OrderOf
<1>4. ASSUME NEW p \in Node, NEW x \in Node, NEW f \in Ahead(w2, p, x)
      PROVE  f \in Ahead(w, p, x) \/ (p = n /\ f = e)
  <2>1. PICK i \in DOMAIN w2[p] : Tells(p, w2[p][i], x) /\ f = Told(w2[p][i])
    BY <1>4, AheadIs
  <2>2. CASE p = n
    BY <1>1, <1>11, <2>1, <2>2
  <2>3. CASE p # n
    <3>1. w2[p] = w[p]
      BY <1>1, <2>3
    <3> QED BY <2>1, <3>1, AheadIs
  <2> QED BY <2>2, <2>3
<1>5. ASSUME NEW f \in Copies(w2, b, s) PROVE f \in Copies(w, b, s) \/ f = e
  <2>1. \E p \in Node : \/ f \in Seen(s, p)
                       \/ f \in Waiting(b, p)
                       \/ \E r \in Node : f \in Ahead(w2, r, p)
    BY <1>5, CopiesAre
  <2>2. \/ f = e
        \/ \E p \in Node : \/ f \in Seen(s, p)
                          \/ f \in Waiting(b, p)
                          \/ \E r \in Node : f \in Ahead(w, r, p)
    BY <1>4, <2>1
  <2> QED BY <2>2, CopiesAre, Zenon
<1>6. \A f \in Copies(w, b, s) :
          /\ f.line \in DOMAIN y /\ l[y[f.line].to] /\ f.id < c[y[f.line].to]
          /\ f.line # k /\ f.id \in Nat /\ y[f.line].to \in Node
  <2>1. ASSUME NEW f \in Copies(w, b, s)
        PROVE  /\ f.line \in DOMAIN y /\ l[y[f.line].to] /\ f.id < c[y[f.line].to]
               /\ f.line # k /\ f.id \in Nat /\ y[f.line].to \in Node
    <3>1. f.line \in DOMAIN y /\ l[y[f.line].to] /\ f.id < c[y[f.line].to] /\ f.line # k
      BY <1>0 DEF Counted, Unheard, Copied
    <3>2. f \in [line: Nat, id: Nat]
      BY EntryTypes
    <3>3. y[f.line] \in [by: Node, to: Node]
      BY <3>1, InSeq DEF Shape, Histories
    <3> QED BY <3>1, <3>2, <3>3
  <2> QED BY <2>1
<1>7. FromLeader(w2, b, y)
  <2>1. ASSUME NEW p \in Node, NEW x \in Node, NEW i \in DOMAIN w2[p],
               Tells(p, w2[p][i], x)
        PROVE  /\ y[Told(w2[p][i]).line].to = p
               /\ w2[p][i].task = "send" => x # p
               /\ \A j \in DOMAIN w2[p] : Tells(p, w2[p][j], x) => i = j
    <3>1. CASE p = n
      BY <1>1, <1>3, <1>11, <2>1, <3>1
    <3>2. CASE p # n
      <4>1. w2[p] = w[p]
        BY <1>1, <3>2
      <4> QED BY <1>0, <2>1, <4>1 DEF FromLeader
    <3> QED BY <3>1, <3>2
  <2> QED BY <1>0, <2>1 DEF FromLeader
<1>8. Counted(w2, b, s, y, c2, l)
  <2>1. ASSUME NEW f \in Copies(w2, b, s)
        PROVE  f.line \in DOMAIN y /\ l[y[f.line].to] /\ f.id < c2[y[f.line].to]
    <3>1. CASE f = e
      BY <1>2, <1>3, <3>1
    <3>2. CASE f \in Copies(w, b, s)
      <4> DEFINE p == y[f.line].to
      <4>1. f.line \in DOMAIN y /\ l[p] /\ f.id < c[p] /\ f.id \in Nat /\ p \in Node
        BY <1>6, <3>2
      <4> HIDE DEF p
      <4>2. c[p] \in Nat /\ (c2[p] = c[p] \/ c2[p] = c[p] + 1)
        BY <1>2, <4>1 DEF Counters
      <4>3. f.id < c2[p]
        BY <4>1, <4>2
      <4> QED BY <4>1, <4>3 DEF p
    <3> QED BY <1>5, <3>1, <3>2
  <2>2. ASSUME NEW f \in Copies(w2, b, s), NEW g \in Copies(w2, b, s), f.line = g.line
        PROVE  f.id = g.id
    <3>1. (f \in Copies(w, b, s) \/ f = e) /\ (g \in Copies(w, b, s) \/ g = e)
      BY <1>5
    <3> QED BY <1>3, <1>6, <1>0, <2>2, <3>1 DEF Counted
  <2> QED BY <2>1, <2>2 DEF Counted
<1>9. Ascending(w2, b, s, y)
  <2>1. ASSUME NEW x \in Node, NEW p \in Node, NEW g \in Ahead(w2, p, x),
               NEW f \in Seen(s, x) \cup Waiting(b, x), y[f.line].to = p
        PROVE  f.id < g.id
    <3>1. f \in Copies(w, b, s)
      BY InCopies
    <3>2. CASE g \in Ahead(w, p, x)
      BY <1>0, <2>1, <3>2 DEF Ascending
    <3>3. CASE p = n /\ g = e
      BY <1>3, <1>6, <2>1, <3>1, <3>3
    <3> QED BY <1>4, <3>2, <3>3
  <2> QED BY <1>0, <2>1 DEF Ascending
<1>10. OneRequest(w2, b, s, y)
  <2>0. \A j : j # k => (Copied(w2, b, s, j) => Copied(w, b, s, j))
    BY <1>3, <1>5 DEF Copied
  <2>1. ASSUME NEW p \in Node, NEW i \in DOMAIN w2[p], Asks(w2[p][i])
        PROVE  AskedOnce(w2, b, s, y, p, i)
    <3>1. p # n
      BY <1>1, <1>11, <2>1
    <3>2. w2[p] = w[p]
      BY <1>1, <3>1
    <3>3. AskedOnce(w, b, s, y, p, i) /\ w[p][i].msg.line # k
      BY <1>0, <2>1, <3>2 DEF OneRequest, Unheard
    <3> QED BY <2>0, <3>2, <3>3 DEF AskedOnce
  <2>2. ASSUME NEW p \in Node, NEW i \in DOMAIN b[p], IsRequest(b[p][i].msg)
        PROVE  RequestedOnce(w2, b, s, y, p, i)
    <3>1. RequestedOnce(w, b, s, y, p, i) /\ b[p][i].msg.line # k
      BY <1>0, <2>2 DEF OneRequest, Unheard, Requested
    <3> QED BY <2>0, <3>1 DEF RequestedOnce
  <2> QED BY <2>1, <2>2 DEF OneRequest
<1>12. OneMore(w, b, s, w2, b, s, e)
  BY <1>5 DEF OneMore
<1> QED BY <1>7, <1>8, <1>9, <1>10, <1>12 DEF OrderOf, w2, c2, e

-----------------------------------------------------------------------------
(* Steps without a line *)

LEMMA OrderShape ==
    /\ GroupInvariant => Shape(work, inbox, shown, typed) /\ clock_num \in Counters
    /\ GroupInvariant' => /\ Shape(work', inbox', shown', typed')
                          /\ clock_num' \in Counters
<1>1. TypeOK => Shape(work, inbox, shown, typed) /\ clock_num \in Counters
  BY DEF TypeOK, Shape, Works, Inboxes, AnyMessage, Screens, Histories, Counters
<1>2. TypeOK' => Shape(work', inbox', shown', typed') /\ clock_num' \in Counters
  BY DEF TypeOK, Shape, Works, Inboxes, AnyMessage, Screens, Histories, Counters
<1> QED BY <1>1, <1>2 DEF GroupInvariant

\* Lines with numbers are the copies there are; none that is shown is lost.
LEMMA KeepsShown ==
    ASSUME NEW lines, \A e \in Copies(work', inbox', shown') : e \in lines
    PROVE  Promise!Keeping(lines)
<1>1. \A n \in Node : \A i \in DOMAIN shown'[n] :
          shown'[n][i] \in Copies(work', inbox', shown')
  BY PlacesCopied
<1> QED BY <1>1 DEF Promise!Keeping, Promise!OnScreens

\* A step of LineOrder, or none.
LineStep == [Promise!Next]_<<typed, Copies(work, inbox, shown), shown>>

OrderKept == OrderInvariant' /\ LineStep

LEMMA OnlyLoses ==
    ASSUME UNCHANGED <<shown, typed>>,
           \A e \in Copies(work', inbox', shown') : e \in Copies(work, inbox, shown)
    PROVE  LineStep
<1>1. Promise!Keeping(Copies(work, inbox, shown))
  BY KeepsShown
<1> QED BY <1>1 DEF LineStep, Promise!Next, Promise!Lose

LEMMA SameClocks ==
    ASSUME NEW c \in Counters, NEW l
    PROVE  ClocksGoOn(c, l, c, l)
  BY DEF Counters, ClocksGoOn

LEMMA QuietStep ==
    ASSUME GroupInvariant, GroupInvariant', OrderInvariant,
           LessWork(work, work'), LessInbox(inbox, inbox'),
           UNCHANGED <<shown, typed>>,
           ClocksGoOn(clock_num, is_leader, clock_num', is_leader')
    PROVE  OrderKept
<1> DEFINE w2 == work'
           b2 == inbox'
           c2 == clock_num'
           l2 == is_leader'
<1>1. Shape(work, inbox, shown, typed) /\ clock_num \in Counters
  BY OrderShape
<1>2. Shape(w2, b2, shown, typed) /\ c2 \in Counters
  BY OrderShape
<1>3. OrderOf(work, inbox, shown, typed, clock_num, is_leader)
  BY DEF OrderInvariant
<1>4. LessWork(work, w2) /\ LessInbox(inbox, b2)
      /\ ClocksGoOn(clock_num, is_leader, c2, l2)
  OBVIOUS
<1>5. OrderInvariant' <=> OrderOf(w2, b2, shown, typed, c2, l2)
  BY DEF OrderInvariant
<1> HIDE DEF w2, b2, c2, l2
<1>6. OrderOf(w2, b2, shown, typed, c2, l2)
  BY <1>1, <1>2, <1>3, <1>4, LessOrder
<1>7. LineStep
  <2>1. SomeWork(work, w2)
    BY <1>4, LessIsSome
  <2>2. \A e \in Copies(w2, b2, shown) : e \in Copies(work, inbox, shown)
    BY <1>4, <2>1, LessCopies
  <2>3. \A e \in Copies(work', inbox', shown') : e \in Copies(work, inbox, shown)
    BY <2>2 DEF w2, b2
  <2> QED BY <2>3, OnlyLoses
<1> QED BY <1>5, <1>6, <1>7 DEF OrderKept

\* What a step of n may do without a line.
QuietWork(n) ==
    \/ work' = work
    \/ Do(n, <<>>)
    \/ work[n] # <<>> /\ Do(n, Tail(work[n]))
    \/ \E q : /\ QuietTasks(q)
              /\ Do(n, q) \/ (work[n] # <<>> /\ Do(n, q \o Tail(work[n])))

QuietInbox(n) ==
    \/ inbox' = inbox
    \/ inbox' = [inbox EXCEPT ![n] = <<>>]
    \/ inbox[n] # <<>> /\ inbox' = [inbox EXCEPT ![n] = Tail(@)]

LEMMA QuietAction ==
    ASSUME GroupInvariant, GroupInvariant', OrderInvariant, NEW n \in Node,
           QuietWork(n), QuietInbox(n), UNCHANGED <<shown, typed>>,
           ClocksGoOn(clock_num, is_leader, clock_num', is_leader')
    PROVE  OrderKept
<1>1. work \in Works /\ inbox \in Inboxes
  BY OrderShape DEF Shape
<1>2. LessWork(work, work')
  <2>1. CASE work' = work
    BY <1>1, <2>1, WorkShrinks
  <2>2. CASE Do(n, <<>>)
    BY <1>1, <2>2, WorkShrinks DEF Do
  <2>3. CASE work[n] # <<>> /\ Do(n, Tail(work[n]))
    <3>1. work' = [work EXCEPT ![n] = Tail(@)]
      BY <2>3 DEF Do
    <3> QED BY <1>1, <2>3, <3>1, WorkShrinks
  <2>4. ASSUME NEW q, QuietTasks(q), Do(n, q) PROVE LessWork(work, work')
    BY <1>1, <2>4, QuietFollows DEF Do
  <2>5. ASSUME NEW q, QuietTasks(q), work[n] # <<>>, Do(n, q \o Tail(work[n]))
        PROVE  LessWork(work, work')
    BY <1>1, <2>5, QuietFollows DEF Do
  <2> QED BY <2>1, <2>2, <2>3, <2>4, <2>5 DEF QuietWork
<1>3. LessInbox(inbox, inbox')
  BY <1>1, InboxShrinks DEF QuietInbox
<1> QED BY <1>2, <1>3, QuietStep

-----------------------------------------------------------------------------
(* A send *)

\* A message of n gets to where its first task sends it.
LEMMA SendArrives ==
    ASSUME NEW w, NEW b, NEW s, NEW y, NEW c \in Counters, NEW l, NEW n \in Node,
           Shape(w, b, s, y), OrderOf(w, b, s, y, c, l),
           w[n] # <<>>, Head(w[n]).task = "send",
           NEW to \in Node, NEW msg \in Messages,
           Head(w[n]).to = to, Head(w[n]).msg = msg,
           NEW b1 \in Inboxes, LessInbox(b, b1),
           NEW w2 \in Works, LessWork(w, w2), SomeWork([w EXCEPT ![n] = Tail(@)], w2)
    PROVE  OrderOf(w2, [b1 EXCEPT ![to] = Append(@, [from |-> n, msg |-> msg])], s, y, c, l)
<1> DEFINE w1 == [w EXCEPT ![n] = Tail(@)]
           m == [from |-> n, msg |-> msg]
<1>1. w \in Works /\ b \in Inboxes /\ s \in Screens /\ y \in Histories
  BY DEF Shape
<1>2. b1 \in Inboxes /\ LessInbox(b, b1)
  OBVIOUS
<1>3. Shape(w2, b1, s, y) /\ ClocksGoOn(c, l, c, l)
  BY <1>1, <1>2, SameClocks DEF Shape
<1>4. OrderOf(w2, b1, s, y, c, l)
  BY <1>2, <1>3, LessOrder
<1>5. m \in AnyMessage /\ m.from = n /\ m.msg = msg
  BY DEF AnyMessage
<1>6. SomeWork(w1, w2)
  OBVIOUS
<1> HIDE DEF w1, m
<1>7. CASE IsLine(msg)
  <2> DEFINE e == Told(Head(w[n]))
  <2>1. Tells(n, Head(w[n]), to) /\ e = Entry(msg)
    BY <1>7 DEF Tells, Told
  <2>2. /\ Fits(w1, b, s, y, c, l, n, to, e)
        /\ \A f \in Waiting(b, to) : y[f.line].to = n => f.id < e.id
        /\ e \in [line: Nat, id: Nat]
        /\ to # n
    BY <2>1, TaskTaken DEF w1
  <2> HIDE DEF e
  <2>3. Fits(w2, b1, s, y, c, l, n, to, e)
    BY <1>2, <1>3, <1>6, <2>2, StaysNext
  <2>4. \A f \in Waiting(b1, to) : y[f.line].to = n => f.id < e.id
    <3>1. SomeWork(w1, w2)
      BY <1>6
    <3>2. /\ \A x \in Node : Waiting(b1, x) \subseteq Waiting(b, x)
          /\ Copies(w2, b1, s) \subseteq Copies(w1, b, s)
      BY <1>2, <3>1, LessCopies
    <3> QED BY <2>2, <3>2
  <2>5. e = Entry(m.msg) /\ e.id = m.msg.id /\ IsLine(m.msg) /\ m.from # to
    BY <1>5, <1>7, <2>1, <2>2, EntryFields
  <2>6. /\ Fits(w2, b1, s, y, c, l, m.from, to, Entry(m.msg))
        /\ \A f \in Waiting(b1, to) : y[f.line].to = m.from => f.id < m.msg.id
    BY <1>5, <2>3, <2>4, <2>5
  <2>7. OrderOf(w2, [b1 EXCEPT ![to] = Append(@, m)], s, y, c, l)
    BY <1>3, <1>4, <1>5, <2>5, <2>6, LineArrives
  <2> QED BY <2>7 DEF m
<1>8. CASE IsRequest(msg)
  <2> DEFINE k == msg.line
  <2>1. Asks(Head(w[n]))
    BY <1>8 DEF Asks, IsRequest
  <2>2. k \in DOMAIN y /\ y[k].to = to /\ Unheard(w1, b, s, k)
    <3> DEFINE j == Head(w[n]).msg.line
    <3>1. j \in DOMAIN y /\ y[j].to = Head(w[n]).to /\ Unheard(w1, b, s, j)
      BY <2>1, RequestSent DEF w1
    <3>2. j = k
      OBVIOUS
    <3> HIDE DEF j, k
    <3> QED BY <3>1, <3>2
  <2>8. m.msg.line = k /\ IsRequest(m.msg)
    BY <1>5, <1>8
  <2> HIDE DEF k
  <2>3. Unheard(w2, b1, s, k)
    BY <1>2, <1>6, <2>2, StaysUnheard
  <2>4. OrderOf(w2, [b1 EXCEPT ![to] = Append(@, m)], s, y, c, l)
    <3>1. /\ m.msg.line \in DOMAIN y /\ y[m.msg.line].to = to
          /\ Unheard(w2, b1, s, m.msg.line)
      BY <2>2, <2>3, <2>8
    <3> QED BY <1>3, <1>4, <1>5, <2>8, <3>1, RequestArrives
  <2> QED BY <2>4 DEF m
<1>9. CASE ~Brings(msg)
  <2> DEFINE b2 == [b1 EXCEPT ![to] = Append(@, m)]
  <2>0. ~Brings(m.msg)
    BY <1>5, <1>9
  <2>1. LessInbox(b1, b2)
    BY <1>2, <1>5, <2>0, InboxShrinks
  <2>2. b2 \in Inboxes
    <3>1. b1[to] \in Seq(AnyMessage)
      BY <1>2 DEF Inboxes
    <3> DEFINE v == Append(b1[to], m)
    <3>2. v \in Seq(AnyMessage)
      BY <1>5, <3>1, AppendParts
    <3>3. b2 = [b1 EXCEPT ![to] = v]
      OBVIOUS
    <3> HIDE DEF v, b2
    <3> QED BY <1>2, <3>2, <3>3 DEF Inboxes
  <2>3. Shape(w2, b2, s, y)
    BY <1>1, <2>2 DEF Shape
  <2>4. LessWork(w2, w2)
    BY WorkShrinks
  <2> HIDE DEF b2
  <2>5. OrderOf(w2, b2, s, y, c, l)
    BY <1>3, <1>4, <2>1, <2>3, <2>4, LessOrder
  <2> QED BY <2>5 DEF b2, m
<1> QED BY <1>7, <1>8, <1>9 DEF Brings

\* Sending adds no line: one that was to be told waits to be read.
LEMMA SendKeeps ==
    ASSUME NEW w \in Works, NEW b \in Inboxes, NEW s, NEW n \in Node,
           w[n] # <<>>, Head(w[n]).task = "send",
           NEW to \in Node, NEW msg \in Messages,
           Head(w[n]).to = to, Head(w[n]).msg = msg,
           NEW b1 \in Inboxes, LessInbox(b, b1),
           NEW w2, SomeWork(w, w2)
    PROVE  \A e \in Copies(w2, [b1 EXCEPT ![to] = Append(@, [from |-> n, msg |-> msg])], s) :
               e \in Copies(w, b, s)
<1> DEFINE m == [from |-> n, msg |-> msg]
           b2 == [b1 EXCEPT ![to] = Append(@, m)]
<1>1. LessInbox(b, b1) /\ b1 \in Inboxes
  OBVIOUS
<1>2. /\ \A p, x \in Node : Ahead(w2, p, x) \subseteq Ahead(w, p, x)
      /\ \A x \in Node : Waiting(b1, x) \subseteq Waiting(b, x)
  BY <1>1, LessCopies
<1>3. m \in AnyMessage /\ m.msg = msg
  BY DEF AnyMessage
<1> HIDE DEF m
<1>4. b2[to] = Append(b1[to], m) /\ (\A x \in Node : x # to => b2[x] = b1[x])
      /\ b1[to] \in Seq(AnyMessage)
  BY <1>1 DEF Inboxes
<1> HIDE DEF b2
<1>5. IsLine(msg) => Entry(msg) \in Ahead(w, n, to)
  <2>1. Tells(n, Head(w[n]), to) /\ Told(Head(w[n])) = Entry(msg) <=> IsLine(msg)
    BY DEF Tells, Told
  <2>2. w[n] \in Seq(Tasks)
    BY DEF Works
  <2>3. 1 \in DOMAIN w[n] /\ Head(w[n]) = w[n][1]
    BY <2>2, TailParts
  <2> QED BY <2>1, <2>3, AheadIs
<1>6. ASSUME NEW x \in Node, NEW e \in Waiting(b2, x)
      PROVE  e \in Waiting(b, x) \/ e \in Ahead(w, n, to)
  <2>1. PICK i \in DOMAIN b2[x] : IsLine(b2[x][i].msg) /\ e = Entry(b2[x][i].msg)
    BY <1>6, WaitingIs
  <2>2. CASE i \in DOMAIN b1[x] /\ b2[x][i] = b1[x][i]
    <3>1. e \in Waiting(b1, x)
      BY <2>1, <2>2, WaitingIs
    <3> QED BY <1>2, <3>1
  <2>3. CASE x = to /\ b2[x][i] = m
    BY <1>3, <1>5, <2>1, <2>3
  <2>4. (i \in DOMAIN b1[x] /\ b2[x][i] = b1[x][i]) \/ (x = to /\ b2[x][i] = m)
    <3>1. CASE x # to
      BY <1>4, <3>1
    <3>2. CASE x = to
      BY <1>3, <1>4, <3>2, AppendParts
    <3> QED BY <3>1, <3>2
  <2> QED BY <2>2, <2>3, <2>4
<1>7. ASSUME NEW e \in Copies(w2, b2, s) PROVE e \in Copies(w, b, s)
  <2>1. \E x \in Node : \/ e \in Seen(s, x)
                       \/ e \in Waiting(b2, x)
                       \/ \E p \in Node : e \in Ahead(w2, p, x)
    BY <1>7, CopiesAre
  <2>2. \E x \in Node : \/ e \in Seen(s, x)
                       \/ e \in Waiting(b, x)
                       \/ \E p \in Node : e \in Ahead(w, p, x)
    BY <1>2, <1>6, <2>1
  <2> QED BY <2>2, CopiesAre, Zenon
<1> QED BY <1>7 DEF b2, m

\* What is left to do after a send, whether it has come through or not.
SentWork(n) ==
    \/ Do(n, Tail(work[n]))
    \/ Do(n, <<>>)
    \/ \E q : QuietTasks(q) /\ Do(n, q \o Tail(work[n]))

LEMMA SendStep ==
    ASSUME GroupInvariant, GroupInvariant', OrderInvariant, NEW n \in Node,
           Task(n, "send"), SentWork(n),
           \/ inbox' = [inbox EXCEPT ![n] = <<>>]
           \/ Deliver(n, Head(work[n]).to, Head(work[n]).msg),
           UNCHANGED <<shown, typed, clock_num, is_leader>>
    PROVE  OrderKept
<1>1. Shape(work, inbox, shown, typed) /\ clock_num \in Counters
  BY OrderShape
<1>2. work[n] # <<>> /\ Head(work[n]).task = "send"
  BY DEF Task
<1>3. CASE inbox' = [inbox EXCEPT ![n] = <<>>]
  <2>1. QuietWork(n) /\ QuietInbox(n)
    BY <1>2, <1>3 DEF SentWork, QuietWork, QuietInbox
  <2>2. ClocksGoOn(clock_num, is_leader, clock_num', is_leader')
    BY <1>1, SameClocks
  <2> QED BY <2>1, <2>2, QuietAction
<1>4. CASE Deliver(n, Head(work[n]).to, Head(work[n]).msg)
  <2> DEFINE to == Head(work[n]).to
             msg == Head(work[n]).msg
             w2 == work'
             w1 == [work EXCEPT ![n] = Tail(@)]
  <2>0. PICK k \in 0..Len(inbox[n]) :
            inbox' = [[inbox EXCEPT ![n] = SubSeq(@, k + 1, Len(@))]
                              EXCEPT ![to] = Append(@, [from |-> n, msg |-> msg])]
    BY <1>4 DEF Deliver
  <2> DEFINE b1 == [inbox EXCEPT ![n] = SubSeq(@, k + 1, Len(@))]
  <2>1. to \in Node /\ msg \in Messages
    BY SendTask
  <2>2. w2 \in Works
    BY OrderShape DEF Shape
  <2>3. work \in Works /\ inbox \in Inboxes
    BY <1>1 DEF Shape
  <2>4. LessWork(work, w2) /\ SomeWork(w1, w2)
    <3>1. CASE Do(n, Tail(work[n]))
      <4>1. w2 = w1
        BY <3>1 DEF Do
      <4> HIDE DEF w1, w2
      <4>2. LessWork(work, w1) /\ SomeWork(w1, w1)
        BY <1>2, <2>3, WorkShrinks, TakingFirst, QuietOnes DEF w1
      <4> QED BY <4>1, <4>2
    <3>2. CASE Do(n, <<>>)
      <4>1. w2 = [work EXCEPT ![n] = <<>>]
        BY <3>2 DEF Do
      <4> HIDE DEF w2
      <4> QED BY <1>2, <2>3, <4>1, WorkShrinks, TakingFirst, QuietOnes
    <3>3. ASSUME NEW q, QuietTasks(q), Do(n, q \o Tail(work[n]))
          PROVE  LessWork(work, w2) /\ SomeWork(w1, w2)
      <4>1. w2 = [work EXCEPT ![n] = q \o Tail(work[n])]
        BY <3>3 DEF Do
      <4> HIDE DEF w2
      <4> QED BY <1>2, <2>3, <3>3, <4>1, QuietFollows, TakingFirst
    <3> QED BY <3>1, <3>2, <3>3 DEF SentWork
  <2>5. inbox' = [b1 EXCEPT ![to] = Append(@, [from |-> n, msg |-> msg])]
    BY <2>0
  <2>6. OrderOf(work, inbox, shown, typed, clock_num, is_leader)
    BY DEF OrderInvariant
  <2>7. OrderInvariant' <=> OrderOf(w2, inbox', shown, typed, clock_num, is_leader)
    BY DEF OrderInvariant
  <2>8. /\ b1 \in Inboxes /\ LessInbox(inbox, b1)
        /\ Head(work[n]).to = to /\ Head(work[n]).msg = msg
    BY <2>3, DroppedFront
  <2>9. SomeWork([work EXCEPT ![n] = Tail(@)], w2)
    BY <2>4
  <2> HIDE DEF b1, w2, to, msg, w1
  <2>10. OrderOf(w2, [b1 EXCEPT ![to] = Append(@, [from |-> n, msg |-> msg])],
                 shown, typed, clock_num, is_leader)
    BY <1>1, <1>2, <2>1, <2>2, <2>4, <2>6, <2>8, <2>9, SendArrives
  <2>11. SomeWork(work, w2)
    BY <2>4, LessIsSome
  <2>12. \A e \in Copies(w2, [b1 EXCEPT ![to] = Append(@, [from |-> n, msg |-> msg])],
                         shown) : e \in Copies(work, inbox, shown)
    <3>1. work \in Works /\ inbox \in Inboxes
      BY <1>1 DEF Shape
    <3> QED BY <1>2, <2>1, <2>8, <2>11, <3>1, SendKeeps
  <2>13. \A e \in Copies(work', inbox', shown') : e \in Copies(work, inbox, shown)
    BY <2>5, <2>12 DEF w2
  <2>14. LineStep
    BY <2>13, OnlyLoses
  <2> QED BY <2>5, <2>7, <2>10, <2>14 DEF OrderKept
<1> QED BY <1>3, <1>4

LEMMA OrderAcknowledged ==
    ASSUME GroupInvariant, GroupInvariant', OrderInvariant, NEW n \in Node,
           Acknowledged(n)
    PROVE  OrderKept
<1>1. /\ Task(n, "send") /\ Deliver(n, Head(work[n]).to, Head(work[n]).msg)
      /\ SentWork(n) /\ UNCHANGED <<shown, typed, clock_num, is_leader>>
  BY DEF Acknowledged, SentWork, printed
<1> QED BY <1>1, SendStep

LEMMA OrderTimesOut ==
    ASSUME GroupInvariant, GroupInvariant', OrderInvariant, NEW n \in Node, TimesOut(n)
    PROVE  OrderKept
<1>1. /\ Task(n, "send") /\ UNCHANGED <<shown, typed, clock_num, is_leader>>
      /\ \/ inbox' = [inbox EXCEPT ![n] = <<>>]
         \/ Deliver(n, Head(work[n]).to, Head(work[n]).msg)
  BY DEF TimesOut, printed
<1>2. Head(work[n]).else \in {"ignore", "remove", "elect", "exit"}
  BY <1>1, SendTask
<1>3. QuietTasks(start_election(n, group[n]))
  BY OfProcess, QuietElection
<1>4. SentWork(n)
  <2>1. CASE Head(work[n]).else = "ignore"
    BY <2>1 DEF TimesOut, SentWork
  <2>2. CASE Head(work[n]).else = "remove"
    BY <2>2 DEF TimesOut, SentWork
  <2>3. CASE Head(work[n]).else = "elect"
    BY <1>3, <2>3 DEF TimesOut, SentWork
  <2>4. CASE Head(work[n]).else = "exit"
    BY <2>4 DEF TimesOut, SentWork, End, Do
  <2> QED BY <1>2, <2>1, <2>2, <2>3, <2>4
<1> QED BY <1>1, <1>4, SendStep

-----------------------------------------------------------------------------
(* Tasks about no line, timers and joining *)

LEMMA QuietMove ==
    ASSUME GroupInvariant, GroupInvariant', OrderInvariant, NEW n \in Node,
           QuietWork(n), QuietInbox(n),
           UNCHANGED <<shown, typed, clock_num, is_leader>>
    PROVE  OrderKept
<1>1. clock_num \in Counters
  BY OrderShape
<1>2. ClocksGoOn(clock_num, is_leader, clock_num', is_leader')
  BY <1>1, SameClocks
<1> QED BY <1>2, QuietAction

LEMMA OrderTask ==
    ASSUME GroupInvariant, GroupInvariant', OrderInvariant, NEW n \in Node,
           Campaign(n) \/ Settle(n) \/ Announce(n) \/ PrintNotice(n) \/ Crash(n)
    PROVE  OrderKept
<1>0. group[n] \in Group
  BY OfProcess
<1>1. CASE Campaign(n) \/ PrintNotice(n)
  <2>1. /\ work[n] # <<>> /\ Do(n, Tail(work[n])) /\ inbox' = inbox
        /\ UNCHANGED <<shown, typed, clock_num, is_leader>>
    BY <1>1 DEF Campaign, PrintNotice, Task, Tell, printed
  <2> QED BY <2>1, QuietMove DEF QuietWork, QuietInbox
<1>2. CASE Settle(n)
  <2> DEFINE told == IF lost[n] # <<>>
                     THEN BroadcastUpdate(n, group[n], Notice("left", lost[n]))
                     ELSE <<>>
  <2>1. /\ work[n] # <<>> /\ Do(n, told \o Tail(work[n])) /\ inbox' = inbox
        /\ UNCHANGED <<shown, typed, clock_num, is_leader>>
    BY <1>2 DEF Settle, Task, printed
  <2>2. QuietTasks(told)
    BY <1>0, QuietOnes, QuietUpdate
  <2> HIDE DEF told
  <2> QED BY <2>1, <2>2, QuietMove DEF QuietWork, QuietInbox
<1>3. CASE Announce(n)
  <2> DEFINE told == BroadcastUpdate(n, group[n], Notice("leads", <<n>>))
  <2>1. /\ work[n] # <<>> /\ Do(n, told \o Tail(work[n])) /\ inbox' = inbox
        /\ UNCHANGED <<shown, typed, clock_num, is_leader>>
    BY <1>3 DEF Announce, Task, printed
  <2>2. QuietTasks(told)
    BY <1>0, QuietUpdate
  <2> HIDE DEF told
  <2> QED BY <2>1, <2>2, QuietMove DEF QuietWork, QuietInbox
<1>4. CASE Crash(n)
  <2>1. /\ Do(n, <<>>) /\ inbox' = [inbox EXCEPT ![n] = <<>>]
        /\ UNCHANGED <<shown, typed, clock_num, is_leader>>
    BY <1>4 DEF Crash, End, Do, printed
  <2> QED BY <2>1, QuietMove DEF QuietWork, QuietInbox
<1> QED BY <1>1, <1>2, <1>3, <1>4

LEMMA OrderTimers ==
    ASSUME GroupInvariant, GroupInvariant', OrderInvariant, NEW n \in Node,
           Heartbeat(n) \/ RestartElection(n)
    PROVE  OrderKept
<1>0. group[n] \in Group
  BY OfProcess
<1>1. CASE Heartbeat(n)
  <2> DEFINE msg == Plain("HEARTBEAT")
             all == leader_broadcast_message(group[n], msg)
             one == <<Send(group[n].leader, msg, "elect")>>
  <2>1. /\ Do(n, IF is_leader[n] THEN all ELSE one) /\ inbox' = inbox
        /\ UNCHANGED <<shown, typed, clock_num, is_leader>>
    BY <1>1 DEF Heartbeat, printed
  <2>2. ~Brings(msg)
    BY QuietMessages
  <2> HIDE DEF msg
  <2>3. QuietTasks(all) /\ QuietTasks(one)
    BY <1>0, <2>2, QuietBroadcast, QuietSends, QuietOnes
  <2> HIDE DEF all, one
  <2>4. QuietTasks(IF is_leader[n] THEN all ELSE one)
    BY <2>3
  <2> QED BY <2>1, <2>4, QuietMove DEF QuietWork, QuietInbox
<1>2. CASE RestartElection(n)
  <2>1. /\ Do(n, start_election(n, group[n])) /\ inbox' = inbox
        /\ UNCHANGED <<shown, typed, clock_num, is_leader>>
    BY <1>2 DEF RestartElection, printed
  <2>2. QuietTasks(start_election(n, group[n]))
    BY <1>0, QuietElection
  <2> QED BY <2>1, <2>2, QuietMove DEF QuietWork, QuietInbox
<1> QED BY <1>1, <1>2

LEMMA OrderVictory ==
    ASSUME GroupInvariant, GroupInvariant', OrderInvariant, NEW n \in Node,
           DeclareVictory(n)
    PROVE  OrderKept
<1> DEFINE leading == set_leader_by_nickname(group[n], Nick[n])
           first == leader_broadcast_message(leading, Plain("ELECTION_VICTORY"))
           last == <<Then("announce")>>
<1>1. /\ status[n] = "chatting" /\ group' = [group EXCEPT ![n] = leading]
      /\ is_leader' = [is_leader EXCEPT ![n] = TRUE]
      /\ Do(n, first \o last) /\ inbox' = inbox
      /\ UNCHANGED <<shown, typed, clock_num>>
  BY DEF DeclareVictory, Wins, printed
<1>2. leading \in Group
  <2>1. group' \in [Node -> Group] /\ group \in [Node -> Group]
    BY DEF GroupInvariant, TypeOK
  <2> HIDE DEF leading
  <2>2. group'[n] = leading
    BY <1>1, <2>1
  <2> QED BY <2>1, <2>2
<1> HIDE DEF leading
<1>3. QuietTasks(first) /\ QuietTasks(last)
  BY <1>2, QuietMessages, QuietBroadcast, QuietSends, QuietOnes
<1> HIDE DEF first, last
<1>4. QuietTasks(first \o last)
  BY <1>3, QuietJoined
<1>5. ClocksGoOn(clock_num, is_leader, clock_num', is_leader')
  <2>1. clock_num \in Counters /\ is_leader \in [Node -> BOOLEAN]
    BY OrderShape DEF GroupInvariant, TypeOK
  <2>2. \A p \in Node : is_leader[p] => is_leader'[p]
    BY <1>1, <2>1
  <2>3. \A p \in Node : clock_num[p] \in Nat
    BY <2>1 DEF Counters
  <2>4. \A p \in Node : clock_num[p] <= clock_num[p]
    BY <2>3
  <2> QED BY <1>1, <2>2, <2>4 DEF ClocksGoOn
<1> QED BY <1>1, <1>4, <1>5, QuietAction DEF QuietWork, QuietInbox

LEMMA QuietAddMe ==
    ASSUME NEW to
    PROVE  QuietTasks(AddMe(to))
  BY QuietMessages, QuietSends, QuietOnes DEF AddMe

LEMMA OrderTries ==
    ASSUME NEW n, NEW hint, TryAgain(n, hint)
    PROVE  QuietWork(n)
<1>1. Do(n, AddMe(hint)) \/ Do(n, <<>>)
  BY DEF TryAgain, End, Do
<1> QED BY <1>1, QuietAddMe DEF QuietWork

LEMMA OrderJoins ==
    ASSUME GroupInvariant, GroupInvariant', OrderInvariant, NEW n \in Node,
           (\E hint \in Node : Join(n, hint)) \/ Wake(n) \/ Reply(n)
    PROVE  OrderKept
<1>1. ASSUME NEW hint \in Node, Join(n, hint) PROVE OrderKept
  <2>1. /\ Do(n, AddMe(hint)) /\ inbox' = inbox
        /\ UNCHANGED <<shown, typed, clock_num, is_leader>>
    BY <1>1 DEF Join, printed
  <2> QED BY <2>1, QuietAddMe, QuietMove DEF QuietWork, QuietInbox
<1>2. CASE Wake(n)
  <2>1. /\ TryAgain(n, joining[n].hint) /\ inbox' = inbox
        /\ UNCHANGED <<shown, typed, clock_num, is_leader>>
    BY <1>2 DEF Wake, printed
  <2> QED BY <2>1, OrderTries, QuietMove DEF QuietInbox
<1>3. CASE Reply(n)
  <2> DEFINE msg == Head(inbox[n]).msg
  <2>1. inbox[n] # <<>> /\ UNCHANGED <<is_leader, clock_num, typed>>
    BY <1>3 DEF Reply
  <2>2. QuietInbox(n)
    BY <1>3 DEF Reply, QuietInbox
  <2>3. shown' = shown
    BY <1>3 DEF Reply, Tell, printed
  <2>4. QuietWork(n)
    <3>1. CASE msg.type \in {"PARTICIPANT_UPDATE", "JOIN_FAILURE"}
      BY <1>3, <3>1 DEF Reply, QuietWork
    <3>2. CASE msg.type = "LEADER_ID"
      <4>1. TryAgain(n, msg.leader)
        BY <1>3, <3>2 DEF Reply
      <4> QED BY <4>1, OrderTries
    <3>3. CASE msg.type \notin {"PARTICIPANT_UPDATE", "JOIN_FAILURE", "LEADER_ID"}
      BY <1>3, <3>3 DEF Reply, QuietWork, End, Do
    <3> QED BY <3>1, <3>2, <3>3
  <2> QED BY <2>1, <2>2, <2>3, <2>4, QuietMove
<1> QED BY <1>1, <1>2, <1>3

LEMMA OrderStays ==
    ASSUME GroupInvariant, GroupInvariant', OrderInvariant,
           Tick \/ UNCHANGED vars
    PROVE  OrderKept
<1>1. UNCHANGED <<work, inbox, shown, typed, clock_num, is_leader>>
  BY DEF Tick, vars, printed
<1>2. Copies(work', inbox', shown') = Copies(work, inbox, shown)
  BY <1>1
<1>3. LineStep
  BY <1>1, <1>2, OnlyLoses
<1> QED BY <1>1, <1>3 DEF OrderKept, OrderInvariant

-----------------------------------------------------------------------------
(* A leader counts a line *)

LEMMA OthersOnce ==
    ASSUME NEW g \in Group, Distinct(g), g.leader \in Node, Flagged(g) = {g.leader}
    PROVE  /\ Others(g) \in Seq(Node)
           /\ \A i, j \in DOMAIN Others(g) : Others(g)[i] = Others(g)[j] => i = j
           /\ \A i \in DOMAIN Others(g) : Others(g)[i] # g.leader
<1> DEFINE rest == Others(g)
           nodes == <<g.leader>> \o rest
<1>1. rest \in Seq(Node)
  BY OthersProperties
<1>2. NamesDiffer(nodes)
  BY GenerateProperties DEF generate_participant_update
<1> HIDE DEF rest
<1>3. Len(rest) \in Nat /\ DOMAIN rest = 1..Len(rest)
  BY <1>1
<1>4. /\ DOMAIN nodes = 1..Len(rest) + 1 /\ nodes[1] = g.leader
      /\ \A i \in 1..Len(rest) : nodes[i + 1] = rest[i]
  BY <1>1, <1>3
<1> HIDE DEF nodes
<1>5. \A i, j \in DOMAIN nodes : nodes[i] = nodes[j] => i = j
  BY <1>2 DEF NamesDiffer
<1>6. \A i \in DOMAIN rest : i + 1 \in DOMAIN nodes /\ 1 \in DOMAIN nodes /\ i + 1 # 1
  BY <1>3, <1>4
<1>7. \A i, j \in DOMAIN rest : i + 1 = j + 1 => i = j
  BY <1>3
<1>8. \A i, j \in DOMAIN rest : rest[i] = rest[j] => i = j
  BY <1>3, <1>4, <1>5, <1>6, <1>7
<1>9. \A i \in DOMAIN rest : rest[i] # g.leader
  BY <1>3, <1>4, <1>5, <1>6
<1> QED BY <1>1, <1>8, <1>9 DEF rest

LEMMA BroadcastRelays ==
    ASSUME GroupInvariant, NEW n \in Node, Leading(n), NEW k \in Nat
    PROVE  Relays(Broadcast(n, k), n, [line |-> k, id |-> clock_num[n]])
<1> DEFINE id == clock_num[n]
           msg == Line(k, id)
           to == Others(group[n])
           q == Broadcast(n, k)
           e == [line |-> k, id |-> id]
<1>1. group[n] \in Group /\ group[n].leader = n /\ Distinct(group[n])
      /\ Flagged(group[n]) = {n}
  BY OfProcess, LeaderProperties
<1>2. /\ to \in Seq(Node)
      /\ \A i, j \in DOMAIN to : to[i] = to[j] => i = j
      /\ \A i \in DOMAIN to : to[i] # n
  BY <1>1, OthersOnce
<1>3. IsLine(msg) /\ ~IsRequest(msg) /\ Entry(msg) = e
  BY DEF Line, IsLine, IsRequest, Entry
<1>4. q = (SendAll(to, msg, "remove") \o <<Then("settle")>>) \o <<Printing(k, id)>>
  BY DEF Broadcast, leader_broadcast_message
<1> HIDE DEF to
<1>5. Len(to) \in Nat /\ DOMAIN to = 1..Len(to)
  BY <1>2
<1> DEFINE sends == SendAll(to, msg, "remove")
           S == {Send(to[i], msg, "remove") : i \in DOMAIN to}
                   \cup {Then("settle"), Printing(k, id)}
           settle == Then("settle")
           print == Printing(k, id)
<1>6. Len(sends) = Len(to) /\ DOMAIN sends = DOMAIN to
      /\ \A i \in DOMAIN to : sends[i] = Send(to[i], msg, "remove")
  BY <1>5 DEF SendAll
<1>7. settle \in S /\ print \in S /\ sends \in Seq(S)
  BY <1>5 DEF SendAll
<1>8. ~Asks(settle) /\ ~Asks(print)
      /\ (\A x : ~Tells(n, settle, x)) /\ (\A x : Tells(n, print, x) => x = n)
      /\ Told(print) = e /\ print.task = "print"
  BY DEF Asks, Tells, Told, Entry, Then, Printing
<1>9. ASSUME NEW i \in DOMAIN to, NEW t, t = Send(to[i], msg, "remove")
      PROVE  /\ ~Asks(t) /\ Told(t) = e
             /\ \A x : Tells(n, t, x) => x = to[i]
  BY <1>3, <1>9 DEF Asks, IsRequest, Tells, Told, Send
<1> HIDE DEF sends, S, settle, print, msg, e, id
<1>10. /\ DOMAIN q = 1..(Len(to) + 2)
       /\ \A i \in 1..Len(to) : q[i] = sends[i]
       /\ q[Len(to) + 1] = settle /\ q[Len(to) + 2] = print
  <2> DEFINE p == sends \o <<settle>>
  <2>1. q = p \o <<print>>
    BY <1>4 DEF p, sends, settle, print
  <2>2. /\ p \in Seq(S) /\ Len(p) = Len(to) + 1 /\ p[Len(to) + 1] = settle
        /\ \A i \in 1..Len(to) : p[i] = sends[i]
    BY <1>5, <1>6, <1>7
  <2> HIDE DEF p
  <2>3. /\ DOMAIN q = 1..(Len(to) + 2) /\ q[Len(to) + 2] = print
        /\ \A i \in 1..Len(to) + 1 : q[i] = p[i]
    BY <1>5, <1>7, <2>1, <2>2
  <2> QED BY <1>5, <2>2, <2>3
<1> HIDE DEF q
<1>11. \A i \in DOMAIN q : i \in DOMAIN to \/ i = Len(to) + 1 \/ i = Len(to) + 2
  BY <1>5, <1>10
<1>12. ASSUME NEW i \in DOMAIN q
       PROVE  /\ ~Asks(q[i])
              /\ \A x \in Node : Tells(n, q[i], x) =>
                    /\ Told(q[i]) = e
                    /\ q[i].task = "send" => x # n
                    /\ \/ i \in DOMAIN to /\ x = to[i]
                       \/ i = Len(to) + 2 /\ x = n
  <2>1. CASE i \in DOMAIN to
    <3>1. q[i] = Send(to[i], msg, "remove")
      BY <1>5, <1>6, <1>10, <2>1
    <3> QED BY <1>2, <1>9, <2>1, <3>1
  <2>2. CASE i = Len(to) + 1
    BY <1>8, <1>10, <2>2
  <2>3. CASE i = Len(to) + 2
    BY <1>8, <1>10, <2>3
  <2> QED BY <1>11, <2>1, <2>2, <2>3
<1>13. ASSUME NEW i \in DOMAIN q, NEW j \in DOMAIN q, NEW x \in Node,
              Tells(n, q[i], x), Tells(n, q[j], x)
       PROVE  i = j
  <2>1. (i \in DOMAIN to /\ x = to[i]) \/ (i = Len(to) + 2 /\ x = n)
    BY <1>12, <1>13
  <2>2. (j \in DOMAIN to /\ x = to[j]) \/ (j = Len(to) + 2 /\ x = n)
    BY <1>12, <1>13
  <2> QED BY <1>2, <2>1, <2>2
<1>14. Relays(q, n, e)
  BY <1>12, <1>13 DEF Relays
<1> QED BY <1>14 DEF q, e, id

-----------------------------------------------------------------------------
(* Steps with a line *)

\* Line e, which was typed to that leader, is the next that n shows.
LEMMA ShowsStep ==
    ASSUME NEW n \in Node, NEW e \in Copies(work, inbox, shown),
           NEW leader, typed[e.line].to = leader,
           \A f \in Seen(shown, n) : typed[f.line].to = leader => f.id < e.id,
           shown' = [shown EXCEPT ![n] = Append(@, e)], typed' = typed,
           \A f \in Copies(work', inbox', shown') : f \in Copies(work, inbox, shown)
    PROVE  LineStep
<1>1. Promise!Keeping(Copies(work, inbox, shown))
  BY KeepsShown
<1>2. \A i \in DOMAIN shown[n] : shown[n][i] \in Seen(shown, n)
  BY PlacesCopied
<1>3. Promise!Show(n, e)
  BY <1>1, <1>2 DEF Promise!Show
<1> QED BY <1>3 DEF LineStep, Promise!Next

LEMMA OrderPrints ==
    ASSUME GroupInvariant, GroupInvariant', OrderInvariant, NEW n \in Node, PrintLine(n)
    PROVE  OrderKept
<1> DEFINE w2 == [work EXCEPT ![n] = Tail(@)]
           e == Told(Head(work[n]))
           s2 == [shown EXCEPT ![n] = Append(@, e)]
<1>1. /\ work[n] # <<>> /\ Head(work[n]).task = "print"
      /\ work' = w2 /\ inbox' = inbox /\ UNCHANGED <<typed, clock_num, is_leader>>
  BY DEF PrintLine, Task, Do
<1>2. shown' = s2
  BY <1>1 DEF PrintLine, Show, Told, Entry
<1>3. Shape(work, inbox, shown, typed) /\ clock_num \in Counters
  BY OrderShape
<1>4. Tells(n, Head(work[n]), n)
  BY <1>1 DEF Tells
<1>5. OrderOf(work, inbox, shown, typed, clock_num, is_leader)
  BY DEF OrderInvariant
<1>6. /\ Fits(w2, inbox, shown, typed, clock_num, is_leader, n, n, e)
      /\ e \in [line: Nat, id: Nat] /\ e \in Copies(work, inbox, shown)
  BY <1>1, <1>3, <1>4, <1>5, TaskTaken
<1>7. work \in Works /\ inbox \in Inboxes
  BY <1>3 DEF Shape
<1>8. LessWork(work, w2) /\ LessInbox(inbox, inbox)
      /\ ClocksGoOn(clock_num, is_leader, clock_num, is_leader)
  BY <1>1, <1>3, <1>7, WorkShrinks, InboxShrinks, SameClocks
<1>9. OrderInvariant' <=> OrderOf(w2, inbox, s2, typed, clock_num, is_leader)
  BY <1>1, <1>2 DEF OrderInvariant
<1>10. w2 \in Works
  BY <1>1, OrderShape DEF Shape
<1> HIDE DEF w2, e
<1>11. Shape(w2, inbox, shown, typed)
  BY <1>3, <1>10 DEF Shape
<1>12. OrderOf(w2, inbox, shown, typed, clock_num, is_leader)
  BY <1>3, <1>5, <1>8, <1>11, LessOrder
<1>13. \A f \in Waiting(inbox, n) : typed[f.line].to # n
  <2>1. ASSUME NEW f \in Waiting(inbox, n) PROVE typed[f.line].to # n
    <3>1. PICK i \in DOMAIN inbox[n] : IsLine(inbox[n][i].msg) /\ f = Entry(inbox[n][i].msg)
      BY WaitingIs
    <3>2. /\ typed[inbox[n][i].msg.line].to = inbox[n][i].from
          /\ inbox[n][i].from # n
      BY <1>5, <3>1 DEF OrderOf, FromLeader
    <3> QED BY <3>1, <3>2, EntryFields
  <2> QED BY <2>1
<1>14. /\ OrderOf(w2, inbox, s2, typed, clock_num, is_leader)
       /\ OneMore(w2, inbox, shown, w2, inbox, s2, e)
  BY <1>6, <1>11, <1>12, <1>13, LineShown
<1>15. LineStep
  <2>1. SomeWork(work, w2)
    BY <1>8, LessIsSome
  <2>2. \A f \in Copies(w2, inbox, shown) : f \in Copies(work, inbox, shown)
    BY <1>8, <2>1, LessCopies
  <2>3. \A f \in Copies(work', inbox', shown') : f \in Copies(work, inbox, shown)
    BY <1>1, <1>2, <1>6, <1>14, <2>2 DEF OneMore
  <2>4. /\ typed[e.line].to = n
        /\ \A f \in Seen(shown, n) : typed[f.line].to = n => f.id < e.id
    BY <1>6 DEF Fits
  <2>5. shown' = [shown EXCEPT ![n] = Append(@, e)] /\ e \in Copies(work, inbox, shown)
    BY <1>2, <1>6
  <2> QED BY <1>1, <2>3, <2>4, <2>5, ShowsStep
<1> QED BY <1>9, <1>14, <1>15 DEF OrderKept

\* What a handler does with a message about no line.
LEMMA QuietResponds ==
    ASSUME GroupInvariant, NEW n \in Node, inbox[n] # <<>>, NEW from,
           RespondToElection(n, from)
    PROVE  QuietWork(n) /\ QuietInbox(n)
<1>1. CASE from \notin Addresses(group[n])
  BY <1>1 DEF RespondToElection, End, Do, QuietWork, QuietInbox
<1>2. CASE from \in Addresses(group[n]) /\ Nick[n] > Nick[from]
  <2> DEFINE stop == <<Send(from, Plain("STOP_ELECTION"), "ignore")>>
             campaign == start_election(n, group[n])
  <2>1. Handles(n, stop \o campaign)
    BY <1>2 DEF RespondToElection
  <2>2. QuietTasks(stop) /\ QuietTasks(campaign)
    BY OfProcess, QuietMessages, QuietSends, QuietOnes, QuietElection
  <2> HIDE DEF stop, campaign
  <2>3. QuietTasks(stop \o campaign)
    BY <2>2, QuietJoined
  <2> QED BY <2>1, <2>3 DEF Handles, QuietWork, QuietInbox
<1>3. CASE from \in Addresses(group[n]) /\ ~(Nick[n] > Nick[from])
  BY <1>3 DEF RespondToElection, Handles, QuietWork, QuietInbox
<1> QED BY <1>1, <1>2, <1>3

\* A leader counts line k, of which nothing is to be seen, and broadcasts it.
LEMMA LineBegins ==
    ASSUME GroupInvariant, NEW n \in Node, Leading(n),
           NEW b, NEW y, NEW k \in DOMAIN y, y[k].to = n,
           Shape(work, b, shown, y),
           OrderOf(work, b, shown, y, clock_num, is_leader),
           Unheard(work, b, shown, k)
    PROVE  /\ OrderOf([work EXCEPT ![n] = Broadcast(n, k)], b, shown, y,
                      [clock_num EXCEPT ![n] = @ + 1], is_leader)
           /\ OneMore(work, b, shown, [work EXCEPT ![n] = Broadcast(n, k)], b, shown,
                      [line |-> k, id |-> clock_num[n]])
<1>1. k \in Nat
  BY DEF Shape, Histories
<1>2. Relays(Broadcast(n, k), n, [line |-> k, id |-> clock_num[n]])
  BY <1>1, BroadcastRelays
<1>3. clock_num \in Counters /\ is_leader[n]
  BY OrderShape DEF Leading
<1> QED BY <1>2, <1>3, LineCounted

LEMMA OrderCounts ==
    ASSUME GroupInvariant, GroupInvariant', OrderInvariant, NEW n \in Node,
           Leading(n), inbox[n] # <<>>, IsRequest(Head(inbox[n]).msg),
           clock_num' = [clock_num EXCEPT ![n] = @ + 1],
           Handles(n, Broadcast(n, Head(inbox[n]).msg.line)),
           UNCHANGED <<shown, typed, is_leader>>
    PROVE  OrderKept
<1> DEFINE b2 == [inbox EXCEPT ![n] = Tail(@)]
           k == Head(inbox[n]).msg.line
           w2 == [work EXCEPT ![n] = Broadcast(n, k)]
           c2 == [clock_num EXCEPT ![n] = @ + 1]
<1>1. Shape(work, inbox, shown, typed) /\ clock_num \in Counters
  BY OrderShape
<1>2. OrderOf(work, inbox, shown, typed, clock_num, is_leader)
  BY DEF OrderInvariant
<1>3. work' = w2 /\ inbox' = b2 /\ clock_num' = c2
  BY DEF Handles, Do
<1>4. b2 \in Inboxes
  BY <1>3, OrderShape DEF Shape
<1>5. work \in Works /\ inbox \in Inboxes
  BY <1>1 DEF Shape
<1>6. LessWork(work, work) /\ LessInbox(inbox, b2)
      /\ ClocksGoOn(clock_num, is_leader, clock_num, is_leader)
  BY <1>1, <1>5, WorkShrinks, InboxShrinks, SameClocks
<1>7. /\ k \in DOMAIN typed /\ typed[k].to = n
      /\ ~Copied(work, inbox, shown, k) /\ Unheard(work, b2, shown, k)
  <2> DEFINE k2 == Head(inbox[n]).msg.line
  <2>1. /\ k2 \in DOMAIN typed /\ typed[k2].to = n /\ ~Copied(work, inbox, shown, k2)
        /\ Unheard(work, [inbox EXCEPT ![n] = Tail(@)], shown, k2)
    BY <1>1, <1>2, RequestRead
  <2> QED BY <2>1
<1>8. OrderInvariant' <=> OrderOf(w2, b2, shown, typed, c2, is_leader)
  BY <1>3 DEF OrderInvariant
<1> HIDE DEF b2, k
<1>9. Shape(work, b2, shown, typed)
  BY <1>1, <1>4 DEF Shape
<1>10. OrderOf(work, b2, shown, typed, clock_num, is_leader)
  BY <1>1, <1>2, <1>6, <1>9, LessOrder
<1> DEFINE e == [line |-> k, id |-> clock_num[n]]
<1>11. /\ OrderOf(w2, b2, shown, typed, c2, is_leader)
       /\ OneMore(work, b2, shown, w2, b2, shown, e)
  BY <1>7, <1>9, <1>10, LineBegins
<1>12. e.line = k /\ e.id = clock_num[n]
  OBVIOUS
<1>13. LineStep
  <2> DEFINE C == Copies(work, inbox, shown)
  <2> HIDE DEF w2, e
  <2>1. \A f \in C : f.line # k
    BY <1>7 DEF Copied
  <2>2. \A f \in C : typed[f.line].to = n => f.id < e.id
    BY <1>2, <1>12 DEF OrderOf, Counted
  <2>3. \A f \in Copies(work, b2, shown) : f \in C
    BY <1>6, LessIsSome, LessCopies
  <2>4. \A f \in Copies(work', inbox', shown') : f \in C \cup {e}
    BY <1>3, <1>11, <2>3 DEF OneMore
  <2>5. CASE e \in Copies(work', inbox', shown')
    <3>1. Promise!Keeping(C \cup {e})
      BY <2>4, KeepsShown
    <3>2. Promise!Number(e)
      BY <1>7, <1>12, <2>1, <2>2, <3>1 DEF Promise!Number, Promise!Above
    <3> QED BY <2>5, <3>2 DEF LineStep, Promise!Next
  <2>6. CASE e \notin Copies(work', inbox', shown')
    BY <2>4, <2>6, OnlyLoses
  <2> QED BY <2>5, <2>6
<1> QED BY <1>8, <1>11, <1>13 DEF OrderKept

LEMMA OrderLeaderReceives ==
    ASSUME GroupInvariant, GroupInvariant', OrderInvariant, NEW n \in Node,
           LeaderReceives(n)
    PROVE  OrderKept
<1> DEFINE from == Head(inbox[n]).from
           msg == Head(inbox[n]).msg
           added == insert_participant(group[n], from, FALSE)
<1>1. /\ Leading(n) /\ inbox[n] # <<>>
      /\ UNCHANGED <<is_leader, typed, shown>>
  BY DEF LeaderReceives, Leading, printed
<1>2. CASE msg.type = "MESSAGE_REQUEST"
  <2>1. /\ clock_num' = [clock_num EXCEPT ![n] = @ + 1]
        /\ Handles(n, Broadcast(n, msg.line))
    BY <1>2 DEF LeaderReceives
  <2>2. IsRequest(msg)
    BY <1>2 DEF IsRequest
  <2> QED BY <1>1, <2>1, <2>2, OrderCounts
<1>3. CASE msg.type # "MESSAGE_REQUEST"
  <2>1. clock_num' = clock_num
    BY <1>3 DEF LeaderReceives
  <2>2. QuietWork(n) /\ QuietInbox(n)
    <3>1. CASE msg.type = "ADD_ME" /\ contains_participant(group[n], Nick[from])
      <4> DEFINE q == <<Send(from, Plain("JOIN_NICKNAME_FAILURE"), "exit")>>
      <4>1. Handles(n, q)
        BY <3>1 DEF LeaderReceives
      <4>2. QuietTasks(q)
        BY QuietMessages, QuietSends, QuietOnes
      <4> QED BY <1>1, <4>1, <4>2 DEF Handles, QuietWork, QuietInbox
    <3>2. CASE msg.type = "ADD_ME" /\ ~contains_participant(group[n], Nick[from])
      <4> DEFINE q == BroadcastUpdate(n, added, Notice("joined", <<from>>))
      <4>1. Handles(n, q) /\ group' = [group EXCEPT ![n] = added]
        BY <3>2 DEF LeaderReceives
      <4>2. added \in Group
        <5>1. group' \in [Node -> Group] /\ group \in [Node -> Group]
          BY DEF GroupInvariant, TypeOK
        <5> HIDE DEF added
        <5>2. group'[n] = added
          BY <4>1, <5>1
        <5> QED BY <5>1, <5>2
      <4>3. QuietTasks(q)
        BY <4>2, QuietUpdate
      <4> QED BY <1>1, <4>1, <4>3 DEF Handles, QuietWork, QuietInbox
    <3>3. CASE msg.type = "START_ELECTION"
      <4>1. RespondToElection(n, from)
        BY <3>3 DEF LeaderReceives
      <4> QED BY <1>1, <4>1, QuietResponds
    <3>4. CASE msg.type \notin {"ADD_ME", "MESSAGE_REQUEST", "START_ELECTION"}
      <4>1. Handles(n, <<>>)
        BY <3>4 DEF LeaderReceives
      <4> QED BY <1>1, <4>1 DEF Handles, QuietWork, QuietInbox
    <3> QED BY <1>3, <3>1, <3>2, <3>3, <3>4
  <2> QED BY <1>1, <2>1, <2>2, QuietMove
<1> QED BY <1>2, <1>3

\* The clock of a member moves; it counts no lines.
LEMMA MembersClock ==
    ASSUME GroupInvariant, GroupInvariant', NEW n \in Node, ~is_leader[n], NEW id,
           clock_num' = [clock_num EXCEPT ![n] = id] \/ clock_num' = clock_num
    PROVE  ClocksGoOn(clock_num, is_leader, clock_num', is_leader)
<1>1. clock_num \in [Node -> Nat]
  BY OrderShape DEF Counters
<1>2. ASSUME NEW p \in Node, is_leader[p] PROVE clock_num[p] <= clock_num'[p]
  <2>1. p # n
    BY <1>2
  <2>2. clock_num'[p] = clock_num[p] /\ clock_num[p] \in Nat
    BY <1>1, <2>1
  <2> QED BY <2>2
<1> QED BY <1>2 DEF ClocksGoOn

LEMMA OrderReads ==
    ASSUME GroupInvariant, GroupInvariant', OrderInvariant, NEW n \in Node,
           ~is_leader[n], inbox[n] # <<>>, IsLine(Head(inbox[n]).msg),
           clock_num' = [clock_num EXCEPT ![n] = Head(inbox[n]).msg.id],
           Show(n, Head(inbox[n]).msg.line, Head(inbox[n]).msg.id),
           Handles(n, <<>>), UNCHANGED <<typed, is_leader>>
    PROVE  OrderKept
<1> DEFINE b2 == [inbox EXCEPT ![n] = Tail(@)]
           from == Head(inbox[n]).from
           e == Entry(Head(inbox[n]).msg)
           s2 == [shown EXCEPT ![n] = Append(@, e)]
           w2 == [work EXCEPT ![n] = <<>>]
           c2 == clock_num'
<1>1. Shape(work, inbox, shown, typed) /\ clock_num \in Counters /\ c2 \in Counters
  BY OrderShape
<1>2. OrderOf(work, inbox, shown, typed, clock_num, is_leader)
  BY DEF OrderInvariant
<1>3. work' = w2 /\ inbox' = b2 /\ shown' = s2
  BY DEF Handles, Do, Show, Entry
<1>4. b2 \in Inboxes /\ w2 \in Works
  BY <1>3, OrderShape DEF Shape
<1>5. work \in Works /\ inbox \in Inboxes
  BY <1>1 DEF Shape
<1>6. LessWork(work, w2) /\ LessWork(work, work) /\ LessInbox(inbox, b2)
  BY <1>5, WorkShrinks, InboxShrinks
<1>7. ClocksGoOn(clock_num, is_leader, c2, is_leader)
  BY MembersClock
<1>8. /\ Fits(work, b2, shown, typed, clock_num, is_leader, from, n, e)
      /\ \A f \in Waiting(b2, n) : typed[f.line].to = from => e.id < f.id
      /\ e \in [line: Nat, id: Nat] /\ e \in Copies(work, inbox, shown)
  BY <1>1, <1>2, MessageTaken
<1>9. from \in Node
  <2>1. Head(inbox[n]) \in AnyMessage
    BY <1>5, TailParts DEF Inboxes
  <2> QED BY <2>1 DEF AnyMessage
<1>10. OrderInvariant' <=> OrderOf(w2, b2, s2, typed, c2, is_leader)
  BY <1>3 DEF OrderInvariant
<1>11. LessInbox(b2, b2)
  BY <1>4, InboxShrinks
<1>12. SomeWork(work, w2)
  BY <1>6, LessIsSome
<1> HIDE DEF b2, w2, c2, from, e
<1>13. Shape(w2, b2, shown, typed)
  BY <1>1, <1>4 DEF Shape
<1>14. OrderOf(w2, b2, shown, typed, c2, is_leader)
  BY <1>1, <1>2, <1>6, <1>7, <1>13, LessOrder
<1>15. Fits(w2, b2, shown, typed, c2, is_leader, from, n, e)
  BY <1>1, <1>7, <1>8, <1>9, <1>11, <1>12, StaysNext
<1>16. /\ OrderOf(w2, b2, s2, typed, c2, is_leader)
       /\ OneMore(w2, b2, shown, w2, b2, s2, e)
  BY <1>8, <1>13, <1>14, <1>15, LineShown
<1>17. LineStep
  <2>1. \A f \in Copies(w2, b2, shown) : f \in Copies(work, inbox, shown)
    BY <1>6, <1>12, LessCopies
  <2>2. \A f \in Copies(work', inbox', shown') : f \in Copies(work, inbox, shown)
    BY <1>3, <1>8, <1>16, <2>1 DEF OneMore
  <2>3. /\ typed[e.line].to = from
        /\ \A f \in Seen(shown, n) : typed[f.line].to = from => f.id < e.id
    BY <1>8 DEF Fits
  <2>4. shown' = [shown EXCEPT ![n] = Append(@, e)] /\ e \in Copies(work, inbox, shown)
    BY <1>3, <1>8
  <2> QED BY <2>2, <2>3, <2>4, ShowsStep
<1> QED BY <1>10, <1>16, <1>17 DEF OrderKept

LEMMA OrderMemberReceives ==
    ASSUME GroupInvariant, GroupInvariant', OrderInvariant, NEW n \in Node,
           MemberReceives(n)
    PROVE  OrderKept
<1> DEFINE from == Head(inbox[n]).from
           msg == Head(inbox[n]).msg
<1>1. /\ ~is_leader[n] /\ inbox[n] # <<>> /\ UNCHANGED <<is_leader, typed>>
  BY DEF MemberReceives
<1>2. CASE msg.type = "MESSAGE_BROADCAST"
  <2>1. /\ clock_num' = [clock_num EXCEPT ![n] = msg.id]
        /\ Show(n, msg.line, msg.id) /\ Handles(n, <<>>)
    BY <1>2 DEF MemberReceives
  <2>2. IsLine(msg)
    BY <1>2 DEF IsLine
  <2> QED BY <1>1, <2>1, <2>2, OrderReads
<1>3. CASE msg.type # "MESSAGE_BROADCAST"
  <2>1. clock_num' = clock_num
    BY <1>3 DEF MemberReceives
  <2>2. shown' = shown
    BY <1>3 DEF MemberReceives, Tell, printed
  <2>3. QuietWork(n) /\ QuietInbox(n)
    <3>1. CASE msg.type = "ADD_ME"
      <4> DEFINE q == IF election[n].in
                      THEN <<Send(from, Plain("JOIN_FAILURE"), "ignore")>>
                      ELSE <<Send(from, LeaderId(group[n].leader), "exit")>>
      <4>1. Handles(n, q)
        BY <3>1 DEF MemberReceives
      <4>2. QuietTasks(q)
        BY QuietMessages, QuietSends, QuietOnes
      <4> HIDE DEF q
      <4> QED BY <1>1, <4>1, <4>2 DEF Handles, QuietWork, QuietInbox
    <3>2. CASE msg.type = "START_ELECTION"
      <4>1. RespondToElection(n, from)
        BY <3>2 DEF MemberReceives
      <4> QED BY <1>1, <4>1, QuietResponds
    <3>3. CASE msg.type \in {"PARTICIPANT_UPDATE", "HEARTBEAT", "STOP_ELECTION",
                            "ELECTION_VICTORY"}
      <4>1. Handles(n, <<>>)
        BY <3>3 DEF MemberReceives
      <4> QED BY <1>1, <4>1 DEF Handles, QuietWork, QuietInbox
    <3>4. CASE msg.type \notin {"MESSAGE_BROADCAST", "ADD_ME", "START_ELECTION",
                               "PARTICIPANT_UPDATE", "HEARTBEAT", "STOP_ELECTION",
                               "ELECTION_VICTORY"}
      BY <3>4 DEF MemberReceives, End, Do, QuietWork, QuietInbox
    <3> QED BY <1>3, <3>1, <3>2, <3>3, <3>4
  <2> QED BY <1>1, <2>1, <2>2, <2>3, QuietMove
<1> QED BY <1>2, <1>3

LEMMA OrderTypes ==
    ASSUME GroupInvariant, GroupInvariant', OrderInvariant, NEW n \in Node, Type(n)
    PROVE  OrderKept
<1> DEFINE k == Len(typed) + 1
           leader == group[n].leader
           r == [by |-> n, to |-> leader]
           y2 == Append(typed, r)
<1>1. /\ status[n] = "chatting" /\ inbox' = inbox /\ typed' = y2
      /\ UNCHANGED <<is_leader, shown>>
  BY DEF Type, printed
<1>2. leader \in Node
  BY <1>1, KnowsLeader
<1>3. Shape(work, inbox, shown, typed) /\ clock_num \in Counters
  BY OrderShape
<1>4. OrderOf(work, inbox, shown, typed, clock_num, is_leader)
  BY DEF OrderInvariant
<1> HIDE DEF leader
<1>5. r \in [by: Node, to: Node]
  BY <1>2
<1>6. /\ OrderOf(work, inbox, shown, y2, clock_num, is_leader)
      /\ Unheard(work, inbox, shown, k)
  BY <1>3, <1>4, <1>5, MoreTyped DEF Unheard
<1>7. k \in DOMAIN y2 /\ y2[k] = r /\ y2 \in Histories /\ k \in Nat
  <2>1. typed \in Histories
    BY <1>3 DEF Shape
  <2> HIDE DEF r
  <2> QED BY <1>5, <2>1, AppendParts DEF Histories
<1>8. r.by = n /\ r.to = leader
  OBVIOUS
<1> HIDE DEF k, y2
<1>9. Shape(work, inbox, shown, y2)
  BY <1>3, <1>7 DEF Shape
<1>10. CASE is_leader[n]
  <2>1. work' = [work EXCEPT ![n] = Broadcast(n, k)]
        /\ clock_num' = [clock_num EXCEPT ![n] = @ + 1]
    BY <1>10 DEF Type, Do, k
  <2>2. Leading(n)
    BY <1>1, <1>10 DEF Leading
  <2>3. leader = n
    BY <2>2, LeaderProperties DEF leader
  <2> DEFINE e == [line |-> k, id |-> clock_num[n]]
             w2 == [work EXCEPT ![n] = Broadcast(n, k)]
             C == Copies(work, inbox, shown)
  <2>4. /\ OrderOf(w2, inbox, shown, y2, [clock_num EXCEPT ![n] = @ + 1], is_leader)
        /\ OneMore(work, inbox, shown, w2, inbox, shown, e)
    BY <1>6, <1>7, <1>8, <1>9, <2>2, <2>3, LineBegins
  <2>5. e.line = k /\ e.id = clock_num[n] /\ work' = w2
    BY <2>1
  <2> HIDE DEF e, w2
  <2>6. \A f \in C : typed[f.line].to = n => f.id < e.id
    BY <1>4, <2>5 DEF OrderOf, Counted
  <2>7. \A f \in Copies(work', inbox', shown') : f \in C \cup {e}
    BY <1>1, <2>4, <2>5 DEF OneMore
  <2>8. typed' = Append(typed, [by |-> n, to |-> n]) /\ shown' = shown
    BY <1>1, <2>3 DEF y2
  <2>9. ASSUME e \in Copies(work', inbox', shown') PROVE LineStep
    <3>1. Promise!Keeping(C \cup {e})
      BY <2>7, KeepsShown
    <3>2. e.line = Len(typed')
      BY <1>3, <2>5, <2>8 DEF k, Shape, Histories
    <3>3. Promise!Say(n, e)
      BY <2>6, <2>8, <3>1, <3>2 DEF Promise!Say, Promise!Above
    <3> QED BY <2>9, <3>3 DEF LineStep, Promise!Next
  <2>10. ASSUME e \notin Copies(work', inbox', shown') PROVE LineStep
    <3>1. Promise!Keeping(C)
      BY <2>7, <2>10, KeepsShown
    <3>2. Promise!Type(n, n)
      BY <2>8, <3>1 DEF Promise!Type
    <3> QED BY <3>2 DEF LineStep, Promise!Next
  <2> QED BY <1>1, <2>1, <2>4, <2>5, <2>9, <2>10 DEF OrderKept, OrderInvariant
<1>11. CASE ~is_leader[n]
  <2> DEFINE task == Send(leader, Request(k), "elect")
  <2>1. work' = [work EXCEPT ![n] = <<task>>] /\ clock_num' = clock_num
    BY <1>11 DEF Type, Do, k, leader
  <2>2. task.msg.line = k /\ task.to = leader /\ Asks(task)
    BY DEF Send, Request, Asks
  <2>3. task \in Tasks
    <3>1. Request(k) \in Messages
      BY <1>7, OtherMessages
    <3> QED BY <1>2, <3>1 DEF Send, Tasks
  <2> HIDE DEF task
  <2>4. /\ task.msg.line \in DOMAIN y2
        /\ y2[task.msg.line] = [by |-> n, to |-> task.to]
        /\ Unheard(work, inbox, shown, task.msg.line)
    BY <1>6, <1>7, <2>2
  <2>5. /\ OrderOf([work EXCEPT ![n] = <<task>>], inbox, shown, y2, clock_num, is_leader)
        /\ Copies([work EXCEPT ![n] = <<task>>], inbox, shown)
               \subseteq Copies(work, inbox, shown)
    BY <1>6, <1>9, <2>2, <2>3, <2>4, AskingOrder
  <2>6. \A e \in Copies(work', inbox', shown') : e \in Copies(work, inbox, shown)
    BY <1>1, <2>1, <2>5
  <2>7. Promise!Keeping(Copies(work, inbox, shown))
    BY <2>6, KeepsShown
  <2>8. Promise!Type(n, leader)
    BY <1>1, <2>7 DEF Promise!Type, y2
  <2>9. LineStep
    BY <1>2, <2>8 DEF LineStep, Promise!Next
  <2> QED BY <1>1, <2>1, <2>5, <2>9 DEF OrderKept, OrderInvariant
<1> QED BY <1>10, <1>11

-----------------------------------------------------------------------------
(* Theorems *)

LEMMA OrderInit == Init => OrderInvariant
<1> SUFFICES ASSUME Init PROVE OrderInvariant
  OBVIOUS
<1>1. \A n \in Node : work[n] = <<>> /\ inbox[n] = <<>> /\ shown[n] = <<>>
  BY DEF Init
<1>2. \A n \in Node : DOMAIN work[n] = {} /\ DOMAIN inbox[n] = {} /\ DOMAIN shown[n] = {}
  BY <1>1
<1>3. /\ \A x \in Node : Seen(shown, x) = {} /\ Waiting(inbox, x) = {}
      /\ \A n, x \in Node : Ahead(work, n, x) = {}
  BY <1>2 DEF Seen, Waiting, Ahead
<1>4. \A e : e \notin Copies(work, inbox, shown)
  BY <1>3, CopiesAre
<1>5. FromLeader(work, inbox, typed) /\ OneRequest(work, inbox, shown, typed)
  BY <1>2 DEF FromLeader, OneRequest
<1>6. Counted(work, inbox, shown, typed, clock_num, is_leader)
  BY <1>4 DEF Counted
<1>7. Ascending(work, inbox, shown, typed)
  BY <1>2, <1>3 DEF Ascending
<1> QED BY <1>5, <1>6, <1>7 DEF OrderInvariant, OrderOf

LEMMA PromiseInit == Init => Promise!Init
<1> SUFFICES ASSUME Init PROVE Promise!Init
  OBVIOUS
<1>1. /\ \A n \in Node : work[n] = <<>> /\ inbox[n] = <<>> /\ shown[n] = <<>>
      /\ typed = <<>> /\ shown = [n \in Node |-> <<>>]
  BY DEF Init
<1>2. \A n \in Node : DOMAIN work[n] = {} /\ DOMAIN inbox[n] = {} /\ DOMAIN shown[n] = {}
  BY <1>1
<1>3. /\ \A x \in Node : Seen(shown, x) = {} /\ Waiting(inbox, x) = {}
      /\ \A n, x \in Node : Ahead(work, n, x) = {}
  BY <1>2 DEF Seen, Waiting, Ahead
<1>4. \A e : e \notin Copies(work, inbox, shown)
  BY <1>3, CopiesAre
<1> QED BY <1>1, <1>4 DEF Promise!Init

LEMMA OrderNext ==
    ASSUME GroupInvariant, OrderInvariant, [Next]_vars
    PROVE  OrderKept
<1>0. GroupInvariant'
  BY GroupNext, ConstantsAssumption
<1>1. ASSUME NEW n \in Node, NEW hint \in Node, Join(n, hint) PROVE OrderKept
  BY <1>0, <1>1, OrderJoins
<1>2. ASSUME NEW n \in Node, Wake(n) PROVE OrderKept
  BY <1>0, <1>2, OrderJoins
<1>3. ASSUME NEW n \in Node, Type(n) PROVE OrderKept
  BY <1>0, <1>3, OrderTypes
<1>4. ASSUME NEW n \in Node, Receive(n) PROVE OrderKept
  BY <1>0, <1>4, OrderJoins, OrderLeaderReceives, OrderMemberReceives DEF Receive
<1>5. ASSUME NEW n \in Node, Timers(n) PROVE OrderKept
  BY <1>0, <1>5, OrderTimers, OrderVictory DEF Timers
<1>6. ASSUME NEW n \in Node, Work(n) PROVE OrderKept
  BY <1>0, <1>6, OrderAcknowledged, OrderTimesOut, OrderTask, OrderPrints DEF Work
<1>7. ASSUME NEW n \in Node, Crash(n) PROVE OrderKept
  BY <1>0, <1>7, OrderTask
<1>8. ASSUME Tick \/ UNCHANGED vars PROVE OrderKept
  BY <1>0, <1>8, OrderStays
<1> QED BY <1>1, <1>2, <1>3, <1>4, <1>5, <1>6, <1>7, <1>8 DEF Next

(***************************************************************************)
(* A leader counts each line typed to it once, and its lines get           *)
(* everywhere, are read and printed in the order in which it counted them, *)
(* whatever is dropped on the way: OrderInvariant is inductive.            *)
(***************************************************************************)
THEOREM LinesInOrder == Spec => []OrderInvariant
<1>1. Init => OrderInvariant
  BY OrderInit
<1>2. GroupInvariant /\ OrderInvariant /\ [Next]_vars => OrderInvariant'
  BY OrderNext DEF OrderKept
<1> QED BY <1>1, <1>2, GroupInductive, PTL DEF Spec

LEMMA OrderGives == GroupInvariant /\ OrderInvariant => LeadersOrder
<1> SUFFICES ASSUME GroupInvariant, OrderInvariant,
                    NEW a \in Node, NEW b \in Node,
                    NEW x \in DOMAIN typed, NEW y \in DOMAIN typed,
                    typed[x].to = typed[y].to,
                    ShownBefore(a, x, y), ShownBefore(b, y, x)
             PROVE  FALSE
  BY DEF LeadersOrder
<1>1. /\ Counted(work, inbox, shown, typed, clock_num, is_leader)
      /\ Ascending(work, inbox, shown, typed)
  BY DEF OrderInvariant, OrderOf
<1>2. PICK i \in DOMAIN shown[a] : \E j \in DOMAIN shown[a] :
          i < j /\ shown[a][i].line = x /\ shown[a][j].line = y
  BY DEF ShownBefore
<1>3. PICK j \in DOMAIN shown[a] :
          i < j /\ shown[a][i].line = x /\ shown[a][j].line = y
  BY <1>2
<1>4. PICK k \in DOMAIN shown[b] : \E m \in DOMAIN shown[b] :
          k < m /\ shown[b][k].line = y /\ shown[b][m].line = x
  BY DEF ShownBefore
<1>5. PICK m \in DOMAIN shown[b] :
          k < m /\ shown[b][k].line = y /\ shown[b][m].line = x
  BY <1>4
<1> DEFINE e == shown[a][i]
           f == shown[a][j]
           g == shown[b][k]
           h == shown[b][m]
<1>6. /\ e \in Copies(work, inbox, shown) /\ f \in Copies(work, inbox, shown)
      /\ g \in Copies(work, inbox, shown) /\ h \in Copies(work, inbox, shown)
  BY PlacesCopied
<1>7. e.id < f.id /\ g.id < h.id
  BY <1>1, <1>3, <1>5 DEF Ascending
<1>8. e.line = h.line /\ f.line = g.line
  BY <1>3, <1>5
<1>9. e \in [line: Nat, id: Nat] /\ f \in [line: Nat, id: Nat]
  BY <1>6, OrderShape, EntryTypes
<1> HIDE DEF e, f, g, h
<1>10. e.id = h.id /\ f.id = g.id
  BY <1>1, <1>6, <1>8 DEF Counted
<1>11. e.id \in Nat /\ f.id \in Nat
  BY <1>9
<1> QED BY <1>7, <1>10, <1>11

(***************************************************************************)
(* Whoever crashes, is late or takes over: the lines typed to one leader   *)
(* are in one order wherever they are seen, and none is seen twice.        *)
(***************************************************************************)
THEOREM LeadersOrderHolds == Spec => []LeadersOrder
<1>1. GroupInvariant /\ OrderInvariant => LeadersOrder
  BY OrderGives
<1> QED BY <1>1, LinesInOrder, GroupInductive, PTL

(***************************************************************************)
(* The chat implements LineOrder, whatever happens to its processes: each  *)
(* line gets its number from the leader it was typed to, above all numbers *)
(* of that leader's lines, and every window shows them in that order.      *)
(***************************************************************************)
THEOREM LineOrderImplemented == Spec => ImplementsLineOrder
<1>1. Init => Promise!Init
  BY PromiseInit
<1>2. GroupInvariant /\ OrderInvariant /\ [Next]_vars
      => [Promise!Next]_<<typed, Copies(work, inbox, shown), shown>>
  BY OrderNext DEF OrderKept, LineStep
<1> QED BY <1>1, <1>2, LinesInOrder, GroupInductive, PTL
        DEF Spec, ImplementsLineOrder, Promise!Spec
=============================================================================
