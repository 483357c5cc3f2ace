----------------------------- MODULE ChatInvariants -----------------------------
(***************************************************************************)
(* The inductive invariants behind the properties of Chat: what holds of   *)
(* each process, of who lists whom, and of lines on their way.  The runs   *)
(* chat_join, window and chat_lines check them on instances; ChatProofs,   *)
(* ListingProofs and LinesProofs prove them.                               *)
(***************************************************************************)
EXTENDS Chat

\* A PARTICIPANT_UPDATE that gets to n names n, and nobody twice.
Informs(n, msg) ==
    msg.type = "PARTICIPANT_UPDATE" =>
        /\ \E i \in DOMAIN msg.nodes : msg.nodes[i] = n
        /\ NamesDiffer(msg.nodes)

\* What only leader_broadcast_message and declare_victory leave to do.
IsLeaders(task) ==
    \/ task.task \in {"settle", "announce"}
    \/ task.task = "send" /\ task.else = "remove"

\* What a process may have to do, and what one that does not lead may.
ProperTasks ==
    {task \in Tasks : task.task = "send" => Informs(task.to, task.msg)}

MembersTasks == {task \in ProperTasks : ~IsLeaders(task)}

\* What may be in the inbox of n.
ProperMessages(n) ==
    {m \in [from: Node, msg: Messages] : Informs(n, m.msg)}

(***************************************************************************)
(* What holds of each process by itself.  Whoever is not in the chat does  *)
(* not lead, and knows whom to ask if it wants in; whoever is knows a      *)
(* leader, maybe itself, and is in its own list; and whatever it is told   *)
(* keeps that so.                                                          *)
(***************************************************************************)
ProcessInv(n) ==
    /\ work[n] \in Seq(ProperTasks)
    /\ n \notin Leaders => work[n] \in Seq(MembersTasks)
    /\ work[n] # <<>> => n \in Running
    /\ inbox[n] \in Seq(ProperMessages(n))
    /\ status[n] \in {"joining", "napping"} => joining[n].hint # Nobody
    /\ is_leader[n] => status[n] \notin {"out", "joining", "napping"}
    /\ n \in Chatting => group[n].leader # Nobody /\ n \in Addresses(group[n])
    /\ n \in Leaders => group[n].leader = n /\ Flagged(group[n]) = {n}
    /\ NamesDiffer([i \in DOMAIN group[n].participants |->
                        group[n].participants[i].node])

GroupInvariant == TypeOK /\ \A n \in Node : ProcessInv(n)

-----------------------------------------------------------------------------
(* The petition of a process that wants to join: its ADD_ME, from the call  *)
(* that sends it, and after it the answer, up to when that is read.         *)

Answers == {"JOIN_FAILURE", "LEADER_ID"}

\* The petition of x is what n sends with this task ...
InTask(n, task, x) ==
    /\ task.task = "send"
    /\ \/ task.msg.type = "ADD_ME" /\ n = x
       \/ task.msg.type \in Answers /\ task.to = x

\* ... or what came to n with message m.
InMessage(n, m, x) ==
    \/ m.msg.type = "ADD_ME" /\ m.from = x
    \/ m.msg.type \in Answers /\ n = x

PlainTasks ==
    {task \in Tasks : task.task = "send" =>
                          task.msg.type \notin Answers \cup {"ADD_ME"}}

\* With tasks w to do and messages b to read, the petition of x is in the next
\* task of n, or in its inbox.
Sends(w, n, x) == w[n] # <<>> /\ InTask(n, Head(w[n]), x)
Waits(b, n, x) == \E i \in DOMAIN b[n] : InMessage(n, b[n][i], x)

NoPetition(w, b, x) == \A n \in Node : ~Sends(w, n, x) /\ ~Waits(b, n, x)

OnePetition(w, b, x) ==
    \A n, m \in Node :
        /\ Sends(w, n, x) /\ Sends(w, m, x) => n = m
        /\ Waits(b, n, x) /\ Waits(b, m, x) => n = m
        /\ ~(Sends(w, n, x) /\ Waits(b, m, x))
        /\ \A i, j \in DOMAIN b[n] :
               InMessage(n, b[n][i], x) /\ InMessage(n, b[n][j], x) => i = j

(***************************************************************************)
(* A process has one petition at a time, and none before it joins and      *)
(* while it naps.  A handler that sends one does nothing else.             *)
(***************************************************************************)
PetitionInvariant ==
    /\ \A n \in Node : work[n] # <<>> => Tail(work[n]) \in Seq(PlainTasks)
    /\ \A x \in Node : OnePetition(work, inbox, x)
    /\ \A x \in Node :
           status[x] \in {"out", "napping"} => NoPetition(work, inbox, x)

-----------------------------------------------------------------------------
(* Lists *)

Ended(x) == status[x] \in {"gone", "segfault"}

\* Who may be in a list: its petition has been granted, so it does not nap.
Granted(x) ==
    \/ Ended(x)
    \/ status[x] \in {"joining", "chatting"} /\ NoPetition(work, inbox, x)

\* The leader n lists x as long as x lives and nobody was late.
Keeps(n, x) ==
    /\ is_leader[n]
    /\ Prompt => Ended(x) \/ x \in Addresses(group[n])

\* A list that n sends is its own.
ListOf(n, nodes) == nodes[1] = n /\ \A i \in DOMAIN nodes : Granted(nodes[i])

\* What n may have to do: only a leader tells of lists and victories.
ListingTasks(n) ==
    {task \in Tasks : task.task = "send" =>
        /\ task.msg.type \in {"PARTICIPANT_UPDATE", "ELECTION_VICTORY"} =>
               task.else = "remove"
        /\ task.else = "remove" => Keeps(n, task.to)
        /\ task.msg.type = "PARTICIPANT_UPDATE" => ListOf(n, task.msg.nodes)}

\* What n may be told: that somebody leads who has it in its list.
ListingMessages(n) ==
    {m \in [from: Node, msg: Messages] :
        /\ m.msg.type \in {"PARTICIPANT_UPDATE", "ELECTION_VICTORY"} =>
               Keeps(m.from, n)
        /\ m.msg.type = "PARTICIPANT_UPDATE" => ListOf(m.from, m.msg.nodes)}

(***************************************************************************)
(* Whoever follows a leader, or is going to, is in its list.               *)
(***************************************************************************)
ListingInvariant ==
    /\ PetitionInvariant
    /\ \A n \in Node :
           /\ work[n] \in Seq(ListingTasks(n))
           /\ inbox[n] \in Seq(ListingMessages(n))
           /\ \A x \in Addresses(group[n]) : Granted(x)
           /\ status[n] = "chatting" => Keeps(group[n].leader, n)

-----------------------------------------------------------------------------
(* Lines, from the request to where they are printed.  The operators take  *)
(* the variables, or what a step makes of them, as parameters: work w,     *)
(* inbox b, shown s, typed y, clock_num c and is_leader l.                 *)

IsLine(msg) == msg.type = "MESSAGE_BROADCAST"

\* A line, with its id, in a message, in a task and where it is printed.
Entry(r) == [line |-> r.line, id |-> r.id]

\* A task that tells x a line: n sends it, or is x and prints it.
Tells(n, task, x) ==
    \/ task.task = "send" /\ IsLine(task.msg) /\ task.to = x
    \/ task.task = "print" /\ n = x

Told(task) == IF task.task = "print" THEN Entry(task) ELSE Entry(task.msg)

\* What n has still to tell x, what waits to be read by x, what x has printed.
Ahead(w, n, x) == {Told(w[n][i]) : i \in {j \in DOMAIN w[n] : Tells(n, w[n][j], x)}}
Waiting(b, x)  == {Entry(b[x][i].msg) : i \in {j \in DOMAIN b[x] : IsLine(b[x][j].msg)}}
Seen(s, x)     == {s[x][i] : i \in DOMAIN s[x]}

\* What n has still to tell anybody.
Pending(w, n) ==
    {Told(w[n][i]) : i \in {j \in DOMAIN w[n] : \E x \in Node : Tells(n, w[n][j], x)}}

Copies(w, b, s) ==
    UNION {Seen(s, x) \cup Waiting(b, x) \cup Pending(w, x) : x \in Node}

\* Who broadcasts a line is whom it was typed to, and tells each of the others
\* once.
FromLeader(w, b, y) ==
    /\ \A n, x \in Node : \A i \in DOMAIN w[n] : Tells(n, w[n][i], x) =>
           /\ y[Told(w[n][i]).line].to = n
           /\ w[n][i].task = "send" => x # n
           /\ \A j \in DOMAIN w[n] : Tells(n, w[n][j], x) => i = j
    /\ \A x \in Node : \A i \in DOMAIN b[x] : IsLine(b[x][i].msg) =>
           /\ y[b[x][i].msg.line].to = b[x][i].from
           /\ b[x][i].from # x

\* All copies of a line have one id, which its leader has counted.
Counted(w, b, s, y, c, l) ==
    \A e \in Copies(w, b, s) :
        /\ e.line \in DOMAIN y
        /\ l[y[e.line].to]
        /\ e.id < c[y[e.line].to]
        /\ \A f \in Copies(w, b, s) : e.line = f.line => e.id = f.id

\* The lines of one leader get to x, and come next, in the order of their ids.
Ascending(w, b, s, y) ==
    \A x \in Node :
        /\ \A i, j \in DOMAIN s[x] :
               i < j /\ y[s[x][i].line].to = y[s[x][j].line].to =>
                   s[x][i].id < s[x][j].id
        /\ \A i, j \in DOMAIN b[x] :
               /\ i < j /\ b[x][i].from = b[x][j].from
               /\ IsLine(b[x][i].msg) /\ IsLine(b[x][j].msg)
               => b[x][i].msg.id < b[x][j].msg.id
        /\ \A f \in Seen(s, x), e \in Waiting(b, x) :
               y[f.line].to = y[e.line].to => f.id < e.id
        /\ \A n \in Node : \A e \in Ahead(w, n, x), f \in Seen(s, x) \cup Waiting(b, x) :
               y[f.line].to = n => f.id < e.id

Asks(task) == task.task = "send" /\ task.msg.type = "MESSAGE_REQUEST"

IsRequest(msg) == msg.type = "MESSAGE_REQUEST"

Requested(b, k) ==
    \E x \in Node : \E i \in DOMAIN b[x] :
        IsRequest(b[x][i].msg) /\ b[x][i].msg.line = k

Copied(w, b, s, k) == \E e \in Copies(w, b, s) : e.line = k

\* The request for the line that task i of n, or message i to n, is about is in
\* this place alone, and no copy of the line is anywhere.
AskedOnce(w, b, s, y, n, i) ==
    LET k == w[n][i].msg.line
    IN  /\ i = 1
        /\ k \in DOMAIN y
        /\ y[k] = [by |-> n, to |-> w[n][i].to]
        /\ ~Requested(b, k)
        /\ ~Copied(w, b, s, k)

RequestedOnce(w, b, s, y, n, i) ==
    LET k == b[n][i].msg.line
    IN  /\ k \in DOMAIN y
        /\ y[k].to = n
        /\ \A j \in DOMAIN b[n] :
               IsRequest(b[n][j].msg) /\ b[n][j].msg.line = k => i = j
        /\ ~Copied(w, b, s, k)

OneRequest(w, b, s, y) ==
    \A n \in Node :
        /\ \A i \in DOMAIN w[n] : Asks(w[n][i]) => AskedOnce(w, b, s, y, n, i)
        /\ \A i \in DOMAIN b[n] :
               IsRequest(b[n][i].msg) => RequestedOnce(w, b, s, y, n, i)

OrderOf(w, b, s, y, c, l) ==
    /\ FromLeader(w, b, y)
    /\ Counted(w, b, s, y, c, l)
    /\ Ascending(w, b, s, y)
    /\ OneRequest(w, b, s, y)

(***************************************************************************)
(* Whatever happens, the lines of one leader get everywhere in the order   *)
(* of their ids.                                                           *)
(***************************************************************************)
OrderInvariant == OrderOf(work, inbox, shown, typed, clock_num, is_leader)

(***************************************************************************)
(* The chat keeps the promise of LineOrder: every line is numbered by whom *)
(* it was typed to, above all it has numbered, and shown in that order.    *)
(* What has a number is what some message, task or screen holds.           *)
(***************************************************************************)
Promise == INSTANCE LineOrder WITH numbered <- Copies(work, inbox, shown)

ImplementsLineOrder == Promise!Spec
=============================================================================
