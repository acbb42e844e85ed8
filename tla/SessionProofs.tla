--------------------------- MODULE SessionProofs ---------------------------
(***************************************************************************)
(* Proofs about GmailSession: the types, that a call past ensure_session   *)
(* has the connection to itself, and that the Ok of a call is right, up to *)
(* what the servers of lost connections do late, whatever was dropped,     *)
(* refused or lost before.                                                 *)
(***************************************************************************)
EXTENDS GmailSession, SequenceTheorems, WellFoundedInduction, TLAPS

USE SessionAssumption

Calls == [op: {"none", "create", "get", "delete"}, id: Nat,
          subject: Subjects \cup {"none"}, uid: Nat, step: 1..4,
          hits: SUBSET Nat, ignored: BOOLEAN]

Conns == [up: BOOLEAN, out: Seq(Messages), in: Seq(Answers),
          awaiting: SUBSET Messages]

-----------------------------------------------------------------------------
(* The inductive invariant.                                                *)

(* TypeOK in three parts, with the types of what it leaves open.           *)
CallerTypes ==
    /\ pipeline \in Callers \cup {NoOne} /\ lock \in Callers \cup {NoOne}
    /\ pc \in [Callers -> {"idle", "ensure", "probe", "connect", "relock",
                           "send", "read"}]
    /\ call \in [Callers -> Calls]
    /\ calls \in Nat /\ faults \in Nat

ConnTypes == conns \in Seq(Conns)

MailTypes ==
    /\ drafts \subseteq [uid: Nat, subject: [key: Subjects], data: Nat,
                         deleted: BOOLEAN]
    /\ nextUid \in Nat \ {0}
    /\ born \subseteq Nat \X Nat
    /\ orphans \subseteq Messages /\ late \subseteq Nat

(* The caller with the pipeline is the only one that runs, and it holds    *)
(* the session's mutex in ensure_session and while it talks.               *)
MutexInv ==
    /\ \A c \in Callers : pc[c] # "idle" <=> pipeline = c
    /\ \A c \in Callers :
          lock = c <=> pc[c] \in {"probe", "connect", "send", "read"}

(* The call that runs is the latest; it is at its first command until it   *)
(* has the session.                                                        *)
CallInv ==
    \A c \in Callers :
        IF pc[c] = "idle" THEN call[c] = NoCall
        ELSE /\ call[c].id = calls
             /\ call[c].op \in {"create", "get", "delete"}
             /\ call[c].step \in 1..Len(Script[call[c].op])
             /\ call[c].op = "create" => call[c].subject \in Subjects
             /\ pc[c] \in {"ensure", "probe", "connect", "relock"} =>
                   call[c].step = 1 /\ call[c].hits = {}

(* Only the connection of the session can be up.                           *)
ConnInv ==
    /\ session = Len(conns)
    /\ \A k \in 1..Len(conns) : conns[k].up => k = session
    /\ \A c \in Callers : pc[c] \in {"probe", "relock", "send", "read"} =>
          session # NoConnection

(* Every draft was born with its UID, below the next.                      *)
MailInv == \A d \in drafts : d.uid < nextUid /\ <<d.uid, d.data>> \in born

(* A UID that has been assigned.                                           *)
Assigned(uid) == uid \in 0..(nextUid - 1)

(* The answer is right, and a draft that was deleted had a UID.            *)
AnswerInv ==
    /\ RightAnswer
    /\ answer.op = "delete" => Assigned(answer.uid)

(* Drafts are deleted, now or late, by a UID that was assigned before: no  *)
(* late STORE can flag a draft that is yet to come.                        *)
StoreInv ==
    /\ \A c \in Callers : call[c].op = "delete" => Assigned(call[c].uid)
    /\ \A m \in orphans : /\ m.cmd = "STORE" => Assigned(m.uid)
                          /\ m.cmd = "APPEND" => m.subject \in Subjects

Below(s, id) ==
    /\ \A i \in 1..Len(s.out) : s.out[i].id < id
    /\ \A i \in 1..Len(s.in) : s.in[i].id < id
    /\ \A m \in s.awaiting : m.id < id

(* What is in flight belongs to calls made so far, to earlier ones when a  *)
(* call enters ensure_session; a server awaits literals of APPENDs only.   *)
FlightInv ==
    \A k \in 1..Len(conns) :
        /\ Below(conns[k], calls + 1)
        /\ \A c \in Callers : pc[c] = "ensure" => Below(conns[k], calls)
        /\ \A i \in 1..Len(conns[k].out) :
              /\ conns[k].out[i].cmd = "APPEND" =>
                    conns[k].out[i].subject \in Subjects
              /\ conns[k].out[i].cmd = "STORE" => Assigned(conns[k].out[i].uid)
        /\ \A m \in conns[k].awaiting : m.cmd = "APPEND" /\ m.subject \in Subjects

(* The NOOP of the probe is the last thing on the connection, under way to *)
(* the server or answered; or a server has taken it for a literal.         *)
Probing(s) ==
    /\ \A i \in 1..Len(s.out) : s.out[i].id = calls =>
          /\ i = Len(s.out) /\ s.out[i].cmd = "NOOP"
          /\ \A j \in 1..Len(s.in) : s.in[j].id < calls
    /\ \A i \in 1..Len(s.in) : s.in[i].id = calls =>
          i = Len(s.in) /\ s.out = <<>> /\ s.awaiting = {}
    /\ \A m \in s.awaiting : m.id < calls

(* The draft that the running create_draft has appended is the newest, but *)
(* for what was appended late; and no late command will remove it.         *)
Own(c) ==
    \E d \in drafts : /\ d.data = call[c].id
                      /\ d.subject.key = call[c].subject
                      /\ ~d.deleted
                      /\ \A uid \in (d.uid + 1)..(nextUid - 1) : uid \in late
                      /\ \A m \in orphans : m.cmd = "STORE" => m.uid < d.uid

Newest(c, hits) ==
    /\ \A h \in hits : Assigned(h)
    /\ \E uid \in hits : /\ <<uid, call[c].id>> \in born
                         /\ \A h \in hits : h <= uid \/ h \in late

(* What a delete_draft whose STORE succeeded has done, and what its        *)
(* EXPUNGE makes of that.                                                  *)
Flagged(c) == \A d \in DraftsWithUid(call[c].uid) : d.deleted

Gone(c) == DraftsWithUid(call[c].uid) = {}

Settled(c) ==
    call[c].op = "delete" /\ ~call[c].ignored =>
        /\ Command(c) = "STORE" => Flagged(c)
        /\ Command(c) = "EXPUNGE" => Gone(c)

Ok(c) == Answer("ok", Message(c, Tagged(Command(c))), {})

(* The answer to the command that c has sent is in the buffer.             *)
Answered(c, s) ==
    \/ /\ Command(c) = "APPEND" /\ s.awaiting = {Message(c, "APPEND")}
       /\ s.in = <<Answer("cont", Message(c, "APPEND"), {})>>
       /\ call[c].hits = {}
    \/ /\ Command(c) # "LITERAL" /\ s.awaiting = {}
       /\ s.in = <<Answer("no", Message(c, Command(c)), {})>>
       /\ call[c].hits = {}
    \/ /\ Command(c) # "APPEND" /\ s.awaiting = {}
       /\ s.in = <<Ok(c)>>
       /\ call[c].op = "create" => Own(c)
       /\ IF Command(c) = "SEARCH" THEN Newest(c, call[c].hits)
                                   ELSE call[c].hits = {}
       /\ Settled(c)
    \/ /\ Command(c) = "SEARCH" /\ s.awaiting = {}
       /\ \E hits \in SUBSET Nat :
             /\ Newest(c, hits)
             /\ s.in = <<Answer("hits", Message(c, "SEARCH"), hits), Ok(c)>>
       /\ call[c].hits = {}
       /\ Own(c)
    \/ /\ Command(c) = "FETCH" /\ s.awaiting = {}
       /\ \E data \in Nat :
             /\ <<call[c].uid, data>> \in born
             /\ s.in = <<Answer("body", Message(c, "FETCH"), {data}), Ok(c)>>

Expected(c) == IF Command(c) = "LITERAL" THEN {Message(c, "APPEND")} ELSE {}

(* Before c sends a command and until it is answered, nothing else is on   *)
(* the connection; a create_draft past its literal has its draft, and a    *)
(* delete_draft past its STORE has flagged it.                             *)
Ready2Talk(c, s) ==
    /\ s.in = <<>> /\ s.awaiting = Expected(c) /\ call[c].hits = {}
    /\ call[c].op = "create" /\ call[c].step > 2 => Own(c)
    /\ call[c].op = "delete" /\ call[c].step > 2 /\ ~call[c].ignored =>
          Flagged(c)

Dead(s) ==
    /\ ~s.up /\ s.in = <<>> /\ s.awaiting = {}
    /\ \A i \in 1..Len(s.out) : s.out[i].id = calls

Talking(c, s) ==
    \/ Dead(s)
    \/ pc[c] \in {"relock", "send"} /\ s.out = <<>> /\ Ready2Talk(c, s)
    \/ pc[c] = "read" /\ s.out = <<Message(c, Command(c))>> /\ Ready2Talk(c, s)
    \/ pc[c] = "read" /\ s.out = <<>> /\ Answered(c, s)

TalkInv ==
    \A c \in Callers :
        /\ pc[c] = "probe" => \A s \in {conns[session]} : Probing(s)
        /\ pc[c] \in {"relock", "send", "read"} =>
              \A s \in {conns[session]} : Talking(c, s)

(* What the callers do, what is on the wires, and what is in the mailbox.  *)
ControlInv == CallerTypes /\ MutexInv /\ CallInv
WireInv == ConnTypes /\ ConnInv /\ FlightInv
DraftsInv == MailTypes /\ MailInv /\ AnswerInv /\ StoreInv

IInv == ControlInv /\ WireInv /\ DraftsInv /\ TalkInv

-----------------------------------------------------------------------------
(* The commands of the methods.                                            *)

LEMMA Scripts ==
    /\ Len(Script["create"]) = 4 /\ Len(Script["get"]) = 2
    /\ Len(Script["delete"]) = 3
    /\ Script["create"][1] = "APPEND" /\ Script["create"][2] = "LITERAL"
    /\ Script["create"][3] = "SELECT" /\ Script["create"][4] = "SEARCH"
    /\ Script["get"][1] = "SELECT" /\ Script["get"][2] = "FETCH"
    /\ Script["delete"][1] = "SELECT" /\ Script["delete"][2] = "STORE"
    /\ Script["delete"][3] = "EXPUNGE"
BY DEF Script

LEMMA CommandIs ==
    ASSUME ControlInv, NEW c \in Callers, pc[c] # "idle"
    PROVE  /\ Command(c) \in Commands \ {"NOOP"}
           /\ Command(c) = "APPEND" <=> call[c].op = "create" /\ call[c].step = 1
           /\ Command(c) = "LITERAL" <=> call[c].op = "create" /\ call[c].step = 2
           /\ Command(c) = "SEARCH" <=> call[c].op = "create" /\ call[c].step = 4
           /\ Command(c) = "FETCH" <=> call[c].op = "get" /\ call[c].step = 2
           /\ Command(c) \in {"STORE", "EXPUNGE"} =>
                 call[c].op = "delete" /\ call[c].step > 1
           /\ Command(c) = "EXPUNGE" <=> call[c].op = "delete" /\ call[c].step = 3
           /\ HasNext(c) <=> Command(c) \notin {"SEARCH", "FETCH", "EXPUNGE"}
<1>1. /\ call[c].op \in {"create", "get", "delete"}
      /\ call[c].step \in 1..Len(Script[call[c].op])
    BY DEF ControlInv, CallInv
<1>2. CASE call[c].op = "create"
  <2>1. call[c].step \in 1..4
      BY <1>1, <1>2, Scripts
  <2> QED
      BY <1>2, <2>1, Scripts DEF Command, Commands, HasNext
<1>3. CASE call[c].op = "get"
  <2>1. call[c].step \in 1..2
      BY <1>1, <1>3, Scripts
  <2> QED
      BY <1>3, <2>1, Scripts DEF Command, Commands, HasNext
<1>4. CASE call[c].op = "delete"
  <2>1. call[c].step \in 1..3
      BY <1>1, <1>4, Scripts
  <2> QED
      BY <1>4, <2>1, Scripts DEF Command, Commands, HasNext
<1> QED
    BY <1>1, <1>2, <1>3, <1>4

LEMMA Alone ==
    ASSUME ControlInv, NEW c \in Callers, pc[c] # "idle",
           NEW x \in Callers \ {c}
    PROVE  pc[x] = "idle"
BY DEF ControlInv, MutexInv

LEMMA MessageType ==
    ASSUME ControlInv, NEW c \in Callers, NEW cmd \in Commands
    PROVE  /\ Message(c, cmd) \in Messages
           /\ Message(c, cmd).cmd = cmd /\ Message(c, cmd).id = call[c].id
           /\ Message(c, cmd).subject = call[c].subject
           /\ Message(c, cmd).uid = call[c].uid
BY DEF ControlInv, CallerTypes, Calls, Message, Messages

LEMMA AnswerType ==
    ASSUME NEW m \in Messages, NEW value \in SUBSET Nat,
           NEW kind \in {"ok", "no", "cont", "hits", "body"}
    PROVE  /\ Answer(kind, m, value) \in Answers
           /\ Answer(kind, m, value).kind = kind
           /\ Answer(kind, m, value).id = m.id
           /\ Answer(kind, m, value).cmd = m.cmd
           /\ Answer(kind, m, value).value = value
BY DEF Messages, Answer, Answers

-----------------------------------------------------------------------------
(* The callers' variables.                                                 *)

LEMMA ControlKept ==
    ASSUME ControlInv, UNCHANGED <<callerVars, calls>>, faults' \in Nat
    PROVE  ControlInv'
BY DEF ControlInv, CallerTypes, MutexInv, CallInv, callerVars

(* A call that is over leaves everybody idle.                              *)
LEMMA LeaveControl ==
    ASSUME ControlInv, NEW c \in Callers, pc[c] # "idle", Leave(c),
           UNCHANGED calls, faults' \in Nat
    PROVE  /\ ControlInv'
           /\ \A x \in Callers : pc'[x] = "idle"
<1>1. /\ pc' = [pc EXCEPT ![c] = "idle"] /\ call' = [call EXCEPT ![c] = NoCall]
      /\ pipeline' = NoOne /\ lock' = IF lock = c THEN NoOne ELSE lock
    BY DEF Leave, Goto
<1>2. \A x \in Callers : pc'[x] = "idle"
    BY <1>1, Alone DEF ControlInv, CallerTypes
<1>3. NoCall \in Calls
    BY DEF NoCall, Calls
<1>4. CallerTypes'
    BY <1>1, <1>3 DEF ControlInv, CallerTypes
<1>5. MutexInv'
    BY <1>1, <1>2, Alone DEF ControlInv, CallerTypes, MutexInv
<1>6. CallInv'
    BY <1>1, <1>2, Alone DEF ControlInv, CallerTypes, CallInv
<1> QED
    BY <1>2, <1>4, <1>5, <1>6 DEF ControlInv

(* A step within a call that changes no more than label and lock.          *)
LEMMA GotoControl ==
    ASSUME ControlInv, NEW c \in Callers, pc[c] # "idle",
           NEW label \in {"probe", "connect", "relock", "send", "read"},
           Goto(c, label),
           label \in {"probe", "connect", "relock"} =>
              pc[c] \in {"ensure", "probe", "connect", "relock"},
           lock' = (IF label = "relock" THEN NoOne ELSE c),
           UNCHANGED <<pipeline, call, calls, faults>>
    PROVE  /\ ControlInv' /\ pc'[c] = label
           /\ \A x \in Callers \ {c} : pc'[x] = "idle"
<1>1. pc' = [pc EXCEPT ![c] = label]
    BY DEF Goto
<1>2. /\ pc'[c] = label
      /\ \A x \in Callers \ {c} : pc'[x] = "idle" /\ pc[x] = "idle"
    BY <1>1, Alone DEF ControlInv, CallerTypes
<1>4. CallerTypes'
    BY <1>1 DEF ControlInv, CallerTypes
<1>5. MutexInv'
    BY <1>1, <1>2 DEF ControlInv, CallerTypes, MutexInv
<1>6. CallInv'
    BY <1>1, <1>2 DEF ControlInv, CallerTypes, CallInv
<1> QED
    BY <1>2, <1>4, <1>5, <1>6 DEF ControlInv

(* A step of a call that talks: to the next command, or with more hits.    *)
LEMMA CallControl ==
    ASSUME ControlInv, NEW c \in Callers, pc[c] = "read",
           NEW k \in Calls,
           k.op = call[c].op, k.id = call[c].id, k.subject = call[c].subject,
           k.step \in 1..Len(Script[call[c].op]),
           call' = [call EXCEPT ![c] = k],
           NEW label \in {"send", "read"}, pc' = [pc EXCEPT ![c] = label],
           UNCHANGED <<pipeline, lock, calls, faults>>
    PROVE  /\ ControlInv' /\ pc'[c] = label /\ call'[c] = k
           /\ \A x \in Callers \ {c} : pc'[x] = "idle"
<1>2. /\ pc'[c] = label /\ call'[c] = k
      /\ \A x \in Callers \ {c} :
            pc'[x] = "idle" /\ pc[x] = "idle" /\ call'[x] = call[x]
    BY Alone DEF ControlInv, CallerTypes
<1>4. CallerTypes'
    BY DEF ControlInv, CallerTypes
<1>5. MutexInv'
    BY <1>2 DEF ControlInv, CallerTypes, MutexInv
<1>6. CallInv'
    BY <1>2 DEF ControlInv, CallerTypes, CallInv
<1> QED
    BY <1>2, <1>4, <1>5, <1>6 DEF ControlInv

-----------------------------------------------------------------------------
(* The connections.                                                        *)

FlightOK(s, id) ==
    /\ Below(s, id)
    /\ \A i \in 1..Len(s.out) :
          /\ s.out[i].cmd = "APPEND" => s.out[i].subject \in Subjects
          /\ s.out[i].cmd = "STORE" => Assigned(s.out[i].uid)
    /\ \A m \in s.awaiting : m.cmd = "APPEND" /\ m.subject \in Subjects

(* Connection k becomes s.                                                 *)
Becomes(k, s) ==
    /\ conns' \in Seq(Conns) /\ Len(conns') = Len(conns)
    /\ conns'[k] = s
    /\ \A j \in 1..Len(conns) : j # k => conns'[j] = conns[j]

LEMMA ConnBecomes ==
    ASSUME ConnTypes, NEW k \in 1..Len(conns), NEW s \in Conns,
           conns' = [conns EXCEPT ![k] = s]
    PROVE  Becomes(k, s)
BY DEF ConnTypes, Becomes

LEMMA ConnFields ==
    ASSUME ConnTypes, NEW k \in 1..Len(conns)
    PROVE  /\ conns[k] \in Conns /\ DOMAIN conns = 1..Len(conns)
           /\ conns[k].up \in BOOLEAN /\ conns[k].out \in Seq(Messages)
           /\ conns[k].in \in Seq(Answers)
           /\ conns[k].awaiting \in SUBSET Messages
           /\ conns[k] = [up |-> conns[k].up, out |-> conns[k].out,
                          in |-> conns[k].in, awaiting |-> conns[k].awaiting]
<1>1. conns[k] \in Conns /\ DOMAIN conns = 1..Len(conns)
    BY DEF ConnTypes
<1> QED
    BY <1>1 DEF Conns

LEMMA TailOfOne ==
    ASSUME NEW S, NEW q \in Seq(S), Len(q) = 1
    PROVE  Tail(q) = <<>> /\ q = <<q[1]>> /\ Head(q) = q[1] /\ q # <<>>
<1>1. Tail(q) \in Seq(S) /\ Len(Tail(q)) = 0
    OBVIOUS
<1>2. Tail(q) = <<>>
    BY <1>1, EmptySeq
<1> QED
    BY SMTT(30), <1>2

(* UIDs are assigned one by one, and stay assigned.                        *)
UidsGrow == UNCHANGED nextUid \/ (nextUid \in Nat /\ nextUid' = nextUid + 1)

LEMMA StaysAssigned ==
    ASSUME UidsGrow, NEW uid, Assigned(uid)
    PROVE  Assigned(uid)'
BY DEF UidsGrow, Assigned

LEMMA SameUids ==
    ASSUME UNCHANGED mailboxVars
    PROVE  UidsGrow
BY DEF UidsGrow, mailboxVars

(* A step on one connection that leaves the session where it is.           *)
LEMMA WireStep ==
    ASSUME WireInv, UidsGrow, NEW k \in 1..Len(conns), NEW s, Becomes(k, s),
           s.up => conns[k].up, FlightOK(s, calls + 1),
           UNCHANGED <<session, calls>>,
           \A c \in Callers : pc'[c] = "ensure" =>
              pc[c] = "ensure" /\ Below(s, calls),
           \A c \in Callers : pc'[c] \in {"probe", "relock", "send", "read"} =>
              session # NoConnection
    PROVE  WireInv'
<1>1. ConnTypes'
    BY DEF Becomes, ConnTypes
<1>2. ConnInv'
    BY DEF WireInv, ConnInv, Becomes
<1>3. FlightInv'
    BY StaysAssigned DEF WireInv, FlightInv, Becomes, FlightOK
<1> QED
    BY <1>1, <1>2, <1>3 DEF WireInv

LEMMA WireKept ==
    ASSUME WireInv, UidsGrow, UNCHANGED <<session, conns, calls>>,
           \A c \in Callers : pc'[c] = "ensure" => pc[c] = "ensure",
           \A c \in Callers : pc'[c] \in {"probe", "relock", "send", "read"} =>
              session # NoConnection
    PROVE  WireInv'
<1>1. ConnTypes'
    BY DEF WireInv, ConnTypes
<1>2. ConnInv'
    BY DEF WireInv, ConnInv
<1>3. FlightInv'
    BY StaysAssigned DEF WireInv, FlightInv, Below
<1> QED
    BY <1>1, <1>2, <1>3 DEF WireInv

LEMMA FlightIs ==
    ASSUME WireInv, NEW k \in 1..Len(conns)
    PROVE  /\ FlightOK(conns[k], calls + 1)
           /\ \A c \in Callers : pc[c] = "ensure" => Below(conns[k], calls)
           /\ conns[k].up => k = session
BY DEF WireInv, ConnInv, FlightInv, FlightOK

(* Sequences.                                                              *)

LEMMA TailElements ==
    ASSUME NEW S, NEW q \in Seq(S), q # <<>>
    PROVE  /\ Head(q) = q[1] /\ Head(q) \in S /\ Tail(q) \in Seq(S)
           /\ Len(Tail(q)) = Len(q) - 1 /\ Len(q) \in Nat \ {0}
           /\ \A i \in 1..Len(Tail(q)) : Tail(q)[i] = q[i + 1] /\ i + 1 \in 1..Len(q)
OBVIOUS

LEMMA AppendElements ==
    ASSUME NEW S, NEW q \in Seq(S), NEW e \in S
    PROVE  /\ Append(q, e) \in Seq(S) /\ Len(Append(q, e)) = Len(q) + 1
           /\ \A i \in 1..Len(q) : Append(q, e)[i] = q[i]
           /\ Append(q, e)[Len(q) + 1] = e
           /\ \A i \in 1..Len(Append(q, e)) :
                 i \in 1..Len(q) \/ i = Len(q) + 1
OBVIOUS

LEMMA ConcatElements ==
    ASSUME NEW S, NEW q \in Seq(S), NEW r \in Seq(S)
    PROVE  /\ q \o r \in Seq(S) /\ Len(q \o r) = Len(q) + Len(r)
           /\ \A i \in 1..Len(q) : (q \o r)[i] = q[i]
           /\ \A i \in 1..Len(q \o r) : i \notin 1..Len(q) =>
                 i - Len(q) \in 1..Len(r) /\ (q \o r)[i] = r[i - Len(q)]
OBVIOUS

-----------------------------------------------------------------------------
(* What a step makes of a connection.                                      *)

Written(s, m) == [up |-> s.up, out |-> Append(s.out, m), in |-> s.in,
                  awaiting |-> s.awaiting]

Read(s) == [up |-> s.up, out |-> s.out, in |-> Tail(s.in),
            awaiting |-> s.awaiting]

Replied(s, answers) == [up |-> s.up, out |-> Tail(s.out),
                        in |-> s.in \o answers, awaiting |-> s.awaiting]

Switched(s, a, w) == [up |-> s.up, out |-> Tail(s.out),
                      in |-> Append(s.in, a), awaiting |-> w]

Closed(s) == [up |-> FALSE, out |-> s.out, in |-> s.in,
              awaiting |-> s.awaiting]

Broken == [up |-> FALSE, out |-> <<>>, in |-> <<>>, awaiting |-> {}]

LEMMA UpdateOut ==
    ASSUME NEW s \in Conns, NEW x
    PROVE  [s EXCEPT !.out = x] = [up |-> s.up, out |-> x, in |-> s.in,
                                   awaiting |-> s.awaiting]
BY DEF Conns

LEMMA UpdateIn ==
    ASSUME NEW s \in Conns, NEW x
    PROVE  [s EXCEPT !.in = x] = [up |-> s.up, out |-> s.out, in |-> x,
                                  awaiting |-> s.awaiting]
BY DEF Conns

LEMMA UpdateAwaiting ==
    ASSUME NEW s \in Conns, NEW x
    PROVE  [s EXCEPT !.awaiting = x] = [up |-> s.up, out |-> s.out,
                                        in |-> s.in, awaiting |-> x]
BY DEF Conns

LEMMA UpdateUp ==
    ASSUME NEW s \in Conns, NEW x
    PROVE  [s EXCEPT !.up = x] = [up |-> x, out |-> s.out, in |-> s.in,
                                  awaiting |-> s.awaiting]
BY DEF Conns

LEMMA RecordUpdates ==
    ASSUME NEW u, NEW o, NEW n, NEW a, NEW x, NEW s,
           s = [up |-> u, out |-> o, in |-> n, awaiting |-> a]
    PROVE  /\ [s EXCEPT !.out = x] =
                 [up |-> u, out |-> x, in |-> n, awaiting |-> a]
           /\ [s EXCEPT !.in = x] =
                 [up |-> u, out |-> o, in |-> x, awaiting |-> a]
           /\ [s EXCEPT !.awaiting = x] =
                 [up |-> u, out |-> o, in |-> n, awaiting |-> x]
OBVIOUS


LEMMA WriteEffect ==
    ASSUME WireInv, ControlInv, session # NoConnection, NEW c \in Callers,
           pc[c] # "idle", NEW cmd \in Commands,
           cmd = "APPEND" => call[c].op = "create",
           cmd = "STORE" => Assigned(call[c].uid),
           Write(c, cmd)
    PROVE  /\ Becomes(session, Written(conns[session], Message(c, cmd)))
           /\ FlightOK(Written(conns[session], Message(c, cmd)), calls + 1)
           /\ session \in 1..Len(conns)
<1> DEFINE s == conns[session]
           m == Message(c, cmd)
<1>1. session \in 1..Len(conns)
    BY DEF WireInv, ConnTypes, ConnInv, NoConnection
<1>2. /\ s \in Conns /\ s.up \in BOOLEAN /\ s.out \in Seq(Messages)
      /\ s.in \in Seq(Answers) /\ s.awaiting \in SUBSET Messages
      /\ DOMAIN conns = 1..Len(conns)
    BY <1>1, ConnFields DEF WireInv
<1>3. /\ m \in Messages /\ m.id = calls /\ m.cmd = cmd
      /\ m.cmd = "APPEND" => m.subject \in Subjects
      /\ m.cmd = "STORE" => Assigned(m.uid)
    BY MessageType DEF ControlInv, CallInv
<1> HIDE DEF m
<1>4. Written(s, m) \in Conns
    BY <1>2, <1>3, AppendElements DEF Written, Conns
<1>5. [s EXCEPT !.out = Append(@, m)] = Written(s, m)
    BY <1>2, UpdateOut DEF Written
<1>6. conns' = [conns EXCEPT ![session] = Written(s, m)]
    BY <1>1, <1>2, <1>5 DEF Write, m
<1>7. FlightOK(s, calls + 1) /\ calls \in Nat
    BY <1>1, FlightIs DEF ControlInv, CallerTypes
<1> HIDE DEF s
<1>8. FlightOK(Written(s, m), calls + 1)
    BY <1>2, <1>3, <1>7, AppendElements DEF Written, FlightOK, Below
<1> QED
    BY <1>1, <1>4, <1>6, <1>8, ConnBecomes DEF WireInv, s, m

LEMMA ConsumeEffect ==
    ASSUME WireInv, ControlInv, session # NoConnection, Arrived, Consume
    PROVE  /\ Becomes(session, Read(conns[session]))
           /\ FlightOK(Read(conns[session]), calls + 1)
           /\ session \in 1..Len(conns)
<1> DEFINE s == conns[session]
<1>1. session \in 1..Len(conns)
    BY DEF WireInv, ConnTypes, ConnInv, NoConnection
<1>2. /\ s \in Conns /\ s.up \in BOOLEAN /\ s.out \in Seq(Messages)
      /\ s.in \in Seq(Answers) /\ s.awaiting \in SUBSET Messages
      /\ DOMAIN conns = 1..Len(conns)
    BY <1>1, ConnFields DEF WireInv
<1>3. s.in # <<>>
    BY DEF Arrived
<1>4. Read(s) \in Conns
    BY <1>2, <1>3, TailElements DEF Read, Conns
<1>5. [s EXCEPT !.in = Tail(@)] = Read(s)
    BY <1>2, UpdateIn DEF Read
<1>6. conns' = [conns EXCEPT ![session] = Read(s)]
    BY <1>1, <1>2, <1>5 DEF Consume
<1>7. FlightOK(s, calls + 1) /\ calls \in Nat
    BY <1>1, FlightIs DEF ControlInv, CallerTypes
<1> HIDE DEF s
<1>8. FlightOK(Read(s), calls + 1)
    BY <1>2, <1>3, <1>7, TailElements DEF Read, FlightOK, Below
<1> QED
    BY <1>1, <1>4, <1>6, <1>8, ConnBecomes DEF WireInv, s

(* What a server's step leaves on the wire is of the calls that were there.*)
Keeps(s, t) ==
    /\ FlightOK(t, calls + 1)
    /\ \A id \in Nat : Below(s, id) => Below(t, id)
    /\ t.up => s.up

Of(x, q) == \E j \in 1..Len(q) : x = q[j]

LEMMA KeepsIds ==
    ASSUME NEW s, NEW t, FlightOK(s, calls + 1), t.up => s.up,
           \A i \in 1..Len(t.out) : Of(t.out[i], s.out),
           NEW id, Of(id, s.out) \/ id \in s.awaiting,
           \A i \in 1..Len(t.in) : Of(t.in[i], s.in) \/ t.in[i].id = id.id,
           \A m \in t.awaiting :
              m \in s.awaiting \/ (m.cmd = "APPEND" /\ Of(m, s.out))
    PROVE  Keeps(s, t)
<1>1. ASSUME NEW n \in Nat, Below(s, n)
      PROVE  Below(t, n)
  <2>1. \A x : Of(x, s.out) \/ Of(x, s.in) \/ x \in s.awaiting => x.id < n
      BY ONLY <1>1 DEF Below, Of
  <2>2. id.id < n
      BY ONLY <2>1, Of(id, s.out) \/ id \in s.awaiting
  <2>3. \A i \in 1..Len(t.out) : t.out[i].id < n
      BY ONLY <2>1, \A i \in 1..Len(t.out) : Of(t.out[i], s.out)
  <2>4. \A i \in 1..Len(t.in) : t.in[i].id < n
    <3> SUFFICES ASSUME NEW i \in 1..Len(t.in)
                 PROVE  t.in[i].id < n
        OBVIOUS
    <3>1. Of(t.in[i], s.in) \/ t.in[i].id = id.id
        OBVIOUS
    <3> QED
        BY ONLY <2>1, <2>2, <3>1
  <2>5. \A m \in t.awaiting : m.id < n
      BY ONLY <2>1, \A m \in t.awaiting :
                       m \in s.awaiting \/ (m.cmd = "APPEND" /\ Of(m, s.out))
  <2> QED
      BY ONLY <2>3, <2>4, <2>5 DEF Below
<1>2. Below(t, calls + 1)
    BY DEF FlightOK, Below, Of
<1>3. \A i \in 1..Len(t.out) :
         /\ t.out[i].cmd = "APPEND" => t.out[i].subject \in Subjects
         /\ t.out[i].cmd = "STORE" => Assigned(t.out[i].uid)
    BY DEF FlightOK, Of
<1>4. \A m \in t.awaiting : m.cmd = "APPEND" /\ m.subject \in Subjects
    BY DEF FlightOK, Of
<1> QED
    BY <1>1, <1>2, <1>3, <1>4 DEF Keeps, FlightOK

LEMMA TailOf ==
    ASSUME NEW S, NEW q \in Seq(S), q # <<>>
    PROVE  /\ Of(Head(q), q) /\ Tail(q) \in Seq(S)
           /\ \A i \in 1..Len(Tail(q)) : Of(Tail(q)[i], q)
BY TailElements DEF Of

LEMMA AppendOf ==
    ASSUME NEW S, NEW q \in Seq(S), NEW e \in S
    PROVE  /\ Append(q, e) \in Seq(S)
           /\ \A i \in 1..Len(Append(q, e)) :
                 Of(Append(q, e)[i], q) \/ Append(q, e)[i] = e
BY AppendElements DEF Of

LEMMA ConcatOf ==
    ASSUME NEW S, NEW q \in Seq(S), NEW r \in Seq(S)
    PROVE  /\ q \o r \in Seq(S)
           /\ \A i \in 1..Len(q \o r) :
                 Of((q \o r)[i], q) \/ Of((q \o r)[i], r)
BY ConcatElements DEF Of

LEMMA ReplyEffect ==
    ASSUME WireInv, ControlInv, NEW k \in 1..Len(conns),
           conns[k].out # <<>>, NEW answers \in Seq(Answers),
           \A i \in 1..Len(answers) : answers[i].id = Head(conns[k].out).id,
           Reply(k, answers)
    PROVE  /\ Becomes(k, Replied(conns[k], answers))
           /\ Keeps(conns[k], Replied(conns[k], answers))
<1> DEFINE s == conns[k]
           s1 == [up |-> s.up, out |-> Tail(s.out), in |-> s.in,
                  awaiting |-> s.awaiting]
           c1 == [conns EXCEPT ![k] = s1]
<1>2. /\ s \in Conns /\ s.up \in BOOLEAN /\ s.out \in Seq(Messages)
      /\ s.in \in Seq(Answers) /\ s.awaiting \in SUBSET Messages
      /\ DOMAIN conns = 1..Len(conns)
    BY ConnFields DEF WireInv
<1>3. s1 \in Conns
    BY <1>2, TailElements DEF Conns
<1>4. [s EXCEPT !.out = Tail(@)] = s1
    BY <1>2, UpdateOut
<1>5. [s1 EXCEPT !.in = @ \o answers] = Replied(s, answers)
    BY <1>3, UpdateIn DEF Replied
<1> HIDE DEF s1
<1>6. conns' = [c1 EXCEPT ![k] = [s1 EXCEPT !.in = @ \o answers]]
    BY <1>2, <1>4 DEF Reply
<1>7. conns' = [conns EXCEPT ![k] = Replied(s, answers)]
    BY <1>2, <1>5, <1>6
<1>8. FlightOK(s, calls + 1) /\ calls \in Nat
    BY FlightIs DEF ControlInv, CallerTypes
<1> HIDE DEF s
<1>9. Replied(s, answers) \in Conns
    BY <1>2, TailOf, ConcatOf DEF Replied, Conns, s
<1>10. /\ Of(Head(s.out), s.out)
       /\ \A i \in 1..Len(Tail(s.out)) : Of(Tail(s.out)[i], s.out)
    BY <1>2, TailOf DEF s
<1>11. \A i \in 1..Len(s.in \o answers) :
          Of((s.in \o answers)[i], s.in) \/ (s.in \o answers)[i].id = Head(s.out).id
    BY <1>2, ConcatOf DEF s, Of
<1> DEFINE t == Replied(s, answers)
<1>12. /\ t.out = Tail(s.out) /\ t.in = s.in \o answers
       /\ t.awaiting = s.awaiting /\ t.up = s.up
    BY DEF Replied
<1> HIDE DEF t
<1>13. /\ \A i \in 1..Len(t.out) : Of(t.out[i], s.out)
       /\ \A i \in 1..Len(t.in) : Of(t.in[i], s.in) \/ t.in[i].id = Head(s.out).id
       /\ \A m \in t.awaiting :
             m \in s.awaiting \/ (m.cmd = "APPEND" /\ Of(m, s.out))
    BY <1>10, <1>11, <1>12
<1>14. Keeps(s, t)
    BY <1>8, <1>10, <1>12, <1>13, KeepsIds
<1> QED
    BY <1>7, <1>9, <1>14, ConnBecomes DEF WireInv, s, t

Switches(k, a, w) ==
    \/ conns' = [conns EXCEPT ![k].out = Tail(@), ![k].in = Append(@, a),
                              ![k].awaiting = w]
    \/ conns' = [conns EXCEPT ![k].out = Tail(@), ![k].awaiting = w,
                              ![k].in = Append(@, a)]

LEMMA SwitchForm ==
    ASSUME NEW k \in DOMAIN conns, NEW a, NEW w, Switches(k, a, w),
           conns[k] = [up |-> conns[k].up, out |-> conns[k].out,
                       in |-> conns[k].in, awaiting |-> conns[k].awaiting]
    PROVE  conns' = [conns EXCEPT ![k] = Switched(conns[k], a, w)]
<1> DEFINE s == conns[k]
           u == s.up
           o == s.out
           n == s.in
           v == s.awaiting
           x == Tail(o)
           y == Append(n, a)
           s1 == [up |-> u, out |-> x, in |-> n, awaiting |-> v]
           s2 == [up |-> u, out |-> x, in |-> y, awaiting |-> v]
           s3 == [up |-> u, out |-> x, in |-> n, awaiting |-> w]
           s4 == [up |-> u, out |-> x, in |-> y, awaiting |-> w]
<1>1. \/ conns' = [conns EXCEPT ![k].out = x, ![k].in = y, ![k].awaiting = w]
      \/ conns' = [conns EXCEPT ![k].out = x, ![k].awaiting = w, ![k].in = y]
    BY DEF Switches
<1>2. /\ conns[k] = s /\ s4 = Switched(conns[k], a, w)
      /\ s = [up |-> u, out |-> o, in |-> n, awaiting |-> v]
    BY DEF Switched
<1> HIDE DEF s, u, o, n, v, x, y
<1>3. [s EXCEPT !.out = x] = s1
    BY <1>2, RecordUpdates
<1>4. [s1 EXCEPT !.in = y] = s2 /\ [s1 EXCEPT !.awaiting = w] = s3
  <2> DEFINE r == s1
  <2>1. r = s1
      OBVIOUS
  <2> HIDE DEF r
  <2>2. [r EXCEPT !.in = y] = s2 /\ [r EXCEPT !.awaiting = w] = s3
      BY <2>1, RecordUpdates
  <2> QED
      BY <2>1, <2>2
<1>5. [s2 EXCEPT !.awaiting = w] = s4
  <2> DEFINE r == s2
  <2>1. r = s2
      OBVIOUS
  <2> HIDE DEF r
  <2>2. [r EXCEPT !.awaiting = w] = s4
      BY <2>1, RecordUpdates
  <2> QED
      BY <2>1, <2>2
<1>6. [s3 EXCEPT !.in = y] = s4
  <2> DEFINE r == s3
  <2>1. r = s3
      OBVIOUS
  <2> HIDE DEF r
  <2>2. [r EXCEPT !.in = y] = s4
      BY <2>1, RecordUpdates
  <2> QED
      BY <2>1, <2>2
<1> HIDE DEF s1, s2, s3, s4
<1> DEFINE f1 == [conns EXCEPT ![k] = s1]
           f2 == [conns EXCEPT ![k] = s2]
           f3 == [conns EXCEPT ![k] = s3]
<1>7. /\ f1[k] = s1 /\ f2[k] = s2 /\ f3[k] = s3
      /\ k \in DOMAIN f1 /\ k \in DOMAIN f2 /\ k \in DOMAIN f3
    OBVIOUS
<1>8. /\ f2 = [f1 EXCEPT ![k] = s2] /\ f3 = [f1 EXCEPT ![k] = s3]
      /\ [conns EXCEPT ![k] = s4] = [f2 EXCEPT ![k] = s4]
      /\ [conns EXCEPT ![k] = s4] = [f3 EXCEPT ![k] = s4]
    OBVIOUS
<1>9. f1 = [conns EXCEPT ![k].out = x]
    BY <1>2, <1>3
<1> HIDE DEF f1, f2, f3
<1>10. f2 = [f1 EXCEPT ![k].in = y] /\ f3 = [f1 EXCEPT ![k].awaiting = w]
    BY <1>4, <1>7, <1>8
<1>11. /\ [conns EXCEPT ![k] = s4] = [f2 EXCEPT ![k].awaiting = w]
      /\ [conns EXCEPT ![k] = s4] = [f3 EXCEPT ![k].in = y]
    BY <1>5, <1>6, <1>7, <1>8
<1> QED
    BY <1>1, <1>2, <1>9, <1>10, <1>11

LEMMA SwitchEffect ==
    ASSUME WireInv, ControlInv, NEW k \in 1..Len(conns),
           conns[k].out # <<>>, NEW a \in Answers, NEW w \in SUBSET Messages,
           a.id = Head(conns[k].out).id \/ \E m \in conns[k].awaiting : a.id = m.id,
           \A m \in w : m = Head(conns[k].out) /\ m.cmd = "APPEND",
           Switches(k, a, w)
    PROVE  /\ Becomes(k, Switched(conns[k], a, w))
           /\ Keeps(conns[k], Switched(conns[k], a, w))
<1> DEFINE s == conns[k]
<1>2. /\ s \in Conns /\ s.up \in BOOLEAN /\ s.out \in Seq(Messages)
      /\ s.in \in Seq(Answers) /\ s.awaiting \in SUBSET Messages
      /\ DOMAIN conns = 1..Len(conns)
      /\ s = [up |-> s.up, out |-> s.out, in |-> s.in, awaiting |-> s.awaiting]
    BY ConnFields DEF WireInv
<1>8. conns' = [conns EXCEPT ![k] = Switched(s, a, w)]
    BY <1>2, SwitchForm
<1>9. FlightOK(s, calls + 1) /\ calls \in Nat
    BY FlightIs DEF ControlInv, CallerTypes
<1>10. Switched(s, a, w) \in Conns
    BY <1>2, TailOf, AppendOf DEF Switched, Conns
<1>11. /\ Of(Head(s.out), s.out)
       /\ \A i \in 1..Len(Tail(s.out)) : Of(Tail(s.out)[i], s.out)
       /\ \A i \in 1..Len(Append(s.in, a)) :
             Of(Append(s.in, a)[i], s.in) \/ Append(s.in, a)[i] = a
    BY <1>2, TailOf, AppendOf
<1> DEFINE t == Switched(s, a, w)
<1>12. /\ t.out = Tail(s.out) /\ t.in = Append(s.in, a)
       /\ t.awaiting = w /\ t.up = s.up
    BY DEF Switched
<1>13. PICK m : (Of(m, s.out) \/ m \in s.awaiting) /\ a.id = m.id
    BY <1>11
<1> HIDE DEF s, t
<1>14. /\ \A i \in 1..Len(t.out) : Of(t.out[i], s.out)
       /\ \A i \in 1..Len(t.in) : Of(t.in[i], s.in) \/ t.in[i].id = m.id
       /\ \A n \in t.awaiting :
             n \in s.awaiting \/ (n.cmd = "APPEND" /\ Of(n, s.out))
    BY <1>11, <1>12, <1>13 DEF s
<1>15. Keeps(s, t)
    BY <1>9, <1>12, <1>13, <1>14, KeepsIds
<1> QED
    BY <1>8, <1>10, <1>15, ConnBecomes DEF WireInv, s, t

LEMMA LostEffect ==
    ASSUME WireInv, ControlInv, NEW k \in 1..Len(conns),
           NEW t \in {Closed(conns[k]), Broken},
           conns' = [conns EXCEPT ![k] = t]
    PROVE  Becomes(k, t) /\ Keeps(conns[k], t)
<1> DEFINE s == conns[k]
<1>1. /\ s \in Conns /\ s.up \in BOOLEAN /\ s.out \in Seq(Messages)
      /\ s.in \in Seq(Answers) /\ s.awaiting \in SUBSET Messages
    BY ConnFields DEF WireInv
<1>2. FlightOK(s, calls + 1)
    BY FlightIs
<1> HIDE DEF s
<1>3. Closed(s) \in Conns /\ Keeps(s, Closed(s))
    BY <1>1, <1>2 DEF Closed, Conns, Keeps, FlightOK, Below
<1>4. Broken \in Conns /\ Keeps(s, Broken)
    BY DEF Broken, Conns, Keeps, FlightOK, Below
<1> QED
    BY <1>3, <1>4, ConnBecomes DEF s, WireInv

-----------------------------------------------------------------------------
(* The callers' steps.                                                     *)

(* Only the session's connection and the caller that runs matter.          *)
LEMMA TalkOf ==
    ASSUME NEW c \in Callers, \A x \in Callers \ {c} : pc'[x] = "idle",
           NEW s, conns'[session'] = s,
           pc'[c] = "probe" => Probing(s)',
           pc'[c] \in {"relock", "send", "read"} => Talking(c, s)'
    PROVE  TalkInv'
BY DEF TalkInv

(* A call keeps its arguments.                                             *)
SameUid ==
    \A c \in Callers : call'[c].op = "delete" =>
        call[c].op = "delete" /\ call'[c].uid = call[c].uid

LEMMA SameCalls ==
    ASSUME UNCHANGED call \/ UNCHANGED callerVars
    PROVE  SameUid
BY DEF SameUid, callerVars

LEMMA AnswerKept ==
    ASSUME AnswerInv, UidsGrow, UNCHANGED answer,
           born \subseteq born', late \subseteq late',
           \A d \in drafts' : d.uid = nextUid \/ \E e \in drafts : e.uid = d.uid
    PROVE  AnswerInv'
<1>1. answer.op = "delete" => Assigned(answer.uid) /\ Assigned(answer.uid)'
    BY StaysAssigned DEF AnswerInv
<1>2. ASSUME answer.op = "delete", ~answer.ignored,
             NEW d \in drafts', d.uid = answer.uid
      PROVE  FALSE
  <2>1. \A e \in drafts : e.uid # answer.uid
      BY <1>2 DEF AnswerInv, RightAnswer, DraftsWithUid
  <2>2. answer.uid = nextUid /\ answer.uid \in 0..(nextUid - 1)
      BY <1>1, <1>2, <2>1 DEF Assigned
  <2>3. nextUid \in Nat \/ UNCHANGED nextUid
      BY DEF UidsGrow
  <2> QED
      BY <2>2
<1>3. RightAnswer'
  <2>1. RightAnswer
      BY DEF AnswerInv
  <2>2. answer.op = "delete" /\ ~answer.ignored => DraftsWithUid(answer.uid)' = {}
      BY <1>2 DEF DraftsWithUid
  <2> QED
      BY <2>1, <2>2 DEF RightAnswer
<1> QED
    BY <1>1, <1>3 DEF AnswerInv

LEMMA StoresKept ==
    ASSUME StoreInv, UidsGrow, SameUid, orphans' \subseteq orphans
    PROVE  StoreInv'
BY StaysAssigned DEF StoreInv, SameUid

LEMMA DraftsKept ==
    ASSUME DraftsInv, UNCHANGED <<mailboxVars, lostVars, born, answer>>, SameUid
    PROVE  DraftsInv'
<1>1. StoreInv'
    BY StoresKept, SameUids DEF DraftsInv, lostVars
<1>2. AnswerInv'
    BY DEF DraftsInv, AnswerInv, RightAnswer, Assigned, DraftsWithUid,
           mailboxVars, lostVars
<1> QED
    BY <1>1, <1>2 DEF DraftsInv, MailTypes, MailInv, mailboxVars, lostVars

(* What is left over of a connection is fit to be carried out late.        *)
Fits(m) ==
    /\ m \in Messages
    /\ m.cmd = "STORE" => Assigned(m.uid)
    /\ m.cmd = "APPEND" => m.subject \in Subjects

LEMMA LeftoversFit ==
    ASSUME WireInv, NEW k \in 1..Len(conns), NEW m \in Leftovers(k)
    PROVE  Fits(m)
<1>1. /\ conns[k].out \in Seq(Messages) /\ conns[k].awaiting \in SUBSET Messages
      /\ FlightOK(conns[k], calls + 1)
    BY ConnFields, FlightIs DEF WireInv
<1>2. ASSUME m \in Outgoing(k), m.cmd \in {"STORE", "EXPUNGE"}
      PROVE  Fits(m)
  <2>1. PICK i \in 1..Len(conns[k].out) : m = conns[k].out[i]
      BY <1>1, <1>2 DEF Outgoing
  <2> QED
      BY <1>1, <1>2, <2>1 DEF FlightOK, Fits
<1>3. ASSUME m \in conns[k].awaiting
      PROVE  Fits(m)
    BY <1>1, <1>3 DEF FlightOK, Fits
<1> QED
    BY <1>2, <1>3 DEF Leftovers

LEMMA MoreOrphans ==
    ASSUME DraftsInv, UNCHANGED <<mailboxVars, late, born, answer>>, SameUid,
           \A m \in orphans' : m \in orphans \/ Fits(m)
    PROVE  DraftsInv'
<1>1. \A uid : Assigned(uid)' <=> Assigned(uid)
    BY DEF Assigned, mailboxVars
<1>2. StoreInv'
    BY <1>1 DEF DraftsInv, StoreInv, SameUid, Fits
<1>3. AnswerInv'
    BY <1>1 DEF DraftsInv, AnswerInv, RightAnswer, DraftsWithUid, mailboxVars
<1>4. MailTypes' /\ MailInv'
    BY DEF DraftsInv, MailTypes, MailInv, Fits, mailboxVars
<1> QED
    BY <1>2, <1>3, <1>4 DEF DraftsInv

LEMMA SessionIs ==
    ASSUME WireInv, session # NoConnection
    PROVE  session \in 1..Len(conns)
BY DEF WireInv, ConnTypes, ConnInv, NoConnection

LEMMA LeaveStep ==
    ASSUME IInv, NEW c \in Callers, pc[c] # "idle", Leave(c), AnswerInv',
           UNCHANGED <<mailboxVars, lostVars, session, born, calls>>, faults' \in Nat,
           UNCHANGED conns \/ (Consume /\ Arrived /\ session # NoConnection)
    PROVE  IInv'
<1>1. ControlInv' /\ \A x \in Callers : pc'[x] = "idle"
    BY LeaveControl DEF IInv
<1>2. TalkInv'
    BY <1>1 DEF TalkInv
<1>g. UidsGrow
    BY SameUids
<1>3. DraftsInv'
  <2>1. SameUid
      BY DEF SameUid, Leave, NoCall, IInv, ControlInv, CallerTypes
  <2>2. StoreInv'
      BY <1>g, <2>1, StoresKept DEF IInv, DraftsInv, lostVars
  <2> QED
      BY <2>2 DEF IInv, DraftsInv, MailTypes, MailInv, mailboxVars, lostVars
<1>4. CASE UNCHANGED conns
    BY <1>1, <1>2, <1>3, <1>4, <1>g, WireKept DEF IInv
<1>5. CASE Consume /\ Arrived /\ session # NoConnection
  <2>1. /\ Becomes(session, Read(conns[session]))
        /\ FlightOK(Read(conns[session]), calls + 1)
        /\ session \in 1..Len(conns)
      BY <1>5, ConsumeEffect DEF IInv
  <2>2. Read(conns[session]).up => conns[session].up
      BY DEF Read
  <2>3. WireInv'
      BY <1>1, <1>g, <2>1, <2>2, WireStep DEF IInv
  <2> QED
      BY <1>1, <1>2, <1>3, <2>3 DEF IInv
<1> QED
    BY <1>4, <1>5

(* A call that fails adds no answer.                                       *)
LEMMA FailAnswer ==
    ASSUME IInv, NEW c \in Callers, Fail(c), UNCHANGED <<mailboxVars, lostVars, born>>
    PROVE  AnswerInv' /\ Leave(c)
BY DEF Fail, IInv, DraftsInv, AnswerInv, RightAnswer, Assigned, DraftsWithUid,
       mailboxVars, lostVars

LEMMA FailStep ==
    ASSUME IInv, NEW c \in Callers, pc[c] # "idle", Fail(c),
           UNCHANGED <<mailboxVars, lostVars, session, born, calls>>, faults' \in Nat,
           UNCHANGED conns \/ (Consume /\ Arrived /\ session # NoConnection)
    PROVE  IInv'
<1>1. AnswerInv' /\ Leave(c)
    BY FailAnswer
<1> QED
    BY <1>1, LeaveStep

LEMMA DropStep ==
    ASSUME IInv, NEW c \in Callers, Drop(c)
    PROVE  IInv'
<1>1. faults' \in Nat
    BY DEF Drop, Fault, IInv, ControlInv, CallerTypes
<1> QED
    BY <1>1, FailStep DEF Drop

LEMMA ElementIds ==
    ASSUME NEW s \in Conns
    PROVE  /\ \A j \in 1..Len(s.out) : s.out[j].id \in Nat
           /\ \A j \in 1..Len(s.in) : s.in[j].id \in Nat
           /\ \A m \in s.awaiting : m.id \in Nat
<1>1. /\ s.out \in Seq(Messages) /\ s.in \in Seq(Answers)
      /\ s.awaiting \in SUBSET Messages
    BY DEF Conns
<1>2. \A j \in 1..Len(s.out) : s.out[j] \in Messages
    BY <1>1
<1>3. \A j \in 1..Len(s.in) : s.in[j] \in Answers
    BY <1>1
<1> QED
    BY <1>1, <1>2, <1>3 DEF Messages, Answers

LEMMA CallStep ==
    ASSUME IInv, NEW c \in Callers, NewCall(c)
    PROVE  IInv'
<1>1. PICK op \in {"create", "get", "delete"}, subject \in Subjects \cup {"none"},
           uid \in Nat :
         /\ Call(c, op, subject, uid)
         /\ op = "create" => subject \in Subjects
         /\ op = "delete" => Assigned(uid)
  <2>1. \A uid \in 1..(nextUid - 1) : uid \in Nat /\ Assigned(uid)
      BY DEF IInv, DraftsInv, MailTypes, Assigned
  <2> QED
      BY <2>1 DEF NewCall
<1> DEFINE k1 == [NoCall EXCEPT !.op = op]
           k2 == [k1 EXCEPT !.id = calls + 1]
           k3 == [k2 EXCEPT !.subject = subject]
           k == [k3 EXCEPT !.uid = uid]
<1>2. k \in Calls /\ k.op = op /\ k.id = calls + 1 /\ k.step = 1
      /\ k.hits = {} /\ k.subject = subject /\ k.uid = uid
  <2>0. calls + 1 \in Nat
      BY DEF IInv, ControlInv, CallerTypes
  <2>1. NoCall \in Calls /\ NoCall.step = 1 /\ NoCall.hits = {}
      BY DEF NoCall, Calls
  <2>2. k1 \in Calls /\ k1.op = op /\ k1.step = 1 /\ k1.hits = {}
      BY <2>1 DEF Calls
  <2> HIDE DEF k1
  <2>3. k2 \in Calls /\ k2.op = op /\ k2.step = 1 /\ k2.hits = {}
        /\ k2.id = calls + 1
      BY <2>0, <2>2 DEF Calls
  <2> HIDE DEF k2
  <2>4. k3 \in Calls /\ k3.op = op /\ k3.step = 1 /\ k3.hits = {}
        /\ k3.id = calls + 1 /\ k3.subject = subject
      BY <2>3 DEF Calls
  <2> HIDE DEF k3
  <2> QED
      BY <2>4 DEF Calls
<1>3. /\ call' = [call EXCEPT ![c] = k] /\ pc' = [pc EXCEPT ![c] = "ensure"]
      /\ pipeline' = c /\ pipeline = NoOne /\ calls' = calls + 1 /\ calls \in Nat
      /\ UNCHANGED <<mailboxVars, lostVars, lock, session, conns, born, answer, faults>>
    BY <1>1 DEF Call, CanCall, Goto, IInv, ControlInv, CallerTypes
<1>4. k \in Calls /\ k.op = op /\ k.id = calls' /\ k.step = 1 /\ k.hits = {}
      /\ k.subject = subject /\ k.uid = uid
    BY <1>2, <1>3
<1> HIDE DEF k
<1>5. \A x \in Callers : pc[x] = "idle"
    BY <1>3 DEF IInv, ControlInv, MutexInv
<1>6. /\ pc'[c] = "ensure" /\ call'[c] = k
      /\ \A x \in Callers \ {c} : pc'[x] = "idle" /\ call'[x] = call[x]
    BY <1>3, <1>5 DEF IInv, ControlInv, CallerTypes
<1>7. CallerTypes'
    BY <1>3, <1>4 DEF IInv, ControlInv, CallerTypes
<1>8. MutexInv'
    BY <1>3, <1>5, <1>6 DEF IInv, ControlInv, CallerTypes, MutexInv
<1>9. CallInv'
  <2>1. \A x \in Callers \ {c} : call[x] = NoCall
      BY <1>5 DEF IInv, ControlInv, CallInv
  <2>2. Len(Script[op]) \in Nat \ {0}
      BY Scripts
  <2> QED
      BY <1>1, <1>4, <1>6, <2>1, <2>2 DEF CallInv
<1>10. WireInv'
  <2>g. UidsGrow
      BY <1>3, SameUids
  <2>1. ConnTypes'
      BY <1>3 DEF IInv, WireInv, ConnTypes
  <2>2. ConnInv'
      BY <1>3, <1>6 DEF IInv, WireInv, ConnInv
  <2>3. FlightInv'
    <3>1. \A i \in 1..Len(conns) : Below(conns[i], calls + 1)
        BY DEF IInv, WireInv, FlightInv
    <3>2. \A i \in 1..Len(conns) : Below(conns[i], (calls + 1) + 1)
      <4> SUFFICES ASSUME NEW i \in 1..Len(conns)
                   PROVE  Below(conns[i], (calls + 1) + 1)
          OBVIOUS
      <4>1. Below(conns[i], calls + 1) /\ conns[i] \in Conns
          BY <3>1, ConnFields DEF IInv, WireInv
      <4> QED
          BY <1>3, <4>1, ElementIds DEF Below
    <3> QED
        BY <1>3, <2>g, <3>1, <3>2, StaysAssigned
        DEF IInv, WireInv, FlightInv, Below
  <2> QED
      BY <2>1, <2>2, <2>3 DEF WireInv
<1>11. DraftsInv'
  <2>1. StoreInv'
      BY <1>1, <1>3, <1>4, <1>6
      DEF IInv, DraftsInv, StoreInv, Assigned, mailboxVars, lostVars
  <2>2. AnswerInv'
      BY <1>3 DEF IInv, DraftsInv, AnswerInv, RightAnswer, Assigned,
                  DraftsWithUid, mailboxVars, lostVars
  <2> QED
      BY <1>3, <2>1, <2>2
      DEF IInv, DraftsInv, MailTypes, MailInv, mailboxVars, lostVars
<1>12. TalkInv'
    BY <1>6 DEF TalkInv
<1> QED
    BY <1>7, <1>8, <1>9, <1>10, <1>11, <1>12 DEF IInv, ControlInv

LEMMA EnsureStep ==
    ASSUME IInv, NEW c \in Callers, Ensure(c)
    PROVE  IInv'
<1>1. /\ pc[c] = "ensure" /\ lock' = c /\ call[c].id = calls
      /\ UNCHANGED <<mailboxVars, lostVars, pipeline, session, call, born, answer, calls,
                     faults>>
    BY DEF Ensure, IInv, ControlInv, CallInv
<1>2. CASE session = NoConnection /\ Goto(c, "connect") /\ UNCHANGED conns
  <2>1. /\ ControlInv' /\ pc'[c] = "connect"
        /\ \A x \in Callers \ {c} : pc'[x] = "idle"
      BY <1>1, <1>2, GotoControl DEF IInv
  <2>2. WireInv'
      BY <1>1, <1>2, <2>1, WireKept, SameUids DEF IInv
  <2>3. DraftsInv' /\ TalkInv'
      BY <1>1, <2>1, DraftsKept, SameCalls DEF IInv, TalkInv
  <2> QED
      BY <2>1, <2>2, <2>3 DEF IInv
<1>3. CASE session # NoConnection /\ Goto(c, "probe") /\ Write(c, "NOOP")
  <2>s. PICK s : s = conns[session]
      OBVIOUS
  <2>m. PICK m : m = Message(c, "NOOP")
      OBVIOUS
  <2>t. PICK t : t = Written(s, m)
      OBVIOUS
  <2>1. /\ ControlInv' /\ pc'[c] = "probe"
        /\ \A x \in Callers \ {c} : pc'[x] = "idle"
      BY <1>1, <1>3, GotoControl DEF IInv
  <2>2. Becomes(session, t) /\ FlightOK(t, calls + 1) /\ session \in 1..Len(conns)
      BY <1>1, <1>3, <2>s, <2>m, <2>t, WriteEffect DEF IInv, Commands
  <2>3. t.up = s.up /\ t.out = Append(s.out, m) /\ t.in = s.in
        /\ t.awaiting = s.awaiting
      BY <2>t DEF Written
  <2>4. WireInv'
      BY <1>1, <1>3, <2>1, <2>2, <2>3, <2>s, WireStep, SameUids DEF IInv
  <2>5. Below(s, calls) /\ s \in Conns /\ calls \in Nat
      BY <1>1, <2>2, <2>s, FlightIs, ConnFields
      DEF IInv, WireInv, ControlInv, CallerTypes
  <2>6. m \in Messages /\ m.id = calls /\ m.cmd = "NOOP"
      BY <1>1, <2>m, MessageType DEF IInv, Commands
  <2>7. \A i \in 1..Len(t.out) :
           \/ i = Len(t.out) /\ t.out[i] = m
           \/ t.out[i].id < calls
      BY <2>3, <2>5, <2>6, AppendElements DEF Below, Conns
  <2>8. Probing(t)
      BY <2>3, <2>5, <2>6, <2>7, ElementIds DEF Probing, Below
  <2>9. Probing(t)'
      BY <1>1, <2>8 DEF Probing
  <2>10. TalkInv'
      BY <1>1, <2>1, <2>2, <2>9, TalkOf DEF Becomes
  <2> QED
      BY <1>1, <2>1, <2>4, <2>10, DraftsKept, SameCalls DEF IInv
<1> QED
    BY <1>2, <1>3 DEF Ensure

LEMMA ProbeStep ==
    ASSUME IInv, NEW c \in Callers, Probe(c)
    PROVE  IInv'
<1>1. /\ pc[c] = "probe" /\ call[c].id = calls /\ call[c].step = 1
      /\ call[c].hits = {} /\ lock = c /\ session # NoConnection
      /\ Probing(conns[session])
      /\ UNCHANGED <<mailboxVars, lostVars, pipeline, session, call, born, answer, calls,
                     faults>>
    BY DEF Probe, IInv, ControlInv, CallInv, MutexInv, WireInv, ConnInv, TalkInv
<1>2. \A x \in Callers \ {c} : pc[x] = "idle"
    BY <1>1, Alone DEF IInv
<1>3. DraftsInv'
    BY <1>1, DraftsKept, SameCalls DEF IInv
<1>4. CASE AtEnd /\ Goto(c, "connect") /\ UNCHANGED <<lock, conns>>
  <2>1. /\ ControlInv' /\ pc'[c] = "connect"
        /\ \A x \in Callers \ {c} : pc'[x] = "idle"
      BY <1>1, <1>4, GotoControl DEF IInv
  <2>2. WireInv'
      BY <1>1, <1>4, <2>1, WireKept, SameUids DEF IInv
  <2>3. TalkInv'
      BY <2>1 DEF TalkInv
  <2> QED
      BY <1>3, <2>1, <2>2, <2>3 DEF IInv
<1>5. CASE Arrived /\ Consume
  <2>s. PICK s : s = conns[session]
      OBVIOUS
  <2>t. PICK t : t = Read(s)
      OBVIOUS
  <2>1. /\ Becomes(session, t) /\ FlightOK(t, calls + 1)
        /\ session \in 1..Len(conns) /\ s \in Conns
      BY <1>1, <1>5, <2>s, <2>t, ConsumeEffect, ConnFields DEF IInv, WireInv
  <2>2. /\ t.up = s.up /\ t.out = s.out /\ t.in = Tail(s.in)
        /\ t.awaiting = s.awaiting
      BY <2>t DEF Read
  <2>3. s.in # <<>> /\ s.in \in Seq(Answers) /\ NextAnswer = s.in[1]
        /\ Len(s.in) \in Nat \ {0}
      BY <1>5, <2>1, <2>s DEF Arrived, NextAnswer, Conns
  <2>4. ASSUME \A x \in Callers : pc'[x] # "ensure"
        PROVE  WireInv'
      BY <1>1, <2>1, <2>2, <2>4, <2>s, WireStep, SameUids DEF IInv
  <2>5. CASE NextAnswer.kind = "no" /\ Goto(c, "connect") /\ UNCHANGED lock
    <3>1. /\ ControlInv' /\ pc'[c] = "connect"
          /\ \A x \in Callers \ {c} : pc'[x] = "idle"
        BY <1>1, <2>5, GotoControl DEF IInv
    <3>2. WireInv' /\ TalkInv'
        BY <2>4, <3>1 DEF TalkInv
    <3> QED
        BY <1>3, <3>1, <3>2 DEF IInv
  <2>6. CASE /\ Completes(c, NextAnswer, "NOOP")
             /\ Goto(c, "relock") /\ Unlock
    <3>1. /\ ControlInv' /\ pc'[c] = "relock"
          /\ \A x \in Callers \ {c} : pc'[x] = "idle"
        BY <1>1, <2>6, GotoControl DEF IInv, Unlock
    <3>2. WireInv'
        BY <2>4, <3>1
    <3>3. Len(s.in) = 1 /\ s.out = <<>> /\ s.awaiting = {}
      <4>1. 1 \in 1..Len(s.in) /\ s.in[1].id = calls /\ Probing(s)
          BY <1>1, <2>3, <2>6, <2>s DEF Completes
      <4> QED
          BY <4>1 DEF Probing
    <3>4. t.in = <<>> /\ t.out = <<>> /\ t.awaiting = {}
        BY <2>2, <2>3, <3>3, TailOfOne
    <3>5. Expected(c) = {}
        BY <1>1, CommandIs DEF IInv, Expected
    <3>6. Ready2Talk(c, t)'
        BY <1>1, <3>4, <3>5 DEF Ready2Talk, Expected, Command, Message
    <3>7. Talking(c, t)'
        BY <3>1, <3>4, <3>6 DEF Talking
    <3>8. TalkInv'
        BY <1>1, <2>1, <3>1, <3>7, TalkOf DEF Becomes
    <3> QED
        BY <1>3, <3>1, <3>2, <3>8 DEF IInv
  <2>7. CASE UNCHANGED <<pc, lock>>
    <3>1. ControlInv'
        BY <1>1, <2>7, ControlKept DEF IInv, ControlInv, CallerTypes, callerVars
    <3>2. /\ pc'[c] = "probe" /\ \A x \in Callers \ {c} : pc'[x] = "idle"
        BY <1>1, <1>2, <2>7
    <3>3. WireInv'
        BY <2>4, <3>2
    <3>4. /\ Len(t.in) = Len(s.in) - 1
          /\ \A i \in 1..Len(t.in) : t.in[i] = s.in[i + 1] /\ i + 1 \in 1..Len(s.in)
        BY <2>2, <2>3, TailElements
    <3>5. Probing(s)
        BY <1>1, <2>s
    <3>6. Probing(t)
        BY <2>2, <2>3, <3>4, <3>5 DEF Probing
    <3>7. Probing(t)'
        BY <1>1, <3>6 DEF Probing
    <3>8. TalkInv'
        BY <1>1, <2>1, <3>2, <3>7, TalkOf DEF Becomes
    <3> QED
        BY <1>3, <3>1, <3>3, <3>8 DEF IInv
  <2> QED
      BY <1>5, <2>5, <2>6, <2>7 DEF Probe, AtEnd
<1> QED
    BY <1>4, <1>5 DEF Probe

LEMMA ConnectStep ==
    ASSUME IInv, NEW c \in Callers, Connect(c)
    PROVE  IInv'
<1>1. /\ pc[c] = "connect" /\ call[c].id = calls /\ call[c].step = 1
      /\ call[c].hits = {} /\ lock' = NoOne
      /\ Goto(c, "relock") /\ session' = Len(conns) + 1 /\ session = Len(conns)
      /\ orphans' = orphans \cup
                      UNION {Leftovers(k) : k \in {j \in DOMAIN conns : conns[j].up}}
      /\ UNCHANGED <<mailboxVars, late, pipeline, call, born, answer, calls, faults>>
    BY DEF Connect, Unlock, IInv, ControlInv, CallInv, WireInv, ConnInv
<1>2. /\ ControlInv' /\ pc'[c] = "relock"
      /\ \A x \in Callers \ {c} : pc'[x] = "idle"
    BY <1>1, GotoControl DEF IInv
<1>3. DraftsInv'
  <2>1. \A k \in DOMAIN conns : \A m \in Leftovers(k) : Fits(m)
      BY LeftoversFit DEF IInv, WireInv, ConnTypes
  <2>2. \A m \in orphans' : m \in orphans \/ Fits(m)
      BY <1>1, <2>1
  <2> QED
      BY <1>1, <2>2, MoreOrphans, SameCalls DEF IInv
<1>u. \A uid : Assigned(uid)' <=> Assigned(uid)
    BY <1>1 DEF Assigned, mailboxVars
<1>f. PICK f : f = [k \in 1..Len(conns) |-> [conns[k] EXCEPT !.up = FALSE]]
    OBVIOUS
<1>4. /\ f \in Seq(Conns) /\ Len(f) = Len(conns) /\ conns' = Append(f, FreshConnection)
      /\ \A k \in 1..Len(conns) :
            /\ f[k].out = conns[k].out /\ f[k].in = conns[k].in
            /\ f[k].awaiting = conns[k].awaiting /\ f[k].up = FALSE
  <2>1. Len(conns) \in Nat /\ DOMAIN conns = 1..Len(conns)
      BY DEF IInv, WireInv, ConnTypes
  <2>2. \A k \in 1..Len(conns) :
           /\ f[k] \in Conns
           /\ f[k].out = conns[k].out /\ f[k].in = conns[k].in
           /\ f[k].awaiting = conns[k].awaiting /\ f[k].up = FALSE
    <3> SUFFICES ASSUME NEW k \in 1..Len(conns)
                 PROVE  /\ f[k] \in Conns
                        /\ f[k].out = conns[k].out /\ f[k].in = conns[k].in
                        /\ f[k].awaiting = conns[k].awaiting /\ f[k].up = FALSE
        OBVIOUS
    <3>s. PICK s : s = conns[k]
        OBVIOUS
    <3>1. s \in Conns /\ f[k] = [s EXCEPT !.up = FALSE]
        BY <3>s, <1>f, ConnFields DEF IInv, WireInv
    <3> QED
        BY <3>s, <3>1 DEF Conns
  <2>3. f \in Seq(Conns) /\ Len(f) = Len(conns)
      BY <1>f, <2>1, <2>2
  <2> QED
      BY <1>f, <2>1, <2>2, <2>3 DEF Connect
<1>g. PICK g : g = FreshConnection
    OBVIOUS
<1>5. /\ g \in Conns /\ g.out = <<>> /\ g.in = <<>> /\ g.awaiting = {}
    BY <1>g DEF FreshConnection, Conns
<1>6. /\ conns' \in Seq(Conns) /\ Len(conns') = Len(conns) + 1
      /\ \A k \in 1..Len(conns) : conns'[k] = f[k]
      /\ conns'[Len(conns) + 1] = g
      /\ Len(conns) \in Nat
      /\ \A k \in 1..(Len(conns) + 1) : k \in 1..Len(conns) \/ k = Len(conns) + 1
    BY <1>4, <1>5, <1>g DEF IInv, WireInv, ConnTypes
<1>7. WireInv'
  <2>1. ConnInv'
      BY <1>1, <1>4, <1>6 DEF ConnInv, NoConnection
  <2>2. FlightInv'
    <3>1. \A k \in 1..Len(conns) : FlightOK(conns[k], calls + 1)
        BY FlightIs DEF IInv
    <3>2. \A k \in 1..Len(conns) : FlightOK(f[k], calls + 1)
        BY <3>1, <1>4 DEF FlightOK, Below
    <3>3. FlightOK(g, calls + 1)
        BY <1>5 DEF FlightOK, Below
    <3>4. \A k \in 1..Len(conns') : FlightOK(conns'[k], calls + 1)
        BY <3>2, <3>3, <1>6
    <3> QED
        BY <3>4, <1>1, <1>2, <1>u DEF FlightInv, FlightOK
  <2> QED
      BY <1>6, <2>1, <2>2 DEF WireInv, ConnTypes
<1>8. Talking(c, g)'
  <2>1. Expected(c)' = {}
      BY <1>1, <1>2, CommandIs DEF IInv, Expected, Command
  <2>2. Ready2Talk(c, g)'
      BY <1>1, <1>5, <2>1 DEF Ready2Talk
  <2> QED
      BY <1>2, <1>5, <2>2 DEF Talking
<1>9. TalkInv'
    BY <1>1, <1>2, <1>6, <1>8, TalkOf
<1> QED
    BY <1>2, <1>3, <1>7, <1>9 DEF IInv

LEMMA RelockStep ==
    ASSUME IInv, NEW c \in Callers, Relock(c)
    PROVE  IInv'
<1>1. /\ pc[c] = "relock" /\ lock = NoOne
      /\ UNCHANGED <<mailboxVars, lostVars, session, conns, born, calls, faults>>
    BY DEF Relock
<1>2. CASE /\ session # NoConnection /\ lock' = c /\ Goto(c, "send")
           /\ UNCHANGED <<pipeline, call, answer>>
  <2>1. /\ ControlInv' /\ pc'[c] = "send"
        /\ \A x \in Callers \ {c} : pc'[x] = "idle"
      BY <1>1, <1>2, GotoControl DEF IInv
  <2>2. WireInv'
      BY <1>1, <1>2, <2>1, WireKept, SameUids DEF IInv
  <2>s. PICK s : s = conns[session]
      OBVIOUS
  <2>3. Talking(c, s)
      BY <1>1, <2>s DEF IInv, TalkInv
  <2>4. Dead(s) \/ (s.out = <<>> /\ Ready2Talk(c, s))
      BY <1>1, <2>3 DEF Talking
  <2>5. Talking(c, s)'
      BY <1>1, <1>2, <2>1, <2>4
      DEF Talking, Dead, Ready2Talk, Expected, Command, Message, Own, Flagged,
          DraftsWithUid, mailboxVars, lostVars
  <2>6. TalkInv'
      BY <1>1, <2>1, <2>5, <2>s, TalkOf
  <2> QED
      BY <1>1, <1>2, <2>1, <2>2, <2>6, DraftsKept, SameCalls DEF IInv
<1>3. CASE session = NoConnection /\ Fail(c)
  <2>1. faults' \in Nat
      BY <1>1 DEF IInv, ControlInv, CallerTypes
  <2> QED
      BY <1>1, <1>3, <2>1, FailStep
<1> QED
    BY <1>2, <1>3 DEF Relock

LEMMA SendStep ==
    ASSUME IInv, NEW c \in Callers, Send(c)
    PROVE  IInv'
<1>1. /\ pc[c] = "send" /\ lock = c /\ session # NoConnection
      /\ call[c].id = calls /\ calls \in Nat
      /\ UNCHANGED <<mailboxVars, lostVars, session, born, calls, faults>>
    BY DEF Send, IInv, ControlInv, CallInv, CallerTypes, MutexInv, WireInv, ConnInv
<1>2. CASE /\ Write(c, Command(c)) /\ Goto(c, "read")
           /\ UNCHANGED <<pipeline, lock, call, answer>>
  <2>1. /\ ControlInv' /\ pc'[c] = "read"
        /\ \A x \in Callers \ {c} : pc'[x] = "idle"
      BY <1>1, <1>2, GotoControl DEF IInv
  <2>s. PICK s : s = conns[session]
      OBVIOUS
  <2>m. PICK m : m = Message(c, Command(c))
      OBVIOUS
  <2>t. PICK t : t = Written(s, m)
      OBVIOUS
  <2>2. /\ Command(c) \in Commands
        /\ Command(c) = "APPEND" => call[c].op = "create"
        /\ Command(c) = "STORE" => Assigned(call[c].uid)
      BY <1>1, CommandIs DEF IInv, DraftsInv, StoreInv
  <2>3. Becomes(session, t) /\ FlightOK(t, calls + 1) /\ session \in 1..Len(conns)
      BY <1>1, <1>2, <2>2, <2>s, <2>m, <2>t, WriteEffect DEF IInv
  <2>4. t.up = s.up /\ t.out = Append(s.out, m) /\ t.in = s.in
        /\ t.awaiting = s.awaiting
      BY <2>t DEF Written
  <2>5. WireInv'
      BY <1>1, <1>2, <2>1, <2>3, <2>4, <2>s, WireStep, SameUids DEF IInv
  <2>6. Talking(c, s) /\ s \in Conns
      BY <1>1, <2>3, <2>s, ConnFields DEF IInv, TalkInv, WireInv
  <2>7. m \in Messages /\ m.id = calls
      BY <1>1, <2>2, <2>m, MessageType DEF IInv
  <2>8. ASSUME Dead(s)
        PROVE  Talking(c, t)'
    <3>1. \A i \in 1..Len(t.out) : t.out[i].id = calls
        BY <2>4, <2>6, <2>7, <2>8, AppendElements DEF Dead, Conns
    <3>2. Dead(t)'
        BY <1>1, <2>4, <2>8, <3>1 DEF Dead
    <3> QED
        BY <3>2 DEF Talking
  <2>9. ASSUME s.out = <<>>, Ready2Talk(c, s)
        PROVE  Talking(c, t)'
    <3>1. t.out = <<m>>
        BY <2>4, <2>9
    <3>2. m = Message(c, Command(c))'
        BY <1>2, <2>m DEF Message, Command
    <3>3. Ready2Talk(c, t)'
        BY <1>1, <1>2, <2>4, <2>9
        DEF Ready2Talk, Expected, Command, Message, Own, Flagged, DraftsWithUid,
            mailboxVars, lostVars
    <3> QED
        BY <2>1, <3>1, <3>2, <3>3 DEF Talking
  <2>10. Talking(c, t)'
      BY <1>1, <2>6, <2>8, <2>9 DEF Talking
  <2>11. TalkInv'
      BY <1>1, <2>1, <2>3, <2>10, TalkOf DEF Becomes
  <2> QED
      BY <1>1, <1>2, <2>1, <2>5, <2>11, DraftsKept, SameCalls DEF IInv
<1>3. CASE Fail(c) /\ UNCHANGED conns
  <2>1. faults' \in Nat
      BY <1>1 DEF IInv, ControlInv, CallerTypes
  <2> QED
      BY <1>1, <1>3, <2>1, FailStep
<1> QED
    BY <1>2, <1>3 DEF Send

-----------------------------------------------------------------------------
(* Answers.                                                                *)

LEMMA ShortSequences ==
    ASSUME NEW x, NEW y
    PROVE  /\ Head(<<x>>) = x /\ Tail(<<x>>) = <<>> /\ <<x>> # <<>>
           /\ Head(<<x, y>>) = x /\ Tail(<<x, y>>) = <<y>> /\ <<x, y>> # <<>>
OBVIOUS

LEMMA LiteralIs ==
    ASSUME NEW op \in {"create", "get", "delete"},
           NEW step \in 1..Len(Script[op])
    PROVE  Script[op][step] = "LITERAL" <=> op = "create" /\ step = 2
<1>1. CASE op = "create"
  <2>1. step \in 1..4
      BY <1>1, Scripts
  <2> QED
      BY <1>1, <2>1, Scripts
<1>2. CASE op = "get"
  <2>1. step \in 1..2
      BY <1>2, Scripts
  <2> QED
      BY <1>2, <2>1, Scripts
<1>3. CASE op = "delete"
  <2>1. step \in 1..3
      BY <1>3, Scripts
  <2> QED
      BY <1>3, <2>1, Scripts
<1> QED
    BY <1>1, <1>2, <1>3

(* What is left of a delete_draft before its last command.                 *)
LEMMA DeleteIs ==
    ASSUME IInv, NEW c \in Callers, pc[c] # "idle", call[c].op = "delete",
           call[c].step > 1, HasNext(c)
    PROVE  Command(c) = "STORE"
<1>1. call[c].step \in 1..3
    BY Scripts DEF IInv, ControlInv, CallInv
<1>2. call[c].step = 2
    BY <1>1, Scripts DEF HasNext
<1> QED
    BY <1>2, Scripts DEF Command

(* A bounded set of UIDs that is not empty has a largest.                  *)
LEMMA LargestHit ==
    ASSUME NEW hits \in SUBSET Nat, hits # {}, NEW n \in Nat,
           \A h \in hits : h <= n
    PROVE  \E h \in hits : \A other \in hits : other <= h
<1> DEFINE below == {n - h : h \in hits}
           less == OpToRel(<, Nat)
<1>1. below \subseteq Nat /\ below # {}
  <2>1. \A h \in hits : n - h \in Nat
      OBVIOUS
  <2>2. PICK h : h \in hits
      OBVIOUS
  <2>3. n - h \in below
      BY <2>2
  <2> QED
      BY <2>1, <2>3
<1>2. IsWellFoundedOn(less, Nat)
    BY NatLessThanWellFounded
<1>3. \A x, y \in Nat : y < x => <<y, x>> \in less
    BY DEF OpToRel
<1> HIDE DEF below, less
<1>4. PICK x \in below : \A y \in below : ~(<<y, x>> \in less)
    BY <1>1, <1>2, WFMin
<1>5. PICK h \in hits : x = n - h
    BY DEF below
<1>6. ASSUME NEW other \in hits
      PROVE  other <= h
  <2>1. n - other \in below
      BY DEF below
  <2>2. ~(n - other < x)
      BY <1>1, <1>3, <1>4, <2>1
  <2> QED
      BY <1>5, <2>2
<1> QED
    BY <1>6

(* What a command that has succeeded leaves of the connection.             *)
Done(c, t, ignored) ==
    \/ Dead(t)
    \/ /\ t.out = <<>> /\ t.in = <<>> /\ call[c].hits = {}
       /\ t.awaiting = IF Command(c) = "APPEND" THEN {Message(c, "APPEND")} ELSE {}
       /\ call[c].op = "create" /\ call[c].step > 1 => Own(c)
       /\ call[c].op = "delete" /\ call[c].step > 1 /\ ~ignored => Flagged(c)

LEMMA ProceedControl ==
    ASSUME IInv, NEW c \in Callers, pc[c] = "read", HasNext(c),
           NEW ignored \in BOOLEAN,
           call' = [call EXCEPT ![c].step = @ + 1, ![c].ignored = ignored],
           Goto(c, "send"),
           UNCHANGED <<mailboxVars, lostVars, pipeline, lock, calls, faults>>,
           NEW t, Done(c, t, ignored)
    PROVE  /\ ControlInv' /\ pc'[c] = "send" /\ Talking(c, t)' /\ SameUid
           /\ \A x \in Callers \ {c} : pc'[x] = "idle"
<1>r. PICK r : r = call[c]
    OBVIOUS
<1>j. PICK j : j = [r EXCEPT !.step = r.step + 1]
    OBVIOUS
<1>k. PICK k : k = [j EXCEPT !.ignored = ignored]
    OBVIOUS
<1>1. /\ call[c] \in Calls /\ call[c].op \in {"create", "get", "delete"}
      /\ call[c].step \in 1..Len(Script[call[c].op]) /\ call[c].step \in 1..4
      /\ call[c].step < Len(Script[call[c].op])
      /\ call[c].step + 1 \in 1..4
  <2>1. call[c] \in Calls /\ call[c].op \in {"create", "get", "delete"}
        /\ call[c].step \in 1..Len(Script[call[c].op])
        /\ call[c].step < Len(Script[call[c].op])
      BY DEF IInv, ControlInv, CallerTypes, CallInv, HasNext
  <2>2. Len(Script[call[c].op]) \in {2, 3, 4}
      BY <2>1, Scripts
  <2>3. call[c].step \in 1..4
      BY <2>1 DEF Calls
  <2>i. PICK i : i = call[c].step
      OBVIOUS
  <2>n. PICK n : n = Len(Script[call[c].op])
      OBVIOUS
  <2>4. i < n /\ n \in {2, 3, 4} /\ i \in 1..4
      BY <2>1, <2>2, <2>3, <2>i, <2>n
  <2>5. i + 1 \in 1..4
      BY <2>4
  <2> QED
      BY <2>1, <2>3, <2>5, <2>i
<1>2. /\ k \in Calls /\ k.op = call[c].op /\ k.id = call[c].id
      /\ k.subject = call[c].subject /\ k.uid = call[c].uid
      /\ k.step = call[c].step + 1 /\ k.hits = call[c].hits
      /\ k.ignored = ignored
  <2>1. r \in Calls /\ r.step + 1 \in 1..4
      BY <1>r, <1>1
  <2>2. /\ j \in Calls /\ j.op = r.op /\ j.id = r.id /\ j.subject = r.subject
        /\ j.uid = r.uid /\ j.step = r.step + 1 /\ j.hits = r.hits
      BY <1>j, <2>1 DEF Calls
  <2> QED
      BY <1>r, <1>k, <2>2 DEF Calls
<1>3. call' = [call EXCEPT ![c] = k] /\ pc' = [pc EXCEPT ![c] = "send"]
  <2>1. c \in DOMAIN call
      BY DEF IInv, ControlInv, CallerTypes
  <2>2. [call EXCEPT ![c].step = @ + 1] = [call EXCEPT ![c] = j]
      BY <1>r, <1>j, <2>1
  <2>3. [[call EXCEPT ![c] = j] EXCEPT ![c].ignored = ignored] =
            [call EXCEPT ![c] = k]
      BY <1>k, <2>1
  <2>4. [call EXCEPT ![c].step = @ + 1, ![c].ignored = ignored] =
            [[call EXCEPT ![c].step = @ + 1] EXCEPT ![c].ignored = ignored]
      OBVIOUS
  <2> QED
      BY <2>2, <2>3, <2>4 DEF Goto
<1>4. k.step \in 1..Len(Script[call[c].op])
    BY <1>1, <1>2
<1>5. /\ ControlInv' /\ pc'[c] = "send" /\ call'[c] = k
      /\ \A x \in Callers \ {c} : pc'[x] = "idle"
    BY <1>2, <1>3, <1>4, CallControl DEF IInv
<1>6. ASSUME Dead(t)
      PROVE  Talking(c, t)'
  <2>1. Dead(t)'
      BY <1>6 DEF Dead
  <2> QED
      BY <2>1 DEF Talking
<1>7. ASSUME /\ t.out = <<>> /\ t.in = <<>> /\ call[c].hits = {}
             /\ t.awaiting = IF Command(c) = "APPEND"
                             THEN {Message(c, "APPEND")} ELSE {}
             /\ (call[c].op = "create" /\ call[c].step > 1 => Own(c))
             /\ (call[c].op = "delete" /\ call[c].step > 1 /\ ~ignored =>
                     Flagged(c))
      PROVE  Talking(c, t)'
  <2>1. Command(c)' = "LITERAL" <=> Command(c) = "APPEND"
    <3>1. Command(c)' = "LITERAL" <=> k.op = "create" /\ k.step = 2
        BY <1>1, <1>2, <1>4, <1>5, LiteralIs DEF Command
    <3>2. Command(c) = "APPEND" <=> call[c].op = "create" /\ call[c].step = 1
        BY CommandIs DEF IInv
    <3> QED
        BY <1>1, <1>2, <3>1, <3>2
  <2>2. Message(c, "APPEND")' = Message(c, "APPEND")
      BY <1>2, <1>5 DEF Message
  <2>3. t.awaiting = Expected(c)'
      BY <1>7, <2>1, <2>2 DEF Expected
  <2>4. Own(c) => Own(c)'
      BY <1>2, <1>5 DEF Own, mailboxVars, lostVars
  <2>5. call'[c].op = "create" /\ call'[c].step > 2 => Own(c)'
      BY <1>1, <1>2, <1>5, <1>7, <2>4
  <2>6. Flagged(c)' <=> Flagged(c)
      BY <1>2, <1>5 DEF Flagged, DraftsWithUid, mailboxVars
  <2>7. /\ call'[c].op = "delete" /\ call'[c].step > 2 /\ ~call'[c].ignored
        => Flagged(c)'
      BY <1>1, <1>2, <1>5, <1>7, <2>6
  <2>8. Ready2Talk(c, t)'
      BY <1>2, <1>5, <1>7, <2>3, <2>5, <2>7 DEF Ready2Talk
  <2> QED
      BY <1>5, <1>7, <2>8 DEF Talking
<1>8. SameUid
  <2>1. \A x \in Callers \ {c} : call'[x] = call[x]
      BY <1>3 DEF IInv, ControlInv, CallerTypes
  <2> QED
      BY <1>2, <1>5, <2>1 DEF SameUid
<1> QED
    BY <1>5, <1>6, <1>7, <1>8 DEF Done

(* The reader has sent its command and not read the answer.                *)
LEMMA ReaderFacts ==
    ASSUME IInv, NEW c \in Callers, pc[c] = "read"
    PROVE  /\ lock = c /\ session # NoConnection
           /\ call[c].id = calls /\ calls \in Nat /\ faults \in Nat
           /\ Talking(c, conns[session])
           /\ Arrived => /\ conns[session].out = <<>>
                         /\ Answered(c, conns[session])
           /\ session \in 1..Len(conns) /\ conns[session] \in Conns
<1>1. /\ lock = c /\ session # NoConnection
      /\ call[c].id = calls /\ calls \in Nat /\ faults \in Nat
      /\ Talking(c, conns[session])
    BY DEF IInv, ControlInv, CallInv, CallerTypes, MutexInv, WireInv, ConnInv, TalkInv
<1>2. session \in 1..Len(conns) /\ conns[session] \in Conns
    BY <1>1, SessionIs, ConnFields DEF IInv, WireInv
<1>3. Arrived => /\ conns[session].out = <<>>
                 /\ Answered(c, conns[session])
    BY <1>1 DEF Talking, Dead, Ready2Talk, Arrived
<1> QED
    BY <1>1, <1>2, <1>3

LEMMA ConsumeStep ==
    ASSUME IInv, NEW c \in Callers, pc[c] = "read", Arrived, Consume,
           UNCHANGED <<mailboxVars, lostVars, session, born, calls, answer>>,
           NEW t, t = Read(conns[session]),
           ControlInv', pc'[c] \in {"send", "read"},
           \A x \in Callers \ {c} : pc'[x] = "idle",
           Talking(c, t)', SameUid
    PROVE  IInv'
<1>1. /\ Becomes(session, t) /\ FlightOK(t, calls + 1)
      /\ session \in 1..Len(conns) /\ session # NoConnection
    BY ReaderFacts, ConsumeEffect DEF IInv
<1>2. t.up = conns[session].up
    BY DEF Read
<1>3. WireInv'
    BY <1>1, <1>2, WireStep, SameUids DEF IInv
<1>4. TalkInv'
    BY <1>1, TalkOf DEF Becomes
<1> QED
    BY <1>3, <1>4, DraftsKept, SameCalls DEF IInv

LEMMA ReadGoAheadStep ==
    ASSUME IInv, NEW c \in Callers, ReadGoAhead(c)
    PROVE  IInv'
<1>1. /\ pc[c] = "read" /\ Command(c) = "APPEND" /\ Arrived /\ Consume
      /\ UNCHANGED <<mailboxVars, lostVars, session, born, calls, faults>>
    BY DEF ReadGoAhead
<1>2. /\ lock = c /\ session # NoConnection
      /\ call[c].id = calls /\ calls \in Nat /\ faults \in Nat
      /\ conns[session].out = <<>> /\ Answered(c, conns[session])
    BY <1>1, ReaderFacts
<1>3. CASE Fail(c)
    BY <1>1, <1>2, <1>3, FailStep
<1>4. CASE NextAnswer.kind = "cont" /\ Proceed(c, FALSE)
  <2>1. /\ HasNext(c)
        /\ call' = [call EXCEPT ![c].step = @ + 1, ![c].ignored = FALSE]
        /\ Goto(c, "send") /\ UNCHANGED <<pipeline, lock, answer>>
      BY <1>1, <1>4 DEF Proceed
  <2>s. PICK s : s = conns[session]
      OBVIOUS
  <2>t. PICK t : t = Read(s)
      OBVIOUS
  <2>2. t.out = <<>> /\ t.in = Tail(s.in) /\ t.awaiting = s.awaiting
      BY <1>2, <2>s, <2>t DEF Read
  <2>3. s.awaiting = {Message(c, "APPEND")} /\ Tail(s.in) = <<>> /\ call[c].hits = {}
    <3>1. Head(s.in).kind = "cont" /\ Answered(c, s)
        BY <1>2, <1>4, <2>s DEF NextAnswer
    <3>2. s.in # <<Answer("no", Message(c, Command(c)), {})>>
        BY <3>1, ShortSequences DEF Answer
    <3>3. /\ s.awaiting = {Message(c, "APPEND")} /\ call[c].hits = {}
          /\ s.in = <<Answer("cont", Message(c, "APPEND"), {})>>
        BY <1>1, <3>1, <3>2 DEF Answered
    <3> QED
        BY <3>3, ShortSequences
  <2>4. call[c].step = 1
      BY <1>1, CommandIs DEF IInv
  <2>d. Done(c, t, FALSE)
      BY <1>1, <2>2, <2>3, <2>4 DEF Done
  <2>5. /\ ControlInv' /\ pc'[c] = "send" /\ Talking(c, t)' /\ SameUid
        /\ \A x \in Callers \ {c} : pc'[x] = "idle"
      BY <1>1, <2>1, <2>d, ProceedControl
  <2> QED
      BY <1>1, <2>1, <2>5, <2>s, <2>t, ConsumeStep
<1> QED
    BY <1>3, <1>4 DEF ReadGoAhead

LEMMA ProceedStep ==
    ASSUME IInv, NEW c \in Callers, pc[c] = "read", Arrived, Consume, HasNext(c),
           NEW ignored \in BOOLEAN, Proceed(c, ignored),
           UNCHANGED <<mailboxVars, lostVars, session, born, calls, faults>>,
           Done(c, Read(conns[session]), ignored)
    PROVE  IInv'
<1>1. Command(c) \notin {"SEARCH", "FETCH", "EXPUNGE"}
    BY CommandIs DEF IInv
<1>2. /\ call' = [call EXCEPT ![c].step = @ + 1, ![c].ignored = ignored]
      /\ Goto(c, "send") /\ UNCHANGED <<pipeline, lock, answer>>
    BY <1>1 DEF Proceed
<1>t. PICK t : t = Read(conns[session])
    OBVIOUS
<1>3. /\ ControlInv' /\ pc'[c] = "send" /\ Talking(c, t)' /\ SameUid
      /\ \A x \in Callers \ {c} : pc'[x] = "idle"
    BY <1>2, <1>t, ProceedControl
<1> QED
    BY <1>2, <1>3, <1>t, ConsumeStep

LEMMA LeaveRead ==
    ASSUME IInv, NEW c \in Callers, pc[c] = "read", Leave(c), AnswerInv',
           UNCHANGED <<mailboxVars, lostVars, session, born, calls, faults>>,
           UNCHANGED conns \/ (Consume /\ Arrived)
    PROVE  IInv'
<1>1. session # NoConnection /\ faults \in Nat
    BY ReaderFacts
<1> QED
    BY <1>1, LeaveStep

(* The answer to EXPUNGE, of whatever kind, ends a delete_draft.           *)
LEMMA ReturnZero ==
    ASSUME IInv, NEW c \in Callers, pc[c] = "read", Command(c) = "EXPUNGE",
           NEW ignored \in BOOLEAN, Proceed(c, ignored), ~ignored => Gone(c),
           UNCHANGED <<mailboxVars, lostVars, session, born, calls, faults>>,
           UNCHANGED conns \/ (Consume /\ Arrived)
    PROVE  IInv'
<1>1. Return(c, 0, ignored) /\ call[c].op = "delete"
    BY CommandIs DEF Proceed, IInv
<1>2. Assigned(call[c].uid)
    BY <1>1 DEF IInv, DraftsInv, StoreInv
<1>3. AnswerInv' /\ Leave(c)
    BY <1>1, <1>2
    DEF Return, AnswerInv, RightAnswer, Gone, Assigned, DraftsWithUid, mailboxVars
<1> QED
    BY <1>3, LeaveRead

LEMMA ReadAnswerStep ==
    ASSUME IInv, NEW c \in Callers, ReadAnswer(c)
    PROVE  IInv'
<1>1. /\ pc[c] = "read" /\ Command(c) # "APPEND" /\ Arrived /\ Consume
      /\ UNCHANGED <<mailboxVars, lostVars, session, born, calls, faults>>
    BY DEF ReadAnswer
<1>2. /\ call[c].id = calls /\ calls \in Nat /\ faults \in Nat
      /\ conns[session].out = <<>> /\ Answered(c, conns[session])
    BY <1>1, ReaderFacts
<1>s. PICK s : s = conns[session]
    OBVIOUS
<1>t. PICK t : t = Read(s)
    OBVIOUS
<1>3. t.out = <<>> /\ t.in = Tail(s.in) /\ t.awaiting = s.awaiting
    BY <1>2, <1>s, <1>t DEF Read
<1>4. CASE Command(c) # "LITERAL" /\ s.awaiting = {} /\ call[c].hits = {}
           /\ s.in = <<Answer("no", Message(c, Command(c)), {})>>
  <2>1. /\ NextAnswer.kind = "no" /\ NextAnswer.id = call[c].id
        /\ NextAnswer.cmd = Command(c) /\ Tail(s.in) = <<>>
      BY <1>4, <1>s, ShortSequences DEF NextAnswer, Answer, Message
  <2>2. /\ Completes(c, NextAnswer, Tagged(Command(c)))
        /\ ~IsResult(c, NextAnswer)
      BY <1>4, <2>1 DEF Completes, Tagged, IsResult
  <2>3. CASE Fail(c)
    <3>1. AnswerInv' /\ Leave(c)
        BY <1>1, <2>3, FailAnswer
    <3> QED
        BY <1>1, <3>1, LeaveRead
  <2>4. CASE Command(c) = "EXPUNGE" /\ Proceed(c, TRUE)
      BY <1>1, <2>4, ReturnZero
  <2>5. CASE Command(c) = "STORE" /\ Proceed(c, TRUE)
    <3>1. HasNext(c) /\ call[c].op = "delete"
        BY <1>1, <2>5, CommandIs DEF IInv
    <3>2. Done(c, t, TRUE)
        BY <1>3, <1>4, <2>1, <2>5, <3>1 DEF Done
    <3> QED
        BY <1>1, <2>5, <3>1, <3>2, <1>s, <1>t, ProceedStep
  <2> QED
      BY <1>1, <2>1, <2>2, <2>3, <2>4, <2>5 DEF ReadAnswer, Ignored
<1>5. CASE /\ s.awaiting = {} /\ s.in = <<Ok(c)>>
           /\ (call[c].op = "create" => Own(c))
           /\ IF Command(c) = "SEARCH" THEN Newest(c, call[c].hits)
                                       ELSE call[c].hits = {}
           /\ Settled(c)
  <2>i. PICK i \in BOOLEAN : i = call[c].ignored
      BY DEF IInv, ControlInv, CallerTypes, Calls
  <2>1. /\ NextAnswer.kind = "ok" /\ NextAnswer.id = call[c].id
        /\ NextAnswer.cmd = Tagged(Command(c)) /\ Tail(s.in) = <<>>
      BY <1>5, <1>s, ShortSequences DEF NextAnswer, Answer, Message, Ok
  <2>2. /\ Completes(c, NextAnswer, Tagged(Command(c)))
        /\ ~IsResult(c, NextAnswer)
      BY <2>1 DEF Completes, IsResult
  <2>3. Proceed(c, i)
    <3>1. (call[c].ignored \/ NextAnswer.kind = "no") <=> i
        BY <2>i, <2>1
    <3>2. Proceed(c, call[c].ignored \/ NextAnswer.kind = "no")
        BY <1>1, <2>1, <2>2 DEF ReadAnswer
    <3> QED
        BY <3>1, <3>2, <2>i
  <2>4. CASE HasNext(c)
    <3>1. Command(c) # "SEARCH"
        BY <1>1, <2>4, CommandIs DEF IInv
    <3>2. call[c].op = "delete" /\ call[c].step > 1 /\ ~i => Flagged(c)
      <4>1. /\ call[c].op = "delete" /\ call[c].step > 1 /\ HasNext(c)
            => Command(c) = "STORE"
          BY <1>1, DeleteIs
      <4> QED
          BY <1>5, <2>i, <2>4, <4>1 DEF Settled
    <3>3. Done(c, t, i)
        BY <1>1, <1>3, <1>5, <2>1, <3>1, <3>2 DEF Done
    <3> QED
        BY <1>1, <2>3, <2>4, <3>3, <1>s, <1>t, ProceedStep
  <2>5. CASE Command(c) = "EXPUNGE"
    <3>1. ~i => Gone(c)
        BY <1>1, <1>5, <2>i, <2>5, CommandIs DEF IInv, Settled
    <3> QED
        BY <1>1, <2>3, <2>5, <3>1, ReturnZero
  <2>6. CASE Command(c) = "FETCH"
    <3>1. Fail(c)
        BY <1>1, <2>3, <2>6, CommandIs DEF Proceed, IInv
    <3>2. AnswerInv' /\ Leave(c)
        BY <1>1, <3>1, FailAnswer
    <3> QED
        BY <1>1, <3>2, LeaveRead
  <2>7. CASE Command(c) = "SEARCH"
    <3>1. /\ call[c].op = "create" /\ Newest(c, call[c].hits)
          /\ call[c].hits # {} /\ call[c].hits \in SUBSET Nat
        BY <1>1, <1>5, <2>7, CommandIs
        DEF IInv, Newest, ControlInv, CallerTypes, Calls
    <3>2. Return(c, NewestHit(call[c].hits), FALSE)
        BY <1>1, <2>3, <2>7, <3>1, CommandIs DEF Proceed, IInv
    <3>h. PICK hits \in SUBSET Nat : hits = call[c].hits
        BY <3>1
    <3>n. PICK newest : newest = NewestHit(hits)
        OBVIOUS
    <3>3. <<newest, call[c].id>> \in born \/ newest \in late
      <4>1. PICK uid \in hits : /\ <<uid, call[c].id>> \in born
                                /\ \A h \in hits : h <= uid \/ h \in late
          BY <3>1, <3>h DEF Newest
      <4>2. hits # {} /\ nextUid - 1 \in Nat
          BY <4>1 DEF IInv, DraftsInv, MailTypes
      <4>3. CASE \E h \in hits : \A other \in hits : other <= h
        <5>1. newest \in hits /\ uid <= newest
            BY <3>n, <4>1, <4>3 DEF NewestHit
        <5>2. newest <= uid \/ newest \in late
            BY <4>1, <5>1
        <5>3. newest \in Nat /\ uid \in Nat
            BY <3>h, <4>1, <5>1
        <5>4. newest = uid \/ newest \in late
            BY <5>1, <5>2, <5>3
        <5> QED
            BY <4>1, <5>4
      <4>4. \E h \in hits : \A other \in hits : other <= h
        <5>1. \A h \in hits : h <= nextUid - 1
            BY <3>1, <3>h, <4>2 DEF Newest, Assigned
        <5> QED
            BY <3>h, <4>2, <5>1, LargestHit
      <4> QED
          BY <4>3, <4>4
    <3>4. AnswerInv' /\ Leave(c)
        BY <1>1, <3>1, <3>2, <3>3, <3>h, <3>n
        DEF Return, AnswerInv, RightAnswer, lostVars
    <3> QED
        BY <1>1, <3>4, LeaveRead
  <2> QED
      BY <1>1, <2>4, <2>5, <2>6, <2>7, CommandIs DEF IInv
<1>6. ASSUME NEW hits \in SUBSET Nat, Command(c) = "SEARCH", s.awaiting = {},
             Newest(c, hits), call[c].hits = {}, Own(c),
             s.in = <<Answer("hits", Message(c, "SEARCH"), hits), Ok(c)>>
      PROVE  IInv'
  <2>1. /\ NextAnswer.kind = "hits" /\ NextAnswer.value = hits
        /\ Tail(s.in) = <<Ok(c)>>
      BY <1>6, <1>s, ShortSequences DEF NextAnswer, Answer
  <2>2. /\ ~Completes(c, NextAnswer, Tagged(Command(c)))
        /\ IsResult(c, NextAnswer)
      BY <1>6, <2>1 DEF Completes, IsResult
  <2>3. /\ call' = [call EXCEPT ![c].hits = @ \cup NextAnswer.value]
        /\ UNCHANGED <<pipeline, lock, pc, answer>>
      BY <1>1, <1>6, <2>2 DEF ReadAnswer
  <2>r. PICK r : r = call[c]
      OBVIOUS
  <2>k. PICK k : k = [r EXCEPT !.hits = hits]
      OBVIOUS
  <2>4. r \in Calls /\ r.step \in 1..Len(Script[r.op])
      BY <1>1, <2>r DEF IInv, ControlInv, CallerTypes, CallInv
  <2>5. /\ k \in Calls /\ k.op = r.op /\ k.id = r.id /\ k.subject = r.subject
        /\ k.uid = r.uid /\ k.step = r.step /\ k.hits = hits
      BY <2>4, <2>k DEF Calls
  <2>6. call' = [call EXCEPT ![c] = k] /\ pc' = [pc EXCEPT ![c] = "read"]
    <3>1. call[c].hits \cup NextAnswer.value = hits
        BY <1>6, <2>1
    <3>2. pc' = [pc EXCEPT ![c] = "read"]
        BY <1>1, <2>3 DEF IInv, ControlInv, CallerTypes
    <3> QED
        BY <2>3, <2>r, <2>k, <3>1, <3>2
  <2>7. /\ ControlInv' /\ pc'[c] = "read" /\ call'[c] = k
        /\ \A x \in Callers \ {c} : pc'[x] = "idle"
      BY <1>1, <2>3, <2>4, <2>5, <2>6, <2>r, CallControl DEF IInv
  <2>8. /\ Command(c)' = Command(c) /\ Ok(c)' = Ok(c) /\ call'[c].hits = hits
      BY <2>5, <2>7, <2>r DEF Command, Ok, Message
  <2>9. Own(c)' /\ Newest(c, hits)'
      BY <1>1, <1>6, <2>5, <2>7, <2>r
      DEF Own, Newest, Assigned, mailboxVars, lostVars
  <2>s. call[c].op = "create" /\ Settled(c)'
      BY <1>1, <1>6, <2>5, <2>7, <2>r, CommandIs DEF IInv, Settled
  <2>u. SameUid
      BY <2>5, <2>6, <2>r DEF SameUid, IInv, ControlInv, CallerTypes
  <2>10. Answered(c, t)'
      BY <1>3, <1>6, <2>1, <2>8, <2>9, <2>s DEF Answered
  <2>11. Talking(c, t)'
      BY <1>3, <2>7, <2>10 DEF Talking
  <2> QED
      BY <1>1, <1>s, <1>t, <2>3, <2>7, <2>11, <2>u, ConsumeStep
<1>7. ASSUME NEW data \in Nat, Command(c) = "FETCH", <<call[c].uid, data>> \in born,
             s.in = <<Answer("body", Message(c, "FETCH"), {data}), Ok(c)>>
      PROVE  IInv'
  <2>1. NextAnswer.kind = "body" /\ NextAnswer.value = {data}
      BY <1>7, <1>s, ShortSequences DEF NextAnswer, Answer
  <2>2. ~Completes(c, NextAnswer, Tagged(Command(c))) /\ IsResult(c, NextAnswer)
      BY <1>7, <2>1 DEF Completes, IsResult
  <2>3. Return(c, data, FALSE)
      BY <1>1, <1>7, <2>1, <2>2 DEF ReadAnswer
  <2>4. call[c].op = "get"
      BY <1>1, <1>7, CommandIs DEF IInv
  <2>5. AnswerInv' /\ Leave(c)
      BY <1>1, <1>7, <2>3, <2>4 DEF Return, AnswerInv, RightAnswer
  <2> QED
      BY <1>1, <2>5, LeaveRead
<1>8. Answered(c, s)
    BY <1>2, <1>s
<1> QED
    BY <1>1, <1>4, <1>5, <1>6, <1>7, <1>8 DEF Answered

LEMMA ReadEndStep ==
    ASSUME IInv, NEW c \in Callers, ReadEnd(c)
    PROVE  IInv'
<1>1. /\ pc[c] = "read" /\ AtEnd
      /\ UNCHANGED <<mailboxVars, lostVars, session, conns, born, calls, faults>>
    BY DEF ReadEnd
<1>2. /\ call[c].id = calls /\ session # NoConnection
      /\ Talking(c, conns[session])
    BY <1>1, ReaderFacts
<1>3. CASE Fail(c)
  <2>1. AnswerInv' /\ Leave(c)
      BY <1>1, <1>3, FailAnswer
  <2> QED
      BY <1>1, <2>1, LeaveRead
<1>4. CASE Command(c) = "EXPUNGE" /\ Proceed(c, TRUE)
    BY <1>1, <1>4, ReturnZero
<1>5. CASE Command(c) = "STORE" /\ Proceed(c, TRUE)
  <2>s. PICK s : s = conns[session]
      OBVIOUS
  <2>1. s.in = <<>> /\ ~s.up
      BY <1>1, <2>s DEF AtEnd, Arrived
  <2>2. HasNext(c)
      BY <1>1, <1>5, CommandIs DEF IInv
  <2>3. /\ call' = [call EXCEPT ![c].step = @ + 1, ![c].ignored = TRUE]
        /\ Goto(c, "send") /\ UNCHANGED <<pipeline, lock, answer>>
      BY <1>5 DEF Proceed
  <2>4. ~Answered(c, s)
      BY <2>1, ShortSequences DEF Answered
  <2>5. Dead(s)
    <3>1. \/ Dead(s)
          \/ s.out = <<Message(c, Command(c))>> /\ Ready2Talk(c, s)
        BY <1>1, <1>2, <2>4, <2>s DEF Talking
    <3>2. ASSUME s.out = <<Message(c, Command(c))>>, Ready2Talk(c, s)
          PROVE  Dead(s)
      <4>1. s.awaiting = {}
          BY <1>5, <3>2 DEF Ready2Talk, Expected
      <4>2. \A i \in 1..Len(s.out) : s.out[i].id = calls
          BY <1>2, <3>2 DEF Message
      <4> QED
          BY <2>1, <4>1, <4>2 DEF Dead
    <3> QED
        BY <3>1, <3>2
  <2>6. Done(c, s, TRUE)
      BY <2>5 DEF Done
  <2>7. /\ ControlInv' /\ pc'[c] = "send" /\ Talking(c, s)' /\ SameUid
        /\ \A x \in Callers \ {c} : pc'[x] = "idle"
      BY <1>1, <2>2, <2>3, <2>6, ProceedControl
  <2>8. TalkInv'
      BY <1>1, <2>7, <2>s, TalkOf
  <2>9. WireInv'
      BY <1>1, <1>2, <2>7, WireKept, SameUids DEF IInv
  <2> QED
      BY <1>1, <2>3, <2>7, <2>8, <2>9, DraftsKept, SameCalls DEF IInv
<1> QED
    BY <1>3, <1>4, <1>5 DEF ReadEnd, Ignored

-----------------------------------------------------------------------------
(* The server's steps and the faults.                                      *)

LEMMA ServerFrame ==
    ASSUME IInv, NEW k \in 1..Len(conns), conns[k].up,
           UNCHANGED <<callerVars, session, calls>>, faults' \in Nat, UidsGrow,
           NEW t, Becomes(k, t), Keeps(conns[k], t), DraftsInv',
           \A c \in Callers : pc[c] = "probe" => Probing(t)',
           \A c \in Callers : pc[c] \in {"relock", "send", "read"} =>
              Talking(c, t)'
    PROVE  IInv'
<1>1. k = session
    BY FlightIs DEF IInv
<1>2. pc' = pc
    BY DEF callerVars
<1>3. TalkInv'
    BY <1>1, <1>2 DEF TalkInv, Becomes
<1>4. /\ FlightOK(t, calls + 1) /\ (t.up => conns[k].up)
      /\ \A c \in Callers : pc[c] = "ensure" => Below(t, calls)
    BY FlightIs DEF IInv, Keeps, ControlInv, CallerTypes
<1>5. WireInv'
    BY <1>2, <1>4, WireStep DEF IInv, WireInv, ConnInv
<1>6. ControlInv'
    BY ControlKept DEF IInv
<1> QED
    BY <1>3, <1>5, <1>6 DEF IInv

(* Whoever talks on a connection that is up has it to itself: what is on   *)
(* its way to the server is the command it has just sent.                  *)
LEMMA TalkerFacts ==
    ASSUME IInv, NEW c \in Callers, pc[c] \in {"relock", "send", "read"},
           conns[session].up
    PROVE  /\ call[c].id = calls
           /\ \A m \in conns[session].awaiting : m = Message(c, "APPEND")
           /\ conns[session].out # <<>> =>
                 /\ pc[c] = "read" /\ Ready2Talk(c, conns[session])
                 /\ conns[session].out = <<Message(c, Command(c))>>
<1>s. PICK s : s = conns[session]
    OBVIOUS
<1>1. Talking(c, s) /\ call[c].id = calls
    BY <1>s DEF IInv, TalkInv, ControlInv, CallInv
<1>2. ~Dead(s)
    BY <1>s DEF Dead
<1>3. \A m \in s.awaiting : m = Message(c, "APPEND")
    BY <1>1, <1>2 DEF Talking, Ready2Talk, Expected, Answered
<1>4. s.out # <<>> => /\ pc[c] = "read" /\ Ready2Talk(c, s)
                      /\ s.out = <<Message(c, Command(c))>>
    BY <1>1, <1>2 DEF Talking
<1> QED
    BY <1>1, <1>3, <1>4, <1>s

LEMMA AutologoutStep ==
    ASSUME IInv, NEW k, Autologout(k)
    PROVE  IInv'
<1>1. /\ k \in 1..Len(conns) /\ conns[k] \in Conns /\ conns[k].up
      /\ UNCHANGED <<mailboxVars, lostVars, callerVars, session, born, answer,
                     calls, faults>>
    BY ConnFields DEF Autologout, IInv, WireInv, ConnTypes
<1>s. PICK s : s = conns[k]
    OBVIOUS
<1>t. PICK t : t = Closed(s)
    OBVIOUS
<1>2. conns' = [conns EXCEPT ![k] = t]
  <2>1. [s EXCEPT !.up = FALSE] = t
      BY <1>1, <1>s, <1>t, UpdateUp DEF Closed
  <2> QED
      BY <1>s, <2>1 DEF Autologout
<1>3. Becomes(k, t) /\ Keeps(s, t)
    BY <1>1, <1>2, <1>s, <1>t, LostEffect DEF IInv
<1>4. k = session
    BY <1>1, FlightIs DEF IInv
<1>5. ASSUME NEW c \in Callers, pc[c] \in {"relock", "send", "read"}
      PROVE  FALSE
  <2>1. PICK m \in conns[k].awaiting : \A x \in Callers : call[x].id # m.id
      BY DEF Autologout
  <2>2. m = Message(c, "APPEND")
      BY <1>1, <1>4, <1>5, TalkerFacts
  <2>3. m.id = call[c].id
      BY <2>2 DEF Message
  <2> QED
      BY <2>1, <2>3
<1>6. ASSUME NEW c \in Callers, pc[c] = "probe"
      PROVE  Probing(t)'
  <2>1. Probing(s)
      BY <1>4, <1>6, <1>s DEF IInv, TalkInv
  <2> QED
      BY <1>1, <1>t, <2>1 DEF Probing, Closed
<1>7. DraftsInv' /\ faults' \in Nat
    BY <1>1, DraftsKept, SameCalls DEF IInv, ControlInv, CallerTypes
<1> QED
    BY <1>1, <1>3, <1>5, <1>6, <1>7, <1>s, SameUids, ServerFrame

LEMMA BreakStep ==
    ASSUME IInv, NEW k, Break(k)
    PROVE  IInv'
<1>1. /\ k \in 1..Len(conns) /\ conns[k].up /\ faults' \in Nat
      /\ orphans' = orphans \cup Leftovers(k)
      /\ UNCHANGED <<mailboxVars, late, callerVars, session, born, answer, calls>>
    BY DEF Break, Fault, IInv, WireInv, ConnTypes, ControlInv, CallerTypes
<1>t. PICK t : t = Broken
    OBVIOUS
<1>2. conns' = [conns EXCEPT ![k] = t]
  <2>r. PICK r : r = FreshConnection
      OBVIOUS
  <2>1. /\ r \in Conns /\ r.out = <<>> /\ r.in = <<>> /\ r.awaiting = {}
      BY <2>r DEF FreshConnection, Conns
  <2>2. [r EXCEPT !.up = FALSE] = t
      BY <1>t, <2>1, UpdateUp DEF Broken
  <2> QED
      BY <2>r, <2>2 DEF Break
<1>3. Becomes(k, t) /\ Keeps(conns[k], t)
    BY <1>1, <1>2, <1>t, LostEffect DEF IInv
<1>4. ~t.up /\ t.out = <<>> /\ t.in = <<>> /\ t.awaiting = {}
    BY <1>t DEF Broken
<1>5. Probing(t)' /\ Dead(t)'
    BY <1>4 DEF Probing, Dead
<1>6. \A c \in Callers : Talking(c, t)'
    BY <1>5 DEF Talking
<1>7. DraftsInv'
  <2>1. \A m \in Leftovers(k) : Fits(m)
      BY <1>1, LeftoversFit DEF IInv
  <2>2. \A m \in orphans' : m \in orphans \/ Fits(m)
      BY <1>1, <2>1
  <2> QED
      BY <1>1, <2>2, MoreOrphans, SameCalls DEF IInv
<1> QED
    BY <1>1, <1>3, <1>5, <1>6, <1>7, SameUids, ServerFrame

(* The head of what is on its way to the server, while a caller probes.    *)
LEMMA ProbingHead ==
    ASSUME NEW s \in Conns, Probing(s), FlightOK(s, calls + 1), calls \in Nat,
           s.out # <<>>
    PROVE  /\ Head(s.out) = s.out[1] /\ 1 \in 1..Len(s.out) /\ Len(s.out) \in Nat
           /\ \A i \in 1..Len(s.in) : s.in[i].id < calls
           /\ Head(s.out).id = calls \/ Head(s.out).id < calls
           /\ Head(s.out).id = calls => Head(s.out).cmd = "NOOP" /\ Len(s.out) = 1
<1>1. Head(s.out) = s.out[1] /\ 1 \in 1..Len(s.out) /\ Len(s.out) \in Nat
    BY DEF Conns
<1>2. /\ \A i \in 1..Len(s.out) : s.out[i].id \in Nat /\ s.out[i].id < calls + 1
      /\ \A i \in 1..Len(s.in) : s.in[i].id \in Nat /\ s.in[i].id < calls + 1
    BY ElementIds DEF FlightOK, Below
<1>3. \A i \in 1..Len(s.in) : s.in[i].id < calls
    BY <1>2 DEF Probing
<1>4. s.out[1].id = calls \/ s.out[1].id < calls
    BY <1>1, <1>2
<1>5. s.out[1].id = calls => s.out[1].cmd = "NOOP" /\ Len(s.out) = 1
    BY <1>1 DEF Probing
<1> QED
    BY <1>1, <1>3, <1>4, <1>5

LEMMA ProbingTail ==
    ASSUME NEW s \in Conns, Probing(s), s.out # <<>>
    PROVE  \A i \in 1..Len(Tail(s.out)) : Tail(s.out)[i].id = calls =>
              i = Len(Tail(s.out)) /\ Tail(s.out)[i].cmd = "NOOP"
<1>1. s.out \in Seq(Messages)
    BY DEF Conns
<1>2. /\ Len(Tail(s.out)) = Len(s.out) - 1 /\ Len(s.out) \in Nat
      /\ \A i \in 1..Len(Tail(s.out)) :
            Tail(s.out)[i] = s.out[i + 1] /\ i + 1 \in 1..Len(s.out)
    BY <1>1, TailElements
<1>3. \A j \in 1..Len(s.out) : s.out[j].id = calls =>
         j = Len(s.out) /\ s.out[j].cmd = "NOOP"
    BY DEF Probing
<1> QED
    BY <1>2, <1>3

LEMMA ProbingReply ==
    ASSUME NEW s \in Conns, Probing(s), FlightOK(s, calls + 1), calls \in Nat,
           s.out # <<>>, s.awaiting = {}, NEW answers \in Seq(Answers),
           \A i \in 1..Len(answers) : answers[i].id = Head(s.out).id,
           Head(s.out).cmd = "NOOP" => Len(answers) = 1
    PROVE  Probing(Replied(s, answers))
<1>t. PICK t : t = Replied(s, answers)
    OBVIOUS
<1>1. t.out = Tail(s.out) /\ t.in = s.in \o answers /\ t.awaiting = {}
    BY <1>t DEF Replied
<1>2. s.out \in Seq(Messages) /\ s.in \in Seq(Answers)
    BY DEF Conns
<1>3. /\ Head(s.out) = s.out[1] /\ 1 \in 1..Len(s.out) /\ Len(s.out) \in Nat
      /\ \A i \in 1..Len(s.in) : s.in[i].id < calls
      /\ Head(s.out).id = calls \/ Head(s.out).id < calls
      /\ Head(s.out).id = calls => Head(s.out).cmd = "NOOP" /\ Len(s.out) = 1
    BY ProbingHead
<1>4. CASE Head(s.out).id = calls
  <2>1. t.out = <<>>
      BY <1>1, <1>2, <1>3, <1>4, TailOfOne
  <2>2. Len(t.in) = Len(s.in) + 1 /\ \A i \in 1..Len(t.in) :
           i = Len(t.in) \/ t.in[i].id < calls
      BY <1>1, <1>2, <1>3, <1>4, ConcatElements
  <2>3. Len(t.out) = 0
      BY <2>1
  <2>4. \A i \in 1..Len(t.in) : t.in[i].id = calls => i = Len(t.in)
      BY <2>2
  <2>5. \A i \in 1..Len(t.in) : t.in[i].id = calls =>
           i = Len(t.in) /\ t.out = <<>> /\ t.awaiting = {}
      BY <1>1, <2>1, <2>4
  <2>6. \A i \in 1..Len(t.out) : FALSE
      BY <2>3
  <2>7. \A m \in t.awaiting : FALSE
      BY <1>1
  <2>8. Probing(t)
      BY <2>5, <2>6, <2>7 DEF Probing
  <2> QED
      BY <1>t, <2>8
<1>5. CASE Head(s.out).id < calls
  <2>1. \A i \in 1..Len(t.in) : t.in[i].id < calls
    <3> SUFFICES ASSUME NEW i \in 1..Len(t.in) PROVE t.in[i].id < calls
        OBVIOUS
    <3>1. CASE i \in 1..Len(s.in)
        BY <1>1, <1>2, <1>3, <3>1, ConcatElements
    <3>2. CASE i \notin 1..Len(s.in)
      <4>1. i - Len(s.in) \in 1..Len(answers) /\ t.in[i] = answers[i - Len(s.in)]
          BY <1>1, <1>2, <3>2, ConcatElements
      <4> QED
          BY <1>5, <4>1
    <3> QED
        BY <3>1, <3>2
  <2>3. \A i \in 1..Len(t.out) : t.out[i].id = calls =>
           i = Len(t.out) /\ t.out[i].cmd = "NOOP"
      BY <1>1, ProbingTail
  <2>4. \A i \in 1..Len(t.in) : t.in[i].id # calls
      BY <2>1
  <2> QED
      BY <1>1, <1>t, <2>1, <2>3, <2>4 DEF Probing
<1> QED
    BY <1>3, <1>4, <1>5

LEMMA ProbingSwallow ==
    ASSUME NEW s \in Conns, Probing(s), FlightOK(s, calls + 1), calls \in Nat,
           s.out # <<>>, s.awaiting # {}
    PROVE  Probing(Replied(s, <<>>))
<1>t. PICK t : t = Replied(s, <<>>)
    OBVIOUS
<1>1. s.out \in Seq(Messages) /\ s.in \in Seq(Answers)
    BY DEF Conns
<1>2. t.out = Tail(s.out) /\ t.in = s.in /\ t.awaiting = s.awaiting
    BY <1>1, <1>t, ConcatEmptySeq DEF Replied
<1>3. /\ Len(s.out) \in Nat
      /\ \A i \in 1..Len(s.in) : s.in[i].id < calls
    BY ProbingHead
<1>5. \A i \in 1..Len(t.out) : t.out[i].id = calls =>
         i = Len(t.out) /\ t.out[i].cmd = "NOOP"
    BY <1>2, ProbingTail
<1>6. \A i \in 1..Len(t.in) : t.in[i].id # calls
    BY <1>2, <1>3
<1>7. \A m \in t.awaiting : m.id < calls
    BY <1>2 DEF Probing
<1> QED
    BY <1>2, <1>3, <1>5, <1>6, <1>7, <1>t DEF Probing

LEMMA ProbingSwitch ==
    ASSUME NEW s \in Conns, Probing(s), FlightOK(s, calls + 1), calls \in Nat,
           s.out # <<>>, NEW a \in Answers, a.id < calls,
           NEW w \in SUBSET Messages, \A m \in w : m.id < calls
    PROVE  Probing(Switched(s, a, w))
<1>t. PICK t : t = Switched(s, a, w)
    OBVIOUS
<1>1. s.out \in Seq(Messages) /\ s.in \in Seq(Answers)
    BY DEF Conns
<1>2. t.out = Tail(s.out) /\ t.in = Append(s.in, a) /\ t.awaiting = w
    BY <1>t DEF Switched
<1>3. /\ Len(s.out) \in Nat
      /\ \A i \in 1..Len(s.in) : s.in[i].id < calls
    BY ProbingHead
<1>5. \A i \in 1..Len(t.out) : t.out[i].id = calls =>
         i = Len(t.out) /\ t.out[i].cmd = "NOOP"
    BY <1>2, ProbingTail
<1>6. \A i \in 1..Len(t.in) : t.in[i].id < calls
    BY <1>1, <1>2, <1>3, AppendElements
<1>7. \A i \in 1..Len(t.in) : t.in[i].id # calls
    BY <1>6
<1> QED
    BY <1>2, <1>5, <1>6, <1>7, <1>t DEF Probing

(* What a step on connection k starts from.                                *)
LEMMA ServerFacts ==
    ASSUME IInv, NEW k \in DOMAIN conns, conns[k].up, conns[k].out # <<>>
    PROVE  /\ k \in 1..Len(conns) /\ k = session /\ conns[k] \in Conns
           /\ calls \in Nat /\ FlightOK(conns[k], calls + 1)
           /\ Head(conns[k].out) \in Messages
           /\ Head(conns[k].out).cmd = "APPEND" =>
                 Head(conns[k].out).subject \in Subjects
           /\ \A m \in conns[k].awaiting : m \in Messages /\ m.subject \in Subjects
           /\ \A c \in Callers : pc[c] = "probe" => Probing(conns[k])
<1>1. k \in 1..Len(conns)
    BY DEF IInv, WireInv, ConnTypes
<1>2. /\ k = session /\ conns[k] \in Conns
      /\ calls \in Nat /\ FlightOK(conns[k], calls + 1)
    BY <1>1, FlightIs, ConnFields DEF IInv, WireInv, ControlInv, CallerTypes
<1>3. /\ conns[k].out \in Seq(Messages) /\ conns[k].awaiting \in SUBSET Messages
    BY <1>2 DEF Conns
<1>4. /\ Head(conns[k].out) \in Messages /\ Head(conns[k].out) = conns[k].out[1]
      /\ 1 \in 1..Len(conns[k].out)
    BY <1>3
<1>5. \A c \in Callers : pc[c] = "probe" => Probing(conns[k])
    BY <1>2 DEF IInv, TalkInv
<1> QED
    BY <1>1, <1>2, <1>3, <1>4, <1>5 DEF FlightOK

(* A command that is not half of an APPEND comes after the literal.        *)
LEMMA OwnIsThere ==
    ASSUME IInv, NEW c \in Callers, pc[c] = "read",
           Ready2Talk(c, conns[session]), Command(c) \notin {"APPEND", "LITERAL"}
    PROVE  call[c].op = "create" => Own(c)
<1>1. call[c].step \in 1..4
    BY DEF IInv, ControlInv, CallerTypes, Calls
<1>2. call[c].op = "create" => call[c].step > 2
    BY <1>1, CommandIs DEF IInv
<1> QED
    BY <1>2 DEF Ready2Talk

(* A reply of one answer, to the command of whoever talks or probes.       *)
LEMMA ReplyStep ==
    ASSUME IInv, NEW k \in DOMAIN conns, conns[k].up, Ready(k),
           NEW a \in Answers, a.id = Head(conns[k].out).id, Reply(k, <<a>>),
           UNCHANGED <<callerVars, session, calls>>, faults' \in Nat, DraftsInv',
           UidsGrow,
           \A c \in Callers :
              /\ pc[c] = "read" /\ Ready2Talk(c, conns[k])
              /\ Head(conns[k].out) = Message(c, Command(c))
              /\ Command(c) # "LITERAL"
              => \A t : t.in = <<a>> /\ t.awaiting = {} => Answered(c, t)'
    PROVE  IInv'
<1>s. PICK s : s = conns[k]
    OBVIOUS
<1>q. PICK q : q = <<a>>
    OBVIOUS
<1>t. PICK t : t = Replied(s, q)
    OBVIOUS
<1>1. /\ k \in 1..Len(conns) /\ k = session /\ s \in Conns
      /\ calls \in Nat /\ FlightOK(s, calls + 1)
      /\ \A c \in Callers : pc[c] = "probe" => Probing(s)
      /\ s.out # <<>> /\ s.awaiting = {}
    BY <1>s, ServerFacts DEF Ready
<1>2. /\ q \in Seq(Answers) /\ Len(q) = 1
      /\ \A i \in 1..Len(q) : q[i].id = Head(s.out).id
    BY <1>q, <1>s
<1>3. Becomes(k, t) /\ Keeps(s, t)
    BY <1>1, <1>2, <1>q, <1>s, <1>t, ReplyEffect DEF IInv
<1>4. t.out = Tail(s.out) /\ t.in = s.in \o q /\ t.awaiting = {}
    BY <1>1, <1>t DEF Replied
<1>5. ASSUME NEW c \in Callers, pc[c] = "probe"
      PROVE  Probing(t)'
  <2>1. Probing(t)
      BY <1>1, <1>2, <1>5, <1>t, ProbingReply
  <2> QED
      BY <2>1 DEF Probing
<1>6. ASSUME NEW c \in Callers, pc[c] \in {"relock", "send", "read"}
      PROVE  Talking(c, t)'
  <2>1. /\ pc[c] = "read" /\ Ready2Talk(c, s)
        /\ s.out = <<Message(c, Command(c))>>
      BY <1>1, <1>6, <1>s, TalkerFacts
  <2>2. Command(c) # "LITERAL"
      BY <1>1, <2>1 DEF Ready2Talk, Expected
  <2>3. Head(s.out) = Message(c, Command(c)) /\ t.out = <<>>
      BY <1>4, <2>1, ShortSequences
  <2>4. t.in = <<a>>
      BY <1>2, <1>4, <1>q, <2>1, ConcatEmptySeq DEF Ready2Talk
  <2>5. Answered(c, t)'
      BY <1>4, <1>s, <2>1, <2>2, <2>3, <2>4
  <2> QED
      BY <2>1, <2>3, <2>5 DEF Talking, callerVars
<1> QED
    BY <1>1, <1>3, <1>5, <1>6, <1>s, ServerFrame

LEMMA RefuseStep ==
    ASSUME IInv, NEW k, Refuse(k)
    PROVE  IInv'
<1>m. PICK m : m = Head(conns[k].out)
    OBVIOUS
<1>a. PICK a : a = Answer("no", m, {})
    OBVIOUS
<1>1. /\ k \in DOMAIN conns /\ conns[k].up /\ Ready(k) /\ Reply(k, <<a>>)
      /\ faults' \in Nat /\ conns[k].out # <<>>
      /\ UNCHANGED <<mailboxVars, lostVars, callerVars, session, born, answer, calls>>
    BY <1>m, <1>a DEF Refuse, Fault, Ready, IInv, ControlInv, CallerTypes
<1>2. m \in Messages
    BY <1>1, <1>m, ServerFacts
<1>3. a \in Answers /\ a.id = m.id
    BY <1>2, <1>a, AnswerType
<1>4. DraftsInv'
    BY <1>1, DraftsKept, SameCalls DEF IInv
<1>5. ASSUME NEW c \in Callers, Ready2Talk(c, conns[k]),
             m = Message(c, Command(c)), Command(c) # "LITERAL",
             NEW t, t.in = <<a>>, t.awaiting = {}
      PROVE  Answered(c, t)'
  <2>1. /\ Message(c, Command(c))' = m /\ Command(c)' = Command(c)
        /\ call'[c].hits = {}
      BY <1>1, <1>5 DEF callerVars, Message, Command, Ready2Talk
  <2> QED
      BY <1>5, <1>a, <2>1 DEF Answered
<1> QED
    BY <1>1, <1>3, <1>4, <1>5, <1>m, SameUids, ReplyStep

(* An ok is the answer to a command that is no half of an APPEND and no    *)
(* SEARCH.                                                                 *)
LEMMA OkStep ==
    ASSUME IInv, NEW k \in DOMAIN conns, conns[k].up, Ready(k),
           Head(conns[k].out).cmd \notin {"APPEND", "SEARCH"},
           Reply(k, <<Answer("ok", Head(conns[k].out), {})>>),
           UNCHANGED <<callerVars, session, calls>>, faults' \in Nat, DraftsInv',
           UNCHANGED lostVars,
           \/ /\ Head(conns[k].out).cmd = "STORE"
              /\ FlagDraft(Head(conns[k].out).uid)
           \/ Head(conns[k].out).cmd = "EXPUNGE" /\ ExpungeDrafts
           \/ /\ Head(conns[k].out).cmd \notin {"STORE", "EXPUNGE"}
              /\ UNCHANGED mailboxVars
    PROVE  IInv'
<1>m. PICK m : m = Head(conns[k].out)
    OBVIOUS
<1>a. PICK a : a = Answer("ok", m, {})
    OBVIOUS
<1>1. /\ m \in Messages /\ k = session
    BY <1>m, ServerFacts DEF Ready
<1>2. a \in Answers /\ a.id = m.id
    BY <1>1, <1>a, AnswerType
<1>3. ASSUME NEW c \in Callers, pc[c] = "read", Ready2Talk(c, conns[k]),
             m = Message(c, Command(c)), Command(c) # "LITERAL",
             NEW t, t.in = <<a>>, t.awaiting = {}
      PROVE  Answered(c, t)'
  <2>1. m.cmd = Command(c)
      BY <1>3 DEF Message
  <2>2. Command(c) \notin {"APPEND", "SEARCH", "LITERAL"}
      BY <1>3, <1>m, <2>1
  <2>3. a = Ok(c) /\ call[c].hits = {}
      BY <1>3, <1>a, <2>2 DEF Ok, Tagged, Ready2Talk
  <2>4. call[c].op = "create" => Own(c)
      BY <1>1, <1>3, <2>2, OwnIsThere
  <2>5. m.cmd \in {"STORE", "EXPUNGE"} => call[c].op # "create"
      BY <1>3, <2>1, CommandIs DEF IInv
  <2>6. call' = call /\ Command(c)' = Command(c) /\ Ok(c)' = Ok(c)
      BY DEF callerVars, Command, Ok, Message
  <2>7. (call[c].op = "create" => Own(c))'
      BY <1>m, <2>4, <2>5, <2>6 DEF Own, mailboxVars, lostVars
  <2>8. Settled(c)'
    <3>1. m.uid = call[c].uid
        BY <1>3 DEF Message
    <3>2. ASSUME Command(c) = "STORE"
          PROVE  Flagged(c)'
      <4>1. FlagDraft(call[c].uid)
          BY <1>m, <2>1, <3>1, <3>2
      <4>2. \A d \in drafts : [d EXCEPT !.deleted = TRUE].deleted
          BY DEF IInv, DraftsInv, MailTypes
      <4> QED
          BY <2>6, <4>1, <4>2 DEF Flagged, FlagDraft, DraftsWithUid
    <3>3. ASSUME call[c].op = "delete", ~call[c].ignored, Command(c) = "EXPUNGE"
          PROVE  Gone(c)'
      <4>1. call[c].step > 2
          BY <1>3, <3>3, CommandIs DEF IInv
      <4>2. Flagged(c) /\ drafts' = {d \in drafts : ~d.deleted}
          BY <1>3, <1>m, <2>1, <3>3, <4>1 DEF Ready2Talk, ExpungeDrafts
      <4> QED
          BY <2>6, <4>2 DEF Flagged, Gone, DraftsWithUid
    <3> QED
        BY <2>6, <3>2, <3>3 DEF Settled
  <2> QED
      BY <1>3, <2>2, <2>3, <2>6, <2>7, <2>8 DEF Answered
<1>4. UidsGrow
    BY SameUids DEF FlagDraft, ExpungeDrafts, UidsGrow
<1> QED
    BY <1>2, <1>3, <1>4, <1>a, <1>m, ReplyStep

(* A reply of two answers, neither of them to a NOOP.                      *)
LEMMA ReplyTwoStep ==
    ASSUME IInv, NEW k \in DOMAIN conns, conns[k].up, Ready(k),
           NEW a \in Answers, a.id = Head(conns[k].out).id,
           NEW b \in Answers, b.id = Head(conns[k].out).id, Reply(k, <<a, b>>),
           Head(conns[k].out).cmd # "NOOP",
           UNCHANGED <<callerVars, session, calls>>, faults' \in Nat, DraftsInv',
           UidsGrow,
           \A c \in Callers :
              /\ pc[c] = "read" /\ Ready2Talk(c, conns[k])
              /\ Head(conns[k].out) = Message(c, Command(c))
              => \A t : t.in = <<a, b>> /\ t.awaiting = {} => Answered(c, t)'
    PROVE  IInv'
<1>s. PICK s : s = conns[k]
    OBVIOUS
<1>q. PICK q : q = <<a, b>>
    OBVIOUS
<1>t. PICK t : t = Replied(s, q)
    OBVIOUS
<1>1. /\ k \in 1..Len(conns) /\ k = session /\ s \in Conns
      /\ calls \in Nat /\ FlightOK(s, calls + 1)
      /\ \A c \in Callers : pc[c] = "probe" => Probing(s)
      /\ s.out # <<>> /\ s.awaiting = {}
    BY <1>s, ServerFacts DEF Ready
<1>2. /\ q \in Seq(Answers) /\ Len(q) = 2
      /\ \A i \in 1..Len(q) : q[i].id = Head(s.out).id
    BY <1>q, <1>s
<1>3. Becomes(k, t) /\ Keeps(s, t)
    BY <1>1, <1>2, <1>q, <1>s, <1>t, ReplyEffect DEF IInv
<1>4. t.out = Tail(s.out) /\ t.in = s.in \o q /\ t.awaiting = {}
    BY <1>1, <1>t DEF Replied
<1>5. ASSUME NEW c \in Callers, pc[c] = "probe"
      PROVE  Probing(t)'
  <2>1. Probing(t)
      BY <1>1, <1>2, <1>5, <1>s, <1>t, ProbingReply
  <2> QED
      BY <2>1 DEF Probing
<1>6. ASSUME NEW c \in Callers, pc[c] \in {"relock", "send", "read"}
      PROVE  Talking(c, t)'
  <2>1. /\ pc[c] = "read" /\ Ready2Talk(c, s)
        /\ s.out = <<Message(c, Command(c))>>
      BY <1>1, <1>6, <1>s, TalkerFacts
  <2>2. Head(s.out) = Message(c, Command(c)) /\ t.out = <<>>
      BY <1>4, <2>1, ShortSequences
  <2>3. t.in = <<a, b>>
      BY <1>2, <1>4, <1>q, <2>1, ConcatEmptySeq DEF Ready2Talk
  <2>4. Answered(c, t)'
      BY <1>4, <1>s, <2>1, <2>2, <2>3
  <2> QED
      BY <2>1, <2>2, <2>4 DEF Talking, callerVars
<1> QED
    BY <1>1, <1>3, <1>5, <1>6, <1>s, ServerFrame

LEMMA SearchStep ==
    ASSUME IInv, NEW k \in DOMAIN conns, conns[k].up, Ready(k),
           Head(conns[k].out).cmd = "SEARCH", NEW hits,
           hits = SearchHits(drafts, [key |-> Head(conns[k].out).subject]),
           Reply(k, <<Answer("hits", Head(conns[k].out), hits),
                      Answer("ok", Head(conns[k].out), {})>>),
           UNCHANGED <<mailboxVars, lostVars, callerVars, session, born, answer, calls>>,
           faults' \in Nat
    PROVE  IInv'
<1>m. PICK m : m = Head(conns[k].out)
    OBVIOUS
<1>a. PICK a : a = Answer("hits", m, hits)
    OBVIOUS
<1>b. PICK b : b = Answer("ok", m, {})
    OBVIOUS
<1>1. m \in Messages /\ k = session
    BY <1>m, ServerFacts DEF Ready
<1>2. /\ nextUid - 1 \in Nat /\ hits \in SUBSET Nat
      /\ \A h \in hits : Assigned(h)
  <2>1. \A d \in drafts : d.uid \in Nat /\ nextUid \in Nat \ {0} /\ d.uid < nextUid
      BY DEF IInv, DraftsInv, MailTypes, MailInv
  <2>2. nextUid - 1 \in Nat
      BY DEF IInv, DraftsInv, MailTypes
  <2>3. \A h \in hits : \E d \in drafts : h = d.uid
      BY DEF SearchHits
  <2> QED
      BY <2>1, <2>2, <2>3 DEF Assigned
<1>3. a \in Answers /\ a.id = m.id /\ b \in Answers /\ b.id = m.id
    BY <1>1, <1>2, <1>a, <1>b, AnswerType
<1>4. DraftsInv'
    BY DraftsKept, SameCalls DEF IInv
<1>5. ASSUME NEW c \in Callers, pc[c] = "read", Ready2Talk(c, conns[k]),
             m = Message(c, Command(c)),
             NEW t, t.in = <<a, b>>, t.awaiting = {}
      PROVE  Answered(c, t)'
  <2>1. Command(c) = "SEARCH" /\ m.subject = call[c].subject
      BY <1>5, <1>m DEF Message
  <2>2. call[c].op = "create" /\ call[c].hits = {}
      BY <1>5, <2>1, CommandIs DEF IInv, Ready2Talk
  <2>3. Own(c)
      BY <1>1, <1>5, <2>1, <2>2, OwnIsThere
  <2>4. Newest(c, hits)
    <3>1. PICK d \in drafts :
             /\ d.data = call[c].id /\ d.subject.key = m.subject
             /\ \A uid \in (d.uid + 1)..(nextUid - 1) : uid \in late
        BY <2>1, <2>3 DEF Own
    <3>2. d.uid \in hits /\ <<d.uid, call[c].id>> \in born /\ d.uid \in Nat
        BY <1>m, <3>1 DEF SearchHits, IInv, DraftsInv, MailTypes, MailInv
    <3>3. \A h \in hits : h <= d.uid \/ h \in late
      <4> SUFFICES ASSUME NEW h \in hits, ~(h <= d.uid) PROVE h \in late
          OBVIOUS
      <4>1. h \in (d.uid + 1)..(nextUid - 1)
          BY <1>2, <3>2 DEF Assigned
      <4> QED
          BY <3>1, <4>1
    <3> QED
        BY <1>2, <3>2, <3>3 DEF Newest
  <2>5. a = Answer("hits", Message(c, "SEARCH"), hits) /\ b = Ok(c)
      BY <1>5, <1>a, <1>b, <2>1 DEF Ok, Tagged
  <2>6. /\ call' = call /\ Command(c)' = Command(c) /\ Ok(c)' = Ok(c)
        /\ Message(c, "SEARCH")' = Message(c, "SEARCH")
      BY DEF callerVars, Command, Ok, Message
  <2>7. Own(c)' /\ Newest(c, hits)'
      BY <2>3, <2>4, <2>6 DEF Own, Newest, Assigned, mailboxVars, lostVars
  <2> QED
      BY <1>2, <1>5, <2>1, <2>2, <2>5, <2>6, <2>7 DEF Answered
<1>6. /\ Reply(k, <<a, b>>) /\ Head(conns[k].out).cmd # "NOOP"
      /\ UNCHANGED <<callerVars, session, calls>>
      /\ a.id = Head(conns[k].out).id /\ b.id = Head(conns[k].out).id
    BY <1>3, <1>a, <1>b, <1>m
<1>7. ASSUME NEW c \in Callers
      PROVE  /\ pc[c] = "read" /\ Ready2Talk(c, conns[k])
             /\ Head(conns[k].out) = Message(c, Command(c))
             => \A t : t.in = <<a, b>> /\ t.awaiting = {} => Answered(c, t)'
    BY <1>5, <1>m
<1> QED
    BY <1>3, <1>4, <1>6, <1>7, SameUids, ReplyTwoStep

LEMMA FetchStep ==
    ASSUME IInv, NEW k \in DOMAIN conns, conns[k].up, Ready(k),
           Head(conns[k].out).cmd = "FETCH",
           NEW d \in DraftsWithUid(Head(conns[k].out).uid),
           Reply(k, <<Answer("body", Head(conns[k].out), {d.data}),
                      Answer("ok", Head(conns[k].out), {})>>),
           UNCHANGED <<mailboxVars, lostVars, callerVars, session, born, answer, calls>>,
           faults' \in Nat
    PROVE  IInv'
<1>m. PICK m : m = Head(conns[k].out)
    OBVIOUS
<1>v. PICK data : data = d.data
    OBVIOUS
<1>a. PICK a : a = Answer("body", m, {data})
    OBVIOUS
<1>b. PICK b : b = Answer("ok", m, {})
    OBVIOUS
<1>1. m \in Messages /\ k = session
    BY <1>m, ServerFacts DEF Ready
<1>2. data \in Nat /\ <<m.uid, data>> \in born
    BY <1>v, <1>m DEF DraftsWithUid, IInv, DraftsInv, MailTypes, MailInv
<1>3. a \in Answers /\ a.id = m.id /\ b \in Answers /\ b.id = m.id
    BY <1>1, <1>2, <1>a, <1>b, AnswerType
<1>4. DraftsInv'
    BY DraftsKept, SameCalls DEF IInv
<1>5. ASSUME NEW c \in Callers, pc[c] = "read", Ready2Talk(c, conns[k]),
             m = Message(c, Command(c)),
             NEW t, t.in = <<a, b>>, t.awaiting = {}
      PROVE  Answered(c, t)'
  <2>1. Command(c) = "FETCH" /\ m.uid = call[c].uid
      BY <1>5, <1>m DEF Message
  <2>2. a = Answer("body", Message(c, "FETCH"), {data}) /\ b = Ok(c)
      BY <1>5, <1>a, <1>b, <2>1 DEF Ok, Tagged
  <2>3. /\ call' = call /\ Command(c)' = Command(c) /\ Ok(c)' = Ok(c)
        /\ Message(c, "FETCH")' = Message(c, "FETCH") /\ born' = born
      BY DEF callerVars, Command, Ok, Message
  <2> QED
      BY <1>2, <1>5, <2>1, <2>2, <2>3 DEF Answered
<1>6. /\ Reply(k, <<a, b>>) /\ Head(conns[k].out).cmd # "NOOP"
      /\ UNCHANGED <<callerVars, session, calls>>
      /\ a.id = Head(conns[k].out).id /\ b.id = Head(conns[k].out).id
    BY <1>3, <1>a, <1>b, <1>m, <1>v
<1>7. ASSUME NEW c \in Callers
      PROVE  /\ pc[c] = "read" /\ Ready2Talk(c, conns[k])
             /\ Head(conns[k].out) = Message(c, Command(c))
             => \A t : t.in = <<a, b>> /\ t.awaiting = {} => Answered(c, t)'
    BY <1>5, <1>m
<1> QED
    BY <1>3, <1>4, <1>6, <1>7, SameUids, ReplyTwoStep

(* A reply by which the server begins, or ceases, to await a literal.      *)
LEMMA SwitchStep ==
    ASSUME IInv, NEW k \in DOMAIN conns, conns[k].up, conns[k].out # <<>>,
           NEW a \in Answers, NEW w \in SUBSET Messages,
           a.id = Head(conns[k].out).id \/ \E m \in conns[k].awaiting : a.id = m.id,
           \A m \in w : m = Head(conns[k].out) /\ m.cmd = "APPEND",
           Switches(k, a, w),
           UNCHANGED <<callerVars, session, calls>>, faults' \in Nat, DraftsInv',
           UidsGrow,
           \A c \in Callers : pc[c] = "probe" =>
              a.id < calls /\ \A m \in w : m.id < calls,
           \A c \in Callers :
              /\ pc[c] = "read" /\ Ready2Talk(c, conns[k])
              /\ Head(conns[k].out) = Message(c, Command(c))
              => \A t : t.in = <<a>> /\ t.awaiting = w => Answered(c, t)'
    PROVE  IInv'
<1>s. PICK s : s = conns[k]
    OBVIOUS
<1>t. PICK t : t = Switched(s, a, w)
    OBVIOUS
<1>1. /\ k \in 1..Len(conns) /\ k = session /\ s \in Conns
      /\ calls \in Nat /\ FlightOK(s, calls + 1)
      /\ \A c \in Callers : pc[c] = "probe" => Probing(s)
      /\ s.out # <<>>
    BY <1>s, ServerFacts
<1>3. Becomes(k, t) /\ Keeps(s, t)
    BY <1>1, <1>s, <1>t, SwitchEffect DEF IInv
<1>4. t.out = Tail(s.out) /\ t.in = Append(s.in, a) /\ t.awaiting = w
    BY <1>t DEF Switched
<1>5. ASSUME NEW c \in Callers, pc[c] = "probe"
      PROVE  Probing(t)'
  <2>1. Probing(t)
      BY <1>1, <1>5, <1>t, ProbingSwitch
  <2> QED
      BY <2>1 DEF Probing
<1>6. ASSUME NEW c \in Callers, pc[c] \in {"relock", "send", "read"}
      PROVE  Talking(c, t)'
  <2>1. /\ pc[c] = "read" /\ Ready2Talk(c, s)
        /\ s.out = <<Message(c, Command(c))>>
      BY <1>1, <1>6, <1>s, TalkerFacts
  <2>2. Head(s.out) = Message(c, Command(c)) /\ t.out = <<>>
      BY <1>4, <2>1, ShortSequences
  <2>3. t.in = <<a>>
      BY <1>4, <2>1 DEF Ready2Talk
  <2>4. Answered(c, t)'
      BY <1>4, <1>s, <2>1, <2>2, <2>3
  <2> QED
      BY <2>1, <2>2, <2>4 DEF Talking, callerVars
<1> QED
    BY <1>1, <1>3, <1>5, <1>6, <1>s, ServerFrame

(* The server answers the first half of an APPEND by its go-ahead.         *)
LEMMA AppendStep ==
    ASSUME IInv, NEW k \in DOMAIN conns, conns[k].up, Ready(k),
           Head(conns[k].out).cmd = "APPEND",
           Switches(k, Answer("cont", Head(conns[k].out), {}),
                    {Head(conns[k].out)}),
           UNCHANGED <<mailboxVars, lostVars, callerVars, session, born, answer, calls>>,
           faults' \in Nat
    PROVE  IInv'
<1>m. PICK m : m = Head(conns[k].out)
    OBVIOUS
<1>a. PICK a : a = Answer("cont", m, {})
    OBVIOUS
<1>w. PICK w : w = {m}
    OBVIOUS
<1>1. /\ k = session /\ conns[k] \in Conns /\ conns[k].out # <<>>
      /\ calls \in Nat /\ FlightOK(conns[k], calls + 1) /\ m \in Messages
      /\ \A c \in Callers : pc[c] = "probe" => Probing(conns[k])
    BY <1>m, ServerFacts DEF Ready
<1>2. a \in Answers /\ a.id = m.id /\ w \in SUBSET Messages
    BY <1>1, <1>a, <1>w, AnswerType
<1>3. DraftsInv'
    BY DraftsKept, SameCalls DEF IInv
<1>4. ASSUME NEW c \in Callers, pc[c] = "probe"
      PROVE  a.id < calls /\ \A n \in w : n.id < calls
  <2>1. m.id < calls
      BY <1>1, <1>4, <1>m, ProbingHead
  <2> QED
      BY <1>2, <1>w, <2>1
<1>5. ASSUME NEW c \in Callers, pc[c] = "read", Ready2Talk(c, conns[k]),
             m = Message(c, Command(c)), NEW t, t.in = <<a>>, t.awaiting = w
      PROVE  Answered(c, t)'
  <2>1. Command(c) = "APPEND"
      BY <1>5, <1>m DEF Message
  <2>2. /\ call' = call /\ Command(c)' = Command(c)
        /\ Message(c, "APPEND")' = Message(c, "APPEND")
      BY DEF callerVars, Command, Message
  <2> QED
      BY <1>5, <1>a, <1>w, <2>1, <2>2 DEF Answered, Ready2Talk
<1>6. /\ Switches(k, a, w) /\ UNCHANGED <<callerVars, session, calls>>
      /\ a.id = Head(conns[k].out).id
      /\ \A n \in w : n = Head(conns[k].out) /\ n.cmd = "APPEND"
    BY <1>2, <1>a, <1>m, <1>w
<1>8. UidsGrow
    BY SameUids
<1>7. ASSUME NEW c \in Callers
      PROVE  /\ pc[c] = "read" /\ Ready2Talk(c, conns[k])
             /\ Head(conns[k].out) = Message(c, Command(c))
             => \A t : t.in = <<a>> /\ t.awaiting = w => Answered(c, t)'
    BY <1>5, <1>m
<1> QED
    BY ZenonT(60), <1>1, <1>2, <1>3, <1>4, <1>6, <1>7, <1>8, SwitchStep

(* What the server does to the folder keeps the drafts as they were born.  *)
LEMMA FlagDrafts ==
    ASSUME DraftsInv, NEW uid, FlagDraft(uid), born' = born, late' = late,
           UNCHANGED <<call, answer>>, orphans' \subseteq orphans
    PROVE  DraftsInv'
<1>1. ASSUME NEW d \in drafts'
      PROVE  /\ d \in [uid: Nat, subject: [key: Subjects], data: Nat,
                       deleted: BOOLEAN]
             /\ \E e \in drafts : e.uid = d.uid /\ e.data = d.data
    BY DEF FlagDraft, DraftsWithUid, DraftsInv, MailTypes
<1>g. UidsGrow
    BY DEF FlagDraft, UidsGrow
<1>2. MailTypes'
    BY <1>1 DEF FlagDraft, DraftsInv, MailTypes
<1>3. MailInv'
    BY <1>1 DEF FlagDraft, DraftsInv, MailInv
<1>4. AnswerInv'
    BY <1>1, <1>g, AnswerKept DEF DraftsInv
<1>5. StoreInv'
    BY <1>g, SameCalls, StoresKept DEF DraftsInv
<1> QED
    BY <1>2, <1>3, <1>4, <1>5 DEF DraftsInv

LEMMA FewerDrafts ==
    ASSUME DraftsInv, ExpungeDrafts, born' = born, late' = late,
           UNCHANGED <<call, answer>>, orphans' \subseteq orphans
    PROVE  DraftsInv'
<1>1. drafts' \subseteq drafts /\ UidsGrow /\ nextUid' = nextUid
    BY DEF ExpungeDrafts, UidsGrow
<1>2. MailTypes' /\ MailInv'
    BY <1>1 DEF DraftsInv, MailTypes, MailInv
<1>3. AnswerInv'
    BY <1>1, AnswerKept DEF DraftsInv
<1>4. StoreInv'
    BY <1>1, SameCalls, StoresKept DEF DraftsInv
<1> QED
    BY <1>2, <1>3, <1>4 DEF DraftsInv

(* A draft is appended, by this connection or late.                        *)
LEMMA OneMoreDraft ==
    ASSUME DraftsInv, NEW m \in Messages, m.subject \in Subjects,
           AppendDraft([key |-> m.subject], m.id),
           born' = born \cup {<<nextUid, m.id>>},
           late' \in {late, late \cup {nextUid}},
           UNCHANGED <<call, answer>>, orphans' \subseteq orphans
    PROVE  /\ DraftsInv' /\ UidsGrow /\ nextUid \in Nat \ {0}
           /\ nextUid' = nextUid + 1
<1>d. PICK d : d = [uid |-> nextUid, subject |-> [key |-> m.subject],
                    data |-> m.id, deleted |-> FALSE]
    OBVIOUS
<1>1. /\ drafts' = drafts \cup {d} /\ nextUid' = nextUid + 1
      /\ nextUid \in Nat \ {0} /\ nextUid' \in Nat \ {0}
      /\ m.id \in Nat
    BY <1>d DEF AppendDraft, DraftsInv, MailTypes, Messages
<1>2. UidsGrow
    BY <1>1 DEF UidsGrow
<1>3. d.uid = nextUid /\ d.data = m.id
    BY <1>d
<1>4. MailTypes'
  <2>1. d \in [uid: Nat, subject: [key: Subjects], data: Nat, deleted: BOOLEAN]
      BY <1>1, <1>d
  <2> QED
      BY <1>1, <2>1 DEF DraftsInv, MailTypes
<1>5. MailInv'
  <2>1. \A e \in drafts : e.uid \in Nat /\ e.uid < nextUid /\ <<e.uid, e.data>> \in born
      BY DEF DraftsInv, MailTypes, MailInv
  <2> SUFFICES ASSUME NEW e \in drafts'
               PROVE  e.uid < nextUid' /\ <<e.uid, e.data>> \in born'
      BY DEF MailInv
  <2>2. ASSUME e \in drafts
        PROVE  e.uid < nextUid' /\ <<e.uid, e.data>> \in born'
      BY <1>1, <2>1, <2>2
  <2>3. ASSUME e = d
        PROVE  e.uid < nextUid' /\ <<e.uid, e.data>> \in born'
      BY <1>1, <1>3, <2>3
  <2> QED
      BY <1>1, <2>2, <2>3
<1>6. AnswerInv'
  <2>1. \A e \in drafts' : e.uid = nextUid \/ \E x \in drafts : x.uid = e.uid
      BY <1>1, <1>3
  <2> QED
      BY <1>2, <2>1, AnswerKept DEF DraftsInv
<1>7. StoreInv'
    BY <1>2, SameCalls, StoresKept DEF DraftsInv
<1> QED
    BY <1>1, <1>2, <1>4, <1>5, <1>6, <1>7 DEF DraftsInv

LEMMA ServeStep ==
    ASSUME IInv, NEW k, Serve(k)
    PROVE  IInv'
<1>m. PICK m : m = Head(conns[k].out)
    OBVIOUS
<1>1. /\ k \in DOMAIN conns /\ conns[k].up /\ Ready(k) /\ faults' \in Nat
      /\ UNCHANGED <<callerVars, lostVars, session, born, answer, calls, faults>>
    BY DEF Serve, IInv, ControlInv, CallerTypes
<1>2. /\ UNCHANGED <<callerVars, session, calls>>
      /\ UNCHANGED <<call, answer>> /\ born' = born /\ late' = late
      /\ orphans' \subseteq orphans
    BY <1>1 DEF callerVars, lostVars
<1>3. UNCHANGED mailboxVars =>
         /\ DraftsInv'
         /\ UNCHANGED <<mailboxVars, lostVars, callerVars, session, born, answer, calls>>
    BY <1>1, DraftsKept, SameCalls DEF IInv
<1>4. ASSUME m.cmd \in {"NOOP", "SELECT"}, Reply(k, <<Answer("ok", m, {})>>),
             UNCHANGED mailboxVars
      PROVE  IInv'
  <2>1. m.cmd \notin {"APPEND", "SEARCH"}
      BY <1>4
  <2> QED
      BY <1>1, <1>2, <1>3, <1>4, <1>m, <2>1, OkStep
<1>5. ASSUME m.cmd = "APPEND", Switches(k, Answer("cont", m, {}), {m}),
             UNCHANGED mailboxVars
      PROVE  IInv'
    BY <1>1, <1>3, <1>5, <1>m, AppendStep
<1>6. ASSUME m.cmd = "SEARCH", UNCHANGED mailboxVars,
             Reply(k, <<Answer("hits", m, SearchHits(drafts, [key |-> m.subject])),
                        Answer("ok", m, {})>>)
      PROVE  IInv'
    BY <1>1, <1>3, <1>6, <1>m, SearchStep
<1>7. ASSUME m.cmd = "FETCH", UNCHANGED mailboxVars, NEW d \in DraftsWithUid(m.uid),
             Reply(k, <<Answer("body", m, {d.data}), Answer("ok", m, {})>>)
      PROVE  IInv'
    BY <1>1, <1>3, <1>7, <1>m, FetchStep
<1>8. ASSUME m.cmd = "FETCH", UNCHANGED mailboxVars,
             Reply(k, <<Answer("ok", m, {})>>)
      PROVE  IInv'
  <2>1. m.cmd \notin {"APPEND", "SEARCH"}
      BY <1>8
  <2> QED
      BY <1>1, <1>2, <1>3, <1>8, <1>m, <2>1, OkStep
<1>9. ASSUME m.cmd = "STORE", Reply(k, <<Answer("ok", m, {})>>), FlagDraft(m.uid)
      PROVE  IInv'
  <2>1. m.cmd \notin {"APPEND", "SEARCH"} /\ m.cmd \in {"STORE", "EXPUNGE"}
      BY <1>9
  <2>2. DraftsInv'
      BY <1>2, <1>9, FlagDrafts DEF IInv
  <2> QED
      BY <1>1, <1>2, <1>9, <1>m, <2>1, <2>2, OkStep
<1>10. ASSUME m.cmd = "EXPUNGE", Reply(k, <<Answer("ok", m, {})>>),
              ExpungeDrafts
       PROVE  IInv'
  <2>1. m.cmd \notin {"APPEND", "SEARCH"} /\ m.cmd \in {"STORE", "EXPUNGE"}
      BY <1>10
  <2>2. DraftsInv'
      BY <1>2, <1>10, FewerDrafts DEF IInv
  <2> QED
      BY <1>1, <1>2, <1>10, <1>m, <2>1, <2>2, OkStep
<1>11. \/ /\ m.cmd \in {"NOOP", "SELECT"} /\ UNCHANGED mailboxVars
          /\ Reply(k, <<Answer("ok", m, {})>>)
       \/ /\ m.cmd = "APPEND" /\ UNCHANGED mailboxVars
          /\ Switches(k, Answer("cont", m, {}), {m})
       \/ /\ m.cmd = "SEARCH" /\ UNCHANGED mailboxVars
          /\ Reply(k, <<Answer("hits", m, SearchHits(drafts, [key |-> m.subject])),
                        Answer("ok", m, {})>>)
       \/ /\ m.cmd = "FETCH" /\ UNCHANGED mailboxVars
          /\ \/ \E d \in DraftsWithUid(m.uid) :
                   Reply(k, <<Answer("body", m, {d.data}), Answer("ok", m, {})>>)
             \/ Reply(k, <<Answer("ok", m, {})>>)
       \/ /\ m.cmd = "STORE" /\ Reply(k, <<Answer("ok", m, {})>>)
          /\ FlagDraft(m.uid)
       \/ /\ m.cmd = "EXPUNGE" /\ Reply(k, <<Answer("ok", m, {})>>)
          /\ ExpungeDrafts
    BY <1>m DEF Serve, Switches
<1> QED
    BY <1>4, <1>5, <1>6, <1>7, <1>8, <1>9, <1>10, <1>11

(* The literal makes the APPEND whole: the draft is there, the newest.     *)
LEMMA LiteralStep ==
    ASSUME IInv, NEW k \in DOMAIN conns, conns[k].up, conns[k].out # <<>>,
           NEW m \in conns[k].awaiting,
           AppendDraft([key |-> m.subject], m.id),
           born' = born \cup {<<nextUid, m.id>>},
           Switches(k, Answer("ok", m, {}), {}),
           UNCHANGED <<callerVars, lostVars, session, answer, calls, faults>>
    PROVE  IInv'
<1>a. PICK a : a = Answer("ok", m, {})
    OBVIOUS
<1>w. PICK w : w = {}
    OBVIOUS
<1>1. /\ k = session /\ conns[k] \in Conns
      /\ m \in Messages /\ m.subject \in Subjects
      /\ \A c \in Callers : pc[c] = "probe" => Probing(conns[k])
    BY ServerFacts
<1>2. /\ a \in Answers /\ a.id = m.id /\ w \in SUBSET Messages /\ m.id \in Nat
      /\ \A n \in w : n = Head(conns[k].out) /\ n.cmd = "APPEND"
    BY <1>1, <1>a, <1>w, AnswerType DEF Messages
<1>d. PICK d : d = [uid |-> nextUid, subject |-> [key |-> m.subject],
                    data |-> m.id, deleted |-> FALSE]
    OBVIOUS
<1>3. /\ drafts' = drafts \cup {d} /\ nextUid' = nextUid + 1
      /\ nextUid \in Nat \ {0} /\ nextUid' \in Nat \ {0}
    BY <1>d DEF AppendDraft, IInv, DraftsInv, MailTypes
<1>4. DraftsInv' /\ UidsGrow /\ orphans' = orphans /\ late' = late
    BY <1>1, OneMoreDraft DEF IInv, callerVars, lostVars
<1>5. ASSUME NEW c \in Callers, pc[c] = "probe"
      PROVE  a.id < calls /\ \A n \in w : n.id < calls
  <2>1. m.id < calls
      BY <1>1, <1>5 DEF Probing
  <2> QED
      BY <1>2, <1>w, <2>1
<1>6. ASSUME NEW c \in Callers, pc[c] = "read", Ready2Talk(c, conns[k]),
             NEW t, t.in = <<a>>, t.awaiting = w
      PROVE  Answered(c, t)'
  <2>1. Command(c) = "LITERAL" /\ m = Message(c, "APPEND")
      BY <1>6 DEF Ready2Talk, Expected
  <2>2. a = Ok(c) /\ call[c].hits = {}
      BY <1>6, <1>a, <2>1 DEF Ok, Tagged, Ready2Talk
  <2>3. m.id = call[c].id /\ m.subject = call[c].subject
      BY <2>1 DEF Message
  <2>4. call' = call /\ Command(c)' = Command(c) /\ Ok(c)' = Ok(c)
      BY DEF callerVars, Command, Ok, Message
  <2>5. /\ d.uid = nextUid /\ d.data = m.id /\ d.subject.key = m.subject
        /\ ~d.deleted /\ d \in drafts'
      BY <1>3, <1>d
  <2>6. \A uid \in (d.uid + 1)..(nextUid' - 1) : FALSE
      BY <1>3, <2>5
  <2>7. \A n \in orphans' : n.cmd = "STORE" => n.uid < d.uid
      BY <1>3, <1>4, <2>5 DEF IInv, DraftsInv, StoreInv, Assigned
  <2>8. Own(c)'
      BY <2>3, <2>4, <2>5, <2>6, <2>7 DEF Own
  <2>9. Settled(c)'
      BY <1>6, <2>1, <2>4, CommandIs DEF IInv, Settled
  <2> QED
      BY <1>6, <1>w, <2>1, <2>2, <2>4, <2>8, <2>9 DEF Answered
<1>7. /\ Switches(k, a, w) /\ UNCHANGED <<callerVars, session, calls>>
      /\ a.id = Head(conns[k].out).id \/ \E n \in conns[k].awaiting : a.id = n.id
      /\ faults' \in Nat
    BY <1>2, <1>a, <1>w DEF IInv, ControlInv, CallerTypes
<1>8. ASSUME NEW c \in Callers
      PROVE  /\ pc[c] = "read" /\ Ready2Talk(c, conns[k])
             /\ Head(conns[k].out) = Message(c, Command(c))
             => \A t : t.in = <<a>> /\ t.awaiting = w => Answered(c, t)'
    BY <1>6
<1> QED
    BY <1>2, <1>4, <1>5, <1>7, <1>8, SwitchStep

(* Any other command is taken for bytes of the literal: nobody that talks  *)
(* on this connection has sent it.                                         *)
LEMMA SwallowStep ==
    ASSUME IInv, NEW k \in DOMAIN conns, conns[k].up, conns[k].out # <<>>,
           conns[k].awaiting # {}, Head(conns[k].out).cmd # "LITERAL",
           Reply(k, <<>>),
           UNCHANGED <<mailboxVars, lostVars, callerVars, session, born, answer,
                       calls, faults>>
    PROVE  IInv'
<1>s. PICK s : s = conns[k]
    OBVIOUS
<1>q. PICK q : q = <<>>
    OBVIOUS
<1>t. PICK t : t = Replied(s, q)
    OBVIOUS
<1>1. /\ k \in 1..Len(conns) /\ k = session /\ s \in Conns
      /\ calls \in Nat /\ FlightOK(s, calls + 1)
      /\ \A c \in Callers : pc[c] = "probe" => Probing(s)
      /\ s.out # <<>> /\ s.awaiting # {}
    BY <1>s, ServerFacts
<1>2. q \in Seq(Answers) /\ \A i \in 1..Len(q) : q[i].id = Head(s.out).id
    BY <1>q
<1>3. Becomes(k, t) /\ Keeps(s, t)
    BY <1>1, <1>2, <1>q, <1>s, <1>t, ReplyEffect DEF IInv
<1>4. ASSUME NEW c \in Callers, pc[c] = "probe"
      PROVE  Probing(t)'
  <2>1. Probing(t)
      BY <1>1, <1>4, <1>q, <1>t, ProbingSwallow
  <2> QED
      BY <2>1 DEF Probing
<1>5. ASSUME NEW c \in Callers, pc[c] \in {"relock", "send", "read"}
      PROVE  FALSE
  <2>1. /\ pc[c] = "read" /\ Ready2Talk(c, s)
        /\ s.out = <<Message(c, Command(c))>>
      BY <1>1, <1>5, <1>s, TalkerFacts
  <2>2. Command(c) = "LITERAL"
      BY <1>1, <2>1 DEF Ready2Talk, Expected
  <2>3. Head(s.out).cmd = "LITERAL"
      BY <2>1, <2>2, ShortSequences DEF Message
  <2> QED
      BY <1>s, <2>3
<1>6. DraftsInv' /\ faults' \in Nat /\ UNCHANGED <<callerVars, session, calls>>
    BY DraftsKept, SameCalls DEF IInv, ControlInv, CallerTypes
<1> QED
    BY <1>1, <1>3, <1>4, <1>5, <1>6, <1>s, SameUids, ServerFrame

LEMMA TakeLiteralStep ==
    ASSUME IInv, NEW k, TakeLiteral(k)
    PROVE  IInv'
<1>1. /\ k \in DOMAIN conns /\ conns[k].up /\ conns[k].out # <<>>
      /\ UNCHANGED <<callerVars, lostVars, session, answer, calls, faults>>
    BY DEF TakeLiteral
<1>2. PICK m \in conns[k].awaiting :
         \/ /\ AppendDraft([key |-> m.subject], m.id)
            /\ born' = born \cup {<<nextUid, m.id>>}
            /\ Switches(k, Answer("ok", m, {}), {})
         \/ /\ Head(conns[k].out).cmd # "LITERAL"
            /\ Reply(k, <<>>)
            /\ UNCHANGED <<mailboxVars, born>>
    BY DEF TakeLiteral, Switches
<1>3. ASSUME AppendDraft([key |-> m.subject], m.id),
             born' = born \cup {<<nextUid, m.id>>},
             Switches(k, Answer("ok", m, {}), {})
      PROVE  IInv'
    BY <1>1, <1>3, LiteralStep
<1>4. ASSUME Head(conns[k].out).cmd # "LITERAL", Reply(k, <<>>),
             UNCHANGED <<mailboxVars, born>>
      PROVE  IInv'
    BY <1>1, <1>4, SwallowStep
<1> QED
    BY <1>2, <1>3, <1>4

-----------------------------------------------------------------------------
(* What the servers of lost connections do late.                           *)

(* The folder as a late command leaves it.                                 *)
LEMMA LateForm ==
    ASSUME IInv, NEW m \in orphans, Late(m)
    PROVE  /\ UNCHANGED <<callerVars, session, conns, answer, calls, faults>>
           /\ UNCHANGED <<call, pc>> /\ orphans' \subseteq orphans
           /\ DraftsInv' /\ UidsGrow
           /\ born \subseteq born' /\ late \subseteq late'
           /\ nextUid \in Nat
           /\ UNCHANGED nextUid \/ (nextUid' = nextUid + 1 /\ nextUid \in late')
           /\ \A d \in drafts : ~d.deleted /\ (m.cmd = "STORE" => d.uid # m.uid)
                 => d \in drafts'
           /\ \A d \in drafts' : \/ d.uid = nextUid
                                 \/ \E e \in drafts : /\ e.uid = d.uid
                                                      /\ e.deleted => d.deleted
<1>1. /\ UNCHANGED <<callerVars, session, conns, answer, calls, faults>>
      /\ UNCHANGED <<call, pc>> /\ orphans' \subseteq orphans
      /\ UNCHANGED <<call, answer>>
    BY DEF Late, callerVars
<1>2. m \in Messages /\ nextUid \in Nat
    BY DEF IInv, DraftsInv, MailTypes
<1>3. CASE /\ m.cmd = "APPEND" /\ AppendDraft([key |-> m.subject], m.id)
           /\ born' = born \cup {<<nextUid, m.id>>}
           /\ late' = late \cup {nextUid}
  <2>1. m.subject \in Subjects
      BY <1>3 DEF IInv, DraftsInv, StoreInv
  <2>2. /\ DraftsInv' /\ UidsGrow /\ nextUid \in Nat \ {0}
        /\ nextUid' = nextUid + 1
      BY <1>1, <1>2, <1>3, <2>1, OneMoreDraft DEF IInv
  <2>3. /\ \A d \in drafts : d \in drafts'
        /\ \A d \in drafts' : d.uid = nextUid \/ d \in drafts
      BY <1>3 DEF AppendDraft
  <2> QED
      BY <1>1, <1>3, <2>2, <2>3
<1>4. CASE m.cmd = "STORE" /\ FlagDraft(m.uid) /\ UNCHANGED <<born, late>>
  <2>1. DraftsInv' /\ UidsGrow
      BY <1>1, <1>4, FlagDrafts DEF IInv, FlagDraft, UidsGrow
  <2>2. \A d \in drafts : d.uid # m.uid => d \in drafts'
      BY <1>4 DEF FlagDraft
  <2>3. ASSUME NEW d \in drafts'
        PROVE  \E e \in drafts : e.uid = d.uid /\ (e.deleted => d.deleted)
      BY <1>4 DEF FlagDraft, DraftsWithUid, IInv, DraftsInv, MailTypes
  <2> QED
      BY <1>1, <1>2, <1>4, <2>1, <2>2, <2>3 DEF FlagDraft
<1>5. CASE m.cmd = "EXPUNGE" /\ ExpungeDrafts /\ UNCHANGED <<born, late>>
  <2>1. DraftsInv' /\ UidsGrow
      BY <1>1, <1>5, FewerDrafts DEF IInv, ExpungeDrafts, UidsGrow
  <2> QED
      BY <1>1, <1>2, <1>5, <2>1 DEF ExpungeDrafts
<1> QED
    BY <1>3, <1>4, <1>5 DEF Late

LEMMA LateStep ==
    ASSUME IInv, NEW m \in orphans, Late(m)
    PROVE  IInv'
<1>1. /\ UNCHANGED <<callerVars, session, conns, answer, calls, faults>>
      /\ UNCHANGED <<call, pc>> /\ orphans' \subseteq orphans
      /\ DraftsInv' /\ UidsGrow
      /\ born \subseteq born' /\ late \subseteq late' /\ nextUid \in Nat
      /\ UNCHANGED nextUid \/ (nextUid' = nextUid + 1 /\ nextUid \in late')
    BY LateForm
<1>2. /\ \A d \in drafts : ~d.deleted /\ (m.cmd = "STORE" => d.uid # m.uid)
            => d \in drafts'
      /\ \A d \in drafts' : \/ d.uid = nextUid
                            \/ \E e \in drafts : /\ e.uid = d.uid
                                                 /\ e.deleted => d.deleted
    BY LateForm
<1>3. ControlInv'
    BY <1>1, ControlKept DEF IInv, ControlInv, CallerTypes
<1>4. WireInv'
    BY <1>1, WireKept DEF IInv, WireInv, ConnInv
<1>5. ASSUME NEW c \in Callers, Own(c)
      PROVE  Own(c)'
  <2>1. PICK d \in drafts :
           /\ d.data = call[c].id /\ d.subject.key = call[c].subject
           /\ ~d.deleted
           /\ \A uid \in (d.uid + 1)..(nextUid - 1) : uid \in late
           /\ \A n \in orphans : n.cmd = "STORE" => n.uid < d.uid
      BY <1>5 DEF Own
  <2>2. d.uid \in Nat /\ m \in Messages
      BY DEF IInv, DraftsInv, MailTypes
  <2>3. d \in drafts'
      BY <1>2, <2>1, <2>2 DEF Messages
  <2>4. \A uid \in (d.uid + 1)..(nextUid' - 1) : uid \in late'
    <3> SUFFICES ASSUME NEW uid \in (d.uid + 1)..(nextUid' - 1)
                 PROVE  uid \in late'
        OBVIOUS
    <3>1. uid \in (d.uid + 1)..(nextUid - 1) \/ (uid = nextUid /\ nextUid \in late')
        BY <1>1, <2>2
    <3> QED
        BY <1>1, <2>1, <3>1
  <2> QED
      BY <1>1, <2>1, <2>3, <2>4 DEF Own
<1>6. ASSUME NEW c \in Callers, call[c].op = "delete"
      PROVE  (Flagged(c) => Flagged(c)') /\ (Gone(c) => Gone(c)')
  <2>1. call[c].uid # nextUid
      BY <1>1, <1>6 DEF IInv, DraftsInv, StoreInv, Assigned
  <2>2. call'[c].uid = call[c].uid
      BY <1>1
  <2>3. \A d \in drafts' : d.uid = call[c].uid =>
           \E e \in drafts : e.uid = call[c].uid /\ (e.deleted => d.deleted)
      BY <1>2, <2>1
  <2>4. Flagged(c) => Flagged(c)'
      BY <2>2, <2>3 DEF Flagged, DraftsWithUid
  <2>5. Gone(c) => Gone(c)'
      BY <2>2, <2>3 DEF Gone, DraftsWithUid
  <2> QED
      BY <2>4, <2>5
<1>7. ASSUME NEW c \in Callers, NEW hits, Newest(c, hits)
      PROVE  Newest(c, hits)'
    BY <1>1, <1>7, StaysAssigned DEF Newest
<1>8. ASSUME NEW c \in Callers, NEW s, Talking(c, s)
      PROVE  Talking(c, s)'
  <2>1. /\ Command(c)' = Command(c) /\ Ok(c)' = Ok(c) /\ Expected(c)' = Expected(c)
        /\ \A cmd : Message(c, cmd)' = Message(c, cmd)
        /\ call' = call /\ pc' = pc /\ calls' = calls
      BY <1>1 DEF Command, Ok, Expected, Message
  <2>2. Settled(c) => Settled(c)'
      BY <1>6, <2>1 DEF Settled
  <2>3. Answered(c, s) => Answered(c, s)'
      BY <1>1, <1>5, <1>7, <2>1, <2>2 DEF Answered
  <2>4. Ready2Talk(c, s) => Ready2Talk(c, s)'
      BY <1>5, <1>6, <2>1 DEF Ready2Talk
  <2>5. Dead(s) => Dead(s)'
      BY <2>1 DEF Dead
  <2> QED
      BY <1>8, <2>1, <2>3, <2>4, <2>5 DEF Talking
<1>9. TalkInv'
  <2>s. PICK s : s = conns[session]
      OBVIOUS
  <2>1. \A c \in Callers : pc[c] = "probe" => Probing(s)'
      BY <1>1, <2>s DEF IInv, TalkInv, Probing
  <2>2. \A c \in Callers : pc[c] \in {"relock", "send", "read"} => Talking(c, s)'
      BY <1>8, <2>s DEF IInv, TalkInv
  <2> QED
      BY <1>1, <2>1, <2>2, <2>s DEF TalkInv
<1> QED
    BY <1>1, <1>3, <1>4, <1>9 DEF IInv

-----------------------------------------------------------------------------
(* The invariant.                                                          *)

LEMMA IInvInit == Init => IInv
<1> SUFFICES ASSUME Init PROVE IInv
    OBVIOUS
<1>1. NoCall \in Calls /\ NoCall.hits = {} /\ NoCall.op = "none"
    BY DEF NoCall, Calls
<1>2. /\ \A c \in Callers : pc[c] = "idle" /\ call[c] = NoCall
      /\ pipeline = NoOne /\ lock = NoOne /\ calls = 0 /\ faults = 0
      /\ session = 0 /\ conns = <<>> /\ Len(conns) = 0
      /\ pc = [c \in Callers |-> "idle"] /\ call = [c \in Callers |-> NoCall]
    BY DEF Init, NoConnection
<1>3. ControlInv
  <2>1. CallerTypes
      BY <1>1, <1>2 DEF CallerTypes
  <2> QED
      BY <1>2, <2>1 DEF ControlInv, MutexInv, CallInv
<1>4. WireInv
  <2>1. conns \in Seq(Conns)
      BY <1>2
  <2> QED
      BY <1>2, <2>1 DEF WireInv, ConnTypes, ConnInv, FlightInv
<1>5. DraftsInv
  <2>1. answer.op = "none"
      BY DEF Init, NoAnswer
  <2> QED
      BY <1>1, <1>2, <2>1
      DEF Init, MailboxInit, DraftsInv, MailTypes, MailInv, AnswerInv, RightAnswer,
          StoreInv
<1>6. TalkInv
    BY <1>2 DEF TalkInv
<1> QED
    BY <1>3, <1>4, <1>5, <1>6 DEF IInv

LEMMA StutterStep ==
    ASSUME IInv, UNCHANGED vars
    PROVE  IInv'
<1>1. /\ UNCHANGED <<callerVars, calls>> /\ faults' \in Nat
      /\ UNCHANGED <<mailboxVars, lostVars, born, answer>>
      /\ pc' = pc /\ conns' = conns /\ session' = session /\ call' = call
    BY DEF vars, callerVars, IInv, ControlInv, CallerTypes
<1>2. ControlInv' /\ DraftsInv'
    BY <1>1, ControlKept, DraftsKept, SameCalls DEF IInv
<1>3. WireInv'
    BY <1>1, WireKept, SameUids DEF IInv, WireInv, ConnInv, vars
<1>4. TalkInv'
  <2>1. ASSUME NEW c \in Callers, NEW s
        PROVE  (Probing(s)' <=> Probing(s)) /\ (Talking(c, s)' <=> Talking(c, s))
    <3>1. /\ calls' = calls /\ nextUid' = nextUid /\ born' = born
          /\ drafts' = drafts /\ orphans' = orphans /\ late' = late
        BY DEF vars, mailboxVars, lostVars
    <3>2. /\ Own(c)' = Own(c) /\ Command(c)' = Command(c) /\ Ok(c)' = Ok(c)
          /\ Expected(c)' = Expected(c)
          /\ \A cmd : Message(c, cmd)' = Message(c, cmd)
          /\ Flagged(c)' = Flagged(c) /\ Gone(c)' = Gone(c)
        BY <1>1, <3>1
        DEF Own, Command, Ok, Expected, Message, Flagged, Gone, DraftsWithUid
    <3>s. Settled(c)' <=> Settled(c)
        BY <1>1, <3>2 DEF Settled
    <3>n. \A hits : Newest(c, hits)' <=> Newest(c, hits)
        BY <1>1, <3>1 DEF Newest, Assigned
    <3>3. Answered(c, s)' <=> Answered(c, s)
        BY <1>1, <3>1, <3>2, <3>n, <3>s DEF Answered
    <3>4. Ready2Talk(c, s)' <=> Ready2Talk(c, s)
        BY <1>1, <3>2 DEF Ready2Talk
    <3> QED
        BY <1>1, <3>1, <3>2, <3>3, <3>4 DEF Probing, Talking, Dead
  <2> QED
      BY <1>1, <2>1 DEF IInv, TalkInv
<1> QED
    BY <1>2, <1>3, <1>4 DEF IInv

LEMMA IInvNext == IInv /\ [Next]_vars => IInv'
<1> SUFFICES ASSUME IInv, [Next]_vars PROVE IInv'
    OBVIOUS
<1>1. ASSUME NEW c \in Callers, NewCall(c)
      PROVE  IInv'
    BY <1>1, CallStep
<1>2. ASSUME NEW c \in Callers, CallerStep(c)
      PROVE  IInv'
    BY <1>2, EnsureStep, ProbeStep, ConnectStep, RelockStep, SendStep,
       ReadGoAheadStep, ReadAnswerStep, ReadEndStep DEF CallerStep
<1>3. ASSUME NEW c \in Callers, Drop(c)
      PROVE  IInv'
    BY <1>3, DropStep
<1>4. ASSUME NEW k, ServerStep(k)
      PROVE  IInv'
    BY <1>4, ServeStep, TakeLiteralStep DEF ServerStep
<1>5. ASSUME NEW k, Autologout(k) \/ Break(k) \/ Refuse(k)
      PROVE  IInv'
    BY <1>5, AutologoutStep, BreakStep, RefuseStep
<1>6. ASSUME NEW m \in orphans, Late(m)
      PROVE  IInv'
    BY <1>6, LateStep
<1>7. ASSUME UNCHANGED vars
      PROVE  IInv'
    BY <1>7, StutterStep
<1> QED
    BY <1>1, <1>2, <1>3, <1>4, <1>5, <1>6, <1>7 DEF Next

LEMMA IInvCorrect == Spec => []IInv
BY IInvInit, IInvNext, PTL DEF Spec

LEMMA IInvTypes == IInv => TypeOK
<1> SUFFICES ASSUME IInv PROVE TypeOK
    OBVIOUS
<1>1. DOMAIN Script = {"create", "get", "delete"}
    BY DEF Script
<1>2. ASSUME NEW c \in Callers
      PROVE  \/ call[c] = NoCall
             \/ /\ call[c].op \in DOMAIN Script
                /\ call[c].step \in DOMAIN Script[call[c].op]
  <2>1. ASSUME NEW op \in {"create", "get", "delete"}
        PROVE  DOMAIN Script[op] = 1..Len(Script[op])
      BY DEF Script
  <2> QED
      BY <1>1, <2>1 DEF IInv, ControlInv, CallInv
<1>3. conns \in Seq([up: BOOLEAN, out: Seq(Messages), in: Seq(Answers),
                     awaiting: SUBSET Messages])
    BY DEF IInv, WireInv, ConnTypes, Conns
<1>4. session \in 0..Len(conns)
    BY DEF IInv, WireInv, ConnTypes, ConnInv
<1> QED
    BY <1>2, <1>3, <1>4 DEF TypeOK, IInv, ControlInv, CallerTypes, DraftsInv, MailTypes

LEMMA IInvInSync == IInv => InSync
<1> SUFFICES ASSUME IInv, NEW c \in Callers,
                    pc[c] \in {"relock", "send", "read"}, conns[session].up,
                    NEW m \in InFlight(session)
             PROVE  m.id = call[c].id
    BY DEF InSync
<1>s. PICK s : s = conns[session]
    OBVIOUS
<1>1. Talking(c, s) /\ ~Dead(s)
    BY <1>s DEF IInv, TalkInv, Dead
<1>2. /\ m \in {s.out[i] : i \in DOMAIN s.out} \cup {s.in[i] : i \in DOMAIN s.in}
               \cup s.awaiting
    BY <1>s DEF InFlight, Outgoing
<1>3. \A x \in s.awaiting : x.id = call[c].id
    BY <1>1 DEF Talking, Ready2Talk, Expected, Answered, Message
<1>4. \A i \in DOMAIN s.out : s.out[i].id = call[c].id
    BY <1>1 DEF Talking, Message
<1>5. \A i \in DOMAIN s.in : s.in[i].id = call[c].id
  <2>1. \A kind, cmd, value : Answer(kind, Message(c, cmd), value).id = call[c].id
      BY DEF Answer, Message
  <2>2. Ok(c).id = call[c].id
      BY <2>1 DEF Ok
  <2>3. \/ s.in = <<>>
        \/ \E kind, cmd, value : s.in = <<Answer(kind, Message(c, cmd), value)>>
        \/ s.in = <<Ok(c)>>
        \/ \E kind, cmd, value :
              s.in = <<Answer(kind, Message(c, cmd), value), Ok(c)>>
    <3>1. s.in = <<>> \/ Answered(c, s)
        BY <1>1 DEF Talking, Ready2Talk
    <3> QED
        BY <3>1 DEF Answered
  <2> QED
      BY <2>1, <2>2, <2>3
<1> QED
    BY <1>2, <1>3, <1>4, <1>5

(* Every variable of gmail.rs, its connections and the folder has its      *)
(* type, whatever is dropped, refused or lost.                             *)
THEOREM SessionTypeCorrect == Spec => []TypeOK
BY IInvCorrect, IInvTypes, PTL

(* The mutex that ensure_session lets go of before the command it is for:  *)
(* once a call is past ensure_session, all that is in flight on a live     *)
(* connection is its own, so that no answer is taken for another's and no  *)
(* command of a dropped request reaches the server by that connection.     *)
THEOREM ConnectionIsInSync == Spec => []InSync
BY IInvCorrect, IInvInSync, PTL

(* create_draft searches for the subject and takes the largest UID: it is  *)
(* that of the message the call appended, or of one that the server of a   *)
(* lost connection appended late.  get_draft returns the content that was  *)
(* appended with the UID it is given, and after a delete_draft none of     *)
(* whose errors were ignored the UID is gone for good.  This holds whatever*)
(* calls are dropped, whatever is refused, and whatever the servers of     *)
(* connections that were lost or replaced still carry out.                 *)
THEOREM AnswersAreRight == Spec => []RightAnswer
<1>1. IInv => RightAnswer
    BY DEF IInv, DraftsInv, AnswerInv
<1> QED
    BY <1>1, IInvCorrect, PTL
=============================================================================
