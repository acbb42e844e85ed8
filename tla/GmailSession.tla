---------------------------- MODULE GmailSession ----------------------------
(***************************************************************************)
(* GmailProvider (src/src/email/gmail.rs): the IMAP session behind         *)
(* create_draft, get_draft and delete_draft, and the server it talks to.   *)
(*                                                                         *)
(* The session is an Option behind a mutex.  A call first runs             *)
(* ensure_session, which probes it with a NOOP and replaces it if that     *)
(* fails, and lets go of the mutex; then it takes the mutex again and      *)
(* sends its commands.  A call that is dropped leaves whatever it has sent *)
(* on a connection that the next call inherits.  Callers are the methods   *)
(* of StoragePipeline, which run under the mutex AppState.pipeline.        *)
(*                                                                         *)
(* The library (async-imap) and the server are modelled from how the code  *)
(* uses them: a command waits for its own tagged answer and skips          *)
(* everything before it, except that APPEND takes the next answer for the  *)
(* go-ahead to send its literal; the server handles a connection's         *)
(* commands in order, and a server that awaits a literal takes the next    *)
(* bytes for it, whatever they are.  The server's end of a connection that *)
(* is lost may carry out what reached it whole at any later time.          *)
(***************************************************************************)
EXTENDS DraftMailbox, Sequences

CONSTANTS
    Callers,        \* requests that call the provider
    NoOne,          \* a free mutex
    Subjects,       \* the subjects of drafts, up to what the search compares
    MaxCalls,       \* bound: calls made in a behaviour
    MaxFaults       \* bound: dropped calls, failures and refusals

ASSUME SessionAssumption ==
    /\ NoOne \notin Callers
    /\ MaxCalls \in Nat
    /\ MaxFaults \in Nat

VARIABLES
    pipeline,       \* who holds AppState.pipeline
    lock,           \* who holds GmailProvider.session
    session,        \* the connection in it, or NoConnection
    pc,             \* what each caller does
    call,           \* its call: method, arguments, next command, UIDs found
    conns,          \* the connections made so far
    orphans,        \* commands that a server may still carry out although
                    \* the connection they came by is lost
    born,           \* history: <<uid, number of the call that appended it>>
    late,           \* history: the UIDs of messages that orphans appended
    answer,         \* history: the last Ok that a call returned
    calls,          \* calls made so far
    faults          \* faults so far

callerVars == <<pipeline, lock, pc, call>>
lostVars == <<orphans, late>>
vars == <<mailboxVars, callerVars, lostVars, session, conns, born, answer,
          calls, faults>>

NoConnection == 0

(* The commands of each method; LITERAL is the second half of APPEND.      *)
Script ==
    [create |-> <<"APPEND", "LITERAL", "SELECT", "SEARCH">>,
     get    |-> <<"SELECT", "FETCH">>,
     delete |-> <<"SELECT", "STORE", "EXPUNGE">>]

(* ignored is history: the call has gone on after a refusal or the end of  *)
(* the stream.                                                             *)
NoCall == [op |-> "none", id |-> 0, subject |-> "none", uid |-> 0,
           step |-> 1, hits |-> {}, ignored |-> FALSE]

NoAnswer == [op |-> "none", id |-> 0, uid |-> 0, value |-> 0,
             ignored |-> FALSE]

(* up: neither side has closed it; out, in: bytes under way to the server  *)
(* and to the client; awaiting: the APPEND whose literal the server awaits.*)
FreshConnection == [up |-> TRUE, out |-> <<>>, in |-> <<>>, awaiting |-> {}]

Init ==
    /\ MailboxInit
    /\ pipeline = NoOne
    /\ lock = NoOne
    /\ session = NoConnection
    /\ pc = [c \in Callers |-> "idle"]
    /\ call = [c \in Callers |-> NoCall]
    /\ conns = <<>>
    /\ orphans = {}
    /\ born = {}
    /\ late = {}
    /\ answer = NoAnswer
    /\ calls = 0
    /\ faults = 0

Goto(c, label) == pc' = [pc EXCEPT ![c] = label]

Command(c) == Script[call[c].op][call[c].step]

(* What a caller puts on the wire.  The number of the call and the name of *)
(* the command stand for the command's tag.                                *)
Message(c, cmd) == [cmd |-> cmd, id |-> call[c].id,
                    subject |-> call[c].subject, uid |-> call[c].uid]

Write(c, cmd) ==
    conns' = [conns EXCEPT ![session].out = Append(@, Message(c, cmd))]

Answer(kind, m, value) ==
    [kind |-> kind, id |-> m.id, cmd |-> m.cmd, value |-> value]

(* The call is over: its guards go, what it has sent stays.                *)
Leave(c) ==
    /\ Goto(c, "idle")
    /\ call' = [call EXCEPT ![c] = NoCall]
    /\ pipeline' = NoOne
    /\ lock' = IF lock = c THEN NoOne ELSE lock

Return(c, value, ignored) ==
    /\ Leave(c)
    /\ answer' = [op |-> call[c].op, id |-> call[c].id, uid |-> call[c].uid,
                  value |-> value, ignored |-> ignored]

Fail(c) == Leave(c) /\ UNCHANGED answer

-----------------------------------------------------------------------------
(* Calls.                                                                  *)

(* Mutation: the pipeline is called without its mutex.                     *)
CanCallAnytime(c) == pc[c] = "idle" /\ calls < MaxCalls

CanCall(c) == pc[c] = "idle" /\ calls < MaxCalls /\ pipeline = NoOne

Call(c, op, subject, uid) ==
    /\ CanCall(c)
    /\ pipeline' = c
    /\ calls' = calls + 1
    /\ call' = [call EXCEPT ![c] = [NoCall EXCEPT
                    !.op = op, !.id = calls + 1, !.subject = subject,
                    !.uid = uid]]
    /\ Goto(c, "ensure")
    /\ UNCHANGED <<mailboxVars, lostVars, lock, session, conns, born, answer,
                   faults>>

(* Any UID that has been assigned: its message may be gone.                *)
NewCall(c) ==
    \/ \E s \in Subjects : Call(c, "create", s, 0)
    \/ \E uid \in 1..(nextUid - 1), op \in {"get", "delete"} :
          Call(c, op, "none", uid)

-----------------------------------------------------------------------------
(* ensure_session.                                                         *)

(* Mutation: the guard outlives ensure_session.                            *)
KeepGuard == UNCHANGED lock

Unlock == lock' = NoOne

Ensure(c) ==
    /\ pc[c] = "ensure"
    /\ lock = NoOne
    /\ lock' = c
    /\ \/ /\ session = NoConnection
          /\ Goto(c, "connect")
          /\ UNCHANGED conns
       \/ /\ session # NoConnection
          /\ Goto(c, "probe")
          /\ Write(c, "NOOP")
    /\ UNCHANGED <<mailboxVars, lostVars, pipeline, session, call, born,
                   answer, calls, faults>>

(* The next answer in the receive buffer, and the end of the stream.       *)
Arrived == conns[session].in # <<>>
NextAnswer == Head(conns[session].in)
Consume == conns' = [conns EXCEPT ![session].in = Tail(@)]
AtEnd == ~Arrived /\ ~conns[session].up

(* Is r the tagged answer of command cmd of this call?                     *)
Completes(c, r, cmd) ==
    r.kind \in {"ok", "no"} /\ r.id = call[c].id /\ r.cmd = cmd

(* NOOP is answered, by skipping what an earlier call left unread; a       *)
(* refusal, whomever it was for, and a dead connection mean to reconnect.  *)
Probe(c) ==
    /\ pc[c] = "probe"
    /\ \/ /\ Arrived
          /\ Consume
          /\ \/ /\ NextAnswer.kind = "no"
                /\ Goto(c, "connect")
                /\ UNCHANGED lock
             \/ /\ NextAnswer.kind = "ok"
                /\ Completes(c, NextAnswer, "NOOP")
                /\ Goto(c, "relock")
                /\ Unlock
             \/ /\ NextAnswer.kind # "no"
                /\ ~Completes(c, NextAnswer, "NOOP")
                /\ UNCHANGED <<pc, lock>>
       \/ /\ AtEnd
          /\ Goto(c, "connect")
          /\ UNCHANGED <<lock, conns>>
    /\ UNCHANGED <<mailboxVars, lostVars, pipeline, session, call, born,
                   answer, calls, faults>>

Outgoing(k) == {conns[k].out[i] : i \in DOMAIN conns[k].out}

(* What the server's end of a connection may still carry out if the        *)
(* connection is lost now: the whole commands under way that change the    *)
(* folder, and the APPEND whose literal is under way.                      *)
Leftovers(k) ==
    {m \in Outgoing(k) : /\ m.cmd \in {"STORE", "EXPUNGE"}
                         /\ conns[k].awaiting = {}} \cup
    {m \in conns[k].awaiting : /\ conns[k].out # <<>>
                               /\ Head(conns[k].out).cmd = "LITERAL"}

(* connect: log in, create the folder (an error of which is ignored).  The *)
(* session it replaces is dropped, which closes its connection.            *)
Connect(c) ==
    /\ pc[c] = "connect"
    /\ orphans' = orphans \cup
                    UNION {Leftovers(k) : k \in {j \in DOMAIN conns :
                                                    conns[j].up}}
    /\ conns' = Append([k \in DOMAIN conns |-> [conns[k] EXCEPT !.up = FALSE]],
                       FreshConnection)
    /\ session' = Len(conns) + 1
    /\ Unlock
    /\ Goto(c, "relock")
    /\ UNCHANGED <<mailboxVars, late, pipeline, call, born, answer, calls,
                   faults>>

-----------------------------------------------------------------------------
(* The commands.                                                           *)

Relock(c) ==
    /\ pc[c] = "relock"
    /\ lock = NoOne
    /\ \/ /\ session # NoConnection
          /\ lock' = c
          /\ Goto(c, "send")
          /\ UNCHANGED <<pipeline, call, answer>>
       \/ /\ session = NoConnection
          /\ Fail(c)
    /\ UNCHANGED <<mailboxVars, lostVars, session, conns, born, calls, faults>>

(* A write to a connection that is closed may or may not be an error.      *)
Send(c) ==
    /\ pc[c] = "send"
    /\ \/ /\ Write(c, Command(c))
          /\ Goto(c, "read")
          /\ UNCHANGED <<pipeline, lock, call, answer>>
       \/ /\ ~conns[session].up
          /\ Fail(c)
          /\ UNCHANGED conns
    /\ UNCHANGED <<mailboxVars, lostVars, session, born, calls, faults>>

(* Mutation: the first UID found is taken.                                 *)
OldestHit(hits) == CHOOSE uid \in hits : \A other \in hits : uid <= other

NewestHit(hits) == CHOOSE uid \in hits : \A other \in hits : other <= uid

(* Mutation: one command more than there are.                              *)
PastEnd(c) == call[c].step <= Len(Script[call[c].op])

HasNext(c) == call[c].step < Len(Script[call[c].op])

(* The command is done: the next one, or the method's result.              *)
Proceed(c, ignored) ==
    \/ /\ HasNext(c)
       /\ call' = [call EXCEPT ![c].step = @ + 1, ![c].ignored = ignored]
       /\ Goto(c, "send")
       /\ UNCHANGED <<pipeline, lock, answer>>
    \/ /\ Command(c) = "EXPUNGE"
       /\ Return(c, 0, ignored)
    \/ /\ Command(c) = "SEARCH"
       /\ call[c].hits # {}
       /\ Return(c, NewestHit(call[c].hits), FALSE)
    \/ /\ Command(c) = "SEARCH" /\ call[c].hits = {}
       /\ Fail(c)
    \/ /\ Command(c) = "FETCH"
       /\ Fail(c)

(* APPEND: the next answer is the go-ahead, or the call fails.             *)
ReadGoAhead(c) ==
    /\ pc[c] = "read" /\ Command(c) = "APPEND" /\ Arrived
    /\ Consume
    /\ IF NextAnswer.kind = "cont" THEN Proceed(c, FALSE) ELSE Fail(c)
    /\ UNCHANGED <<mailboxVars, lostVars, session, born, calls, faults>>

(* The result of a literal is tagged as its APPEND.                        *)
Tagged(cmd) == IF cmd = "LITERAL" THEN "APPEND" ELSE cmd

(* delete_draft reads the answers of STORE and EXPUNGE to their end and    *)
(* looks at none of them.                                                  *)
Ignored == {"STORE", "EXPUNGE"}

(* What a FETCH and a SEARCH look for among the answers.                   *)
IsResult(c, r) ==
    \/ Command(c) = "FETCH" /\ r.kind = "body"
    \/ Command(c) = "SEARCH" /\ r.kind = "hits"

(* Every other command reads up to its own tagged answer, where a refusal  *)
(* is an error.  get_draft stops at the first body, with the tagged answer *)
(* still to come.                                                          *)
ReadAnswer(c) ==
    /\ pc[c] = "read" /\ Command(c) # "APPEND" /\ Arrived
    /\ Consume
    /\ \/ /\ Completes(c, NextAnswer, Tagged(Command(c)))
          /\ IF NextAnswer.kind = "ok" \/ Command(c) \in Ignored
             THEN Proceed(c, call[c].ignored \/ NextAnswer.kind = "no")
             ELSE Fail(c)
       \/ /\ IsResult(c, NextAnswer) /\ Command(c) = "FETCH"
          /\ \E data \in NextAnswer.value : Return(c, data, FALSE)
       \/ /\ IsResult(c, NextAnswer) /\ Command(c) = "SEARCH"
          /\ call' = [call EXCEPT ![c].hits = @ \cup NextAnswer.value]
          /\ UNCHANGED <<pipeline, lock, pc, answer>>
       \/ /\ ~Completes(c, NextAnswer, Tagged(Command(c)))
          /\ ~IsResult(c, NextAnswer)
          /\ UNCHANGED <<callerVars, answer>>
    /\ UNCHANGED <<mailboxVars, lostVars, session, born, calls, faults>>

(* The connection is gone.                                                 *)
ReadEnd(c) ==
    /\ pc[c] = "read" /\ AtEnd
    /\ IF Command(c) \in Ignored THEN Proceed(c, TRUE) ELSE Fail(c)
    /\ UNCHANGED <<mailboxVars, lostVars, session, conns, born, calls, faults>>

-----------------------------------------------------------------------------
(* The server.                                                             *)

Reply(k, answers) ==
    conns' = [conns EXCEPT ![k].out = Tail(@), ![k].in = @ \o answers]

Ready(k) == conns[k].out # <<>> /\ conns[k].awaiting = {}

Serve(k) ==
    /\ k \in DOMAIN conns /\ conns[k].up /\ Ready(k)
    /\ LET m  == Head(conns[k].out)
           ok == Answer("ok", m, {})
       IN \/ /\ m.cmd \in {"NOOP", "SELECT"}
             /\ Reply(k, <<ok>>)
             /\ UNCHANGED mailboxVars
          \/ /\ m.cmd = "APPEND"
             /\ conns' = [conns EXCEPT
                    ![k].out = Tail(@), ![k].awaiting = {m},
                    ![k].in = Append(@, Answer("cont", m, {}))]
             /\ UNCHANGED mailboxVars
          \/ /\ m.cmd = "SEARCH"
             /\ Reply(k, <<Answer("hits", m, SearchHits(drafts,
                                        [key |-> m.subject])), ok>>)
             /\ UNCHANGED mailboxVars
          \/ /\ m.cmd = "FETCH"
             /\ \/ \E d \in DraftsWithUid(m.uid) :
                     Reply(k, <<Answer("body", m, {d.data}), ok>>)
                \/ DraftsWithUid(m.uid) = {} /\ Reply(k, <<ok>>)
             /\ UNCHANGED mailboxVars
          \/ /\ m.cmd = "STORE"
             /\ Reply(k, <<ok>>)
             /\ FlagDraft(m.uid)
          \/ /\ m.cmd = "EXPUNGE"
             /\ Reply(k, <<ok>>)
             /\ ExpungeDrafts
    /\ UNCHANGED <<callerVars, lostVars, session, born, answer, calls, faults>>

(* The server awaits a literal: the bytes of the APPEND's caller make it   *)
(* whole; a later command is only a few more bytes of it.                  *)
TakeLiteral(k) ==
    /\ k \in DOMAIN conns /\ conns[k].up /\ conns[k].out # <<>>
    /\ \E m \in conns[k].awaiting :
         \/ /\ Head(conns[k].out).cmd = "LITERAL"
            /\ AppendDraft([key |-> m.subject], m.id)
            /\ born' = born \cup {<<nextUid, m.id>>}
            /\ conns' = [conns EXCEPT ![k].out = Tail(@), ![k].awaiting = {},
                                ![k].in = Append(@, Answer("ok", m, {}))]
         \/ /\ Head(conns[k].out).cmd # "LITERAL"
            /\ Reply(k, <<>>)
            /\ UNCHANGED <<mailboxVars, born>>
    /\ UNCHANGED <<callerVars, lostVars, session, answer, calls, faults>>

(* A server may tire of waiting for the rest of a literal.  A caller that  *)
(* is still there sends it in time.                                        *)
Autologout(k) ==
    /\ k \in DOMAIN conns /\ conns[k].up /\ conns[k].out = <<>>
    /\ \E m \in conns[k].awaiting : \A c \in Callers : call[c].id # m.id
    /\ conns' = [conns EXCEPT ![k].up = FALSE]
    /\ UNCHANGED <<mailboxVars, callerVars, lostVars, session, born, answer,
                   calls, faults>>

(* The server's end of a connection that the program has given up, or      *)
(* lost, carries out what it was sent there.                               *)
Late(m) ==
    /\ m \in orphans
    /\ orphans' = orphans \ {m}
    /\ \/ /\ m.cmd = "APPEND"
          /\ AppendDraft([key |-> m.subject], m.id)
          /\ born' = born \cup {<<nextUid, m.id>>}
          /\ late' = late \cup {nextUid}
       \/ /\ m.cmd = "STORE"
          /\ FlagDraft(m.uid)
          /\ UNCHANGED <<born, late>>
       \/ /\ m.cmd = "EXPUNGE"
          /\ ExpungeDrafts
          /\ UNCHANGED <<born, late>>
    /\ UNCHANGED <<callerVars, session, conns, answer, calls, faults>>

-----------------------------------------------------------------------------
(* Faults.                                                                 *)

Fault == faults < MaxFaults /\ faults' = faults + 1

(* The request is dropped at whatever it awaits (the write of a literal    *)
(* included: the server has then been sent a part of it), or connect       *)
(* fails; the Option keeps what it held.                                   *)
Drop(c) ==
    /\ Fault
    /\ pc[c] # "idle"
    /\ Fail(c)
    /\ UNCHANGED <<mailboxVars, lostVars, session, conns, born, calls>>

(* The connection is lost.  What the server has not handled by then it may *)
(* handle later, or never; nobody reads its answers.                       *)
Break(k) ==
    /\ Fault
    /\ k \in DOMAIN conns /\ conns[k].up
    /\ orphans' = orphans \cup Leftovers(k)
    /\ conns' = [conns EXCEPT ![k] = [FreshConnection EXCEPT !.up = FALSE]]
    /\ UNCHANGED <<mailboxVars, callerVars, late, session, born, answer,
                   calls>>

(* The server answers NO.                                                  *)
Refuse(k) ==
    /\ Fault
    /\ k \in DOMAIN conns /\ conns[k].up /\ Ready(k)
    /\ Reply(k, <<Answer("no", Head(conns[k].out), {})>>)
    /\ UNCHANGED <<mailboxVars, callerVars, lostVars, session, born, answer,
                   calls>>

-----------------------------------------------------------------------------
CallerStep(c) ==
    \/ Ensure(c) \/ Probe(c) \/ Connect(c) \/ Relock(c)
    \/ Send(c) \/ ReadGoAhead(c) \/ ReadAnswer(c) \/ ReadEnd(c)

ServerStep(k) == Serve(k) \/ TakeLiteral(k)

(* A connection is replaced only after a fault.                            *)
Connections == 1..(MaxFaults + 1)

Next ==
    \/ \E c \in Callers :
          NewCall(c) \/ CallerStep(c) \/ Drop(c)
    \/ \E k \in Connections :
          ServerStep(k) \/ Autologout(k) \/ Break(k) \/ Refuse(k)
    \/ \E m \in orphans : Late(m)

Spec == Init /\ [][Next]_vars

-----------------------------------------------------------------------------
(* Correctness.                                                            *)

Commands == {"NOOP", "APPEND", "LITERAL", "SELECT", "SEARCH", "FETCH",
             "STORE", "EXPUNGE"}

Messages == [cmd: Commands, id: Nat, subject: Subjects \cup {"none"},
             uid: Nat]

Answers == [kind: {"ok", "no", "cont", "hits", "body"}, id: Nat,
            cmd: Commands, value: SUBSET Nat]

(* Every variable has its type.                                            *)
TypeOK ==
    /\ drafts \subseteq [uid: Nat, subject: [key: Subjects], data: Nat,
                         deleted: BOOLEAN]
    /\ nextUid \in Nat \ {0}
    /\ pipeline \in Callers \cup {NoOne} /\ lock \in Callers \cup {NoOne}
    /\ session \in 0..Len(conns)
    /\ pc \in [Callers -> {"idle", "ensure", "probe", "connect", "relock",
                           "send", "read"}]
    /\ \A c \in Callers :
         \/ call[c] = NoCall
         \/ /\ call[c].op \in DOMAIN Script
            /\ call[c].step \in DOMAIN Script[call[c].op]
    /\ conns \in Seq([up: BOOLEAN, out: Seq(Messages), in: Seq(Answers),
                      awaiting: SUBSET Messages])
    /\ orphans \subseteq Messages /\ late \subseteq Nat
    /\ calls \in Nat /\ faults \in Nat

InFlight(k) == Outgoing(k) \cup
               {conns[k].in[i] : i \in DOMAIN conns[k].in} \cup
               conns[k].awaiting

(* The gap between ensure_session and the command it is for is harmless:   *)
(* once a call is past ensure_session, nothing that an earlier call left   *)
(* behind is on its connection, so no answer can be taken for another's    *)
(* and no command of a dropped request reaches the server by it.  Commands *)
(* that were sent by a lost connection are another matter: see below.      *)
InSync ==
    \A c \in Callers :
        /\ pc[c] \in {"relock", "send", "read"}
        /\ conns[session].up
        =>  \A m \in InFlight(session) : m.id = call[c].id

(* What the EmailProvider can be relied on for, whatever was dropped,      *)
(* refused or lost before.  create_draft returns the UID of the message it *)
(* appended, or else of one that the server of a lost connection appended  *)
(* late; get_draft the content of the message with the UID it was given,   *)
(* though it may be gone by now; after delete_draft the message is gone,   *)
(* unless an error of its STORE or its EXPUNGE was ignored.                *)
RightAnswer ==
    /\ answer.op = "create" => \/ <<answer.value, answer.id>> \in born
                               \/ answer.value \in late
    /\ answer.op = "get" => <<answer.uid, answer.value>> \in born
    /\ answer.op = "delete" /\ ~answer.ignored
        => DraftsWithUid(answer.uid) = {}

(* email/provider.rs:9, create_draft(): "Returns the IMAP UID of the       *)
(* created draft message."                                                 *)
ReturnsOwnDraft ==
    answer.op = "create" => <<answer.value, answer.id>> \in born

-----------------------------------------------------------------------------
(* Liveness.                                                               *)

(* The server answers what it has been sent; tokio polls a ready task.     *)
Fairness ==
    /\ \A c \in Callers : WF_vars(CallerStep(c))
    /\ \A k \in Connections : WF_vars(ServerStep(k))

FairSpec == Spec /\ Fairness

(* A server that closes a connection whose literal does not come.          *)
ImpatientSpec == FairSpec /\ \A k \in Connections : WF_vars(Autologout(k))

(* Every call ends, if the server closes connections that stay silent: the *)
(* code itself has no timeout anywhere.                                    *)
CallsEnd == \A c \in Callers : pc[c] # "idle" ~> pc[c] = "idle"

(* gmail.rs:153, ensure_session(): "Reconnect if the session is stale",    *)
(* "Try a NOOP to see if connection is alive": the attempt ends.           *)
ProbeEnds == \A c \in Callers : pc[c] = "probe" ~> pc[c] # "probe"
=============================================================================
