------------------------------ MODULE Transport ------------------------------
(***************************************************************************)
(* gossip::Transport: the asynchronous pulls of one node and the peers     *)
(* that answer them.  A pull opens a connection, writes one framed request *)
(* and reads one framed answer; the io thread runs every completion, and   *)
(* pull_sessions_ lets the destructor find the sessions under way.         *)
(*                                                                         *)
(* A frame is a header that says how long the body is, and the body.  The  *)
(* bytes themselves are left out: a stream is the number of bytes that are *)
(* on the wire, a decoder the number it has taken, and a frame a length.   *)
(* What TCP does to a frame is kept: it arrives cut anywhere, the header   *)
(* included, a write_some may put only its beginning on the wire, and the  *)
(* connection may break between any two pieces.                            *)
(***************************************************************************)
EXTENDS Integers, FiniteSets, FiniteSetsExt

CONSTANTS
    PullId,         \* the pulls of one run
    HeaderBytes,    \* Message::kHeaderBytes
    BodyBytes,      \* the lengths of the bodies of requests and answers
    BufferBytes     \* PullSession::kMaxBufferSize and the receiver's 1024

ASSUME TransportAssumption ==
    /\ HeaderBytes \in Nat \ {0}
    /\ BodyBytes \subseteq Nat /\ BodyBytes # {}
    /\ BufferBytes \in Nat \ {0}

VARIABLES
    pull,           \* where a pull is, see Phase
    pullSessions,   \* pull_sessions_
    request,        \* the request on its way: what Stream holds
    answer,         \* and the answer
    results,        \* history: what did_pull was called with, in number by outcome
    transport,      \* "runs", "cancels" or is "gone"
    toCancel        \* the sessions CancelAllSessions has copied and not yet cancelled

transportVars == <<pull, pullSessions, request, answer, results, transport, toCancel>>

(***************************************************************************)
(*   idle      Pull has not been called                                    *)
(*   refused   the connection failed, the error is posted to the io thread *)
(*   writing   async_write_some of the request                             *)
(*   reading   async_read_some of the answer                               *)
(*   closed    Cancel has closed the socket, the completion is to come     *)
(*   ended     the session is destroyed                                    *)
(***************************************************************************)
Phase == {"idle", "refused", "writing", "reading", "closed", "ended"}

InSession == {"writing", "reading", "closed"}

\* A stream: the frame's body, the bytes on the wire, the bytes decoded, and
\* whether the writer's end is still there.
Stream == [body : BodyBytes, wire : Nat, got : Nat, open : BOOLEAN]

NoStream == [body |-> CHOOSE b \in BodyBytes : TRUE, wire |-> 0, got |-> 0, open |-> TRUE]

NoResult == [ok |-> 0, error |-> 0]

TransportInit ==
    /\ pull = [p \in PullId |-> "idle"]
    /\ pullSessions = {}
    /\ request = [p \in PullId |-> NoStream]
    /\ answer = [p \in PullId |-> NoStream]
    /\ results = [p \in PullId |-> NoResult]
    /\ transport = "runs"
    /\ toCancel = {}

FrameBytes(s) == HeaderBytes + s.body

IsSatisfied(s) == s.got = FrameBytes(s)

\* Message::Decode of the next n bytes: what is missing of the header, then as
\* much of the body as the header asks for.
Decode(s, n) ==
    LET header == IF s.got >= HeaderBytes THEN 0 ELSE Min({n, HeaderBytes - s.got})
        body == IF s.got + header < HeaderBytes THEN 0
                ELSE Min({n - header, FrameBytes(s) - (s.got + header)})
    IN  header + body

\* One read of at most a buffer, and the decoding of what it brought.
Received(s, n) ==
    [s EXCEPT !.wire = @ - n, !.got = @ + Decode(s, n)]

Reads(s) == 1 .. Min({s.wire, BufferBytes})

\* write_some of a frame of some length: all of it, or its beginning.
Written(b, n) == [body |-> b, wire |-> n, got |-> 0, open |-> TRUE]

Called(p, outcome) == results' = [results EXCEPT ![p][outcome] = @ + 1]

\* The last handler that holds the session is gone: it is destroyed, and with
\* did_pull_ goes the guard that takes it off the list.
EndSession(p) ==
    /\ pull' = [pull EXCEPT ![p] = "ended"]
    /\ pullSessions' = pullSessions \ {p}

-----------------------------------------------------------------------------

\* Transport::Pull with a callback: the connection is made in the calling thread.
PullAsync(p) ==
    /\ transport = "runs"
    /\ pull[p] = "idle"
    /\ \/ /\ pull' = [pull EXCEPT ![p] = "refused"]
          /\ UNCHANGED pullSessions
       \/ /\ pull' = [pull EXCEPT ![p] = "writing"]
          /\ pullSessions' = pullSessions \cup {p}
    /\ UNCHANGED <<request, answer, results, transport, toCancel>>

PostedError(p) ==
    /\ transport # "gone"
    /\ pull[p] = "refused"
    /\ pull' = [pull EXCEPT ![p] = "ended"]
    /\ Called(p, "error")
    /\ UNCHANGED <<pullSessions, request, answer, transport, toCancel>>

\* The completion of RequestAsync; nobody looks at how much was written.
DidWrite(p) ==
    /\ transport # "gone"
    /\ pull[p] = "writing"
    /\ \/ \E b \in BodyBytes : \E n \in 1 .. HeaderBytes + b :
             /\ request' = [request EXCEPT ![p] = Written(b, n)]
             /\ pull' = [pull EXCEPT ![p] = "reading"]
             /\ UNCHANGED <<pullSessions, results>>
       \/ /\ Called(p, "error")
          /\ EndSession(p)
          /\ UNCHANGED request
    /\ UNCHANGED <<answer, transport, toCancel>>

\* Mutant of DidRead: a session that has its answer reads on.
DidReadAndReadsOn(p) ==
    /\ transport # "gone"
    /\ pull[p] = "reading"
    /\ \E n \in Reads(answer[p]) :
          LET s == Received(answer[p], n)
          IN  /\ answer' = [answer EXCEPT ![p] = s]
              /\ IF IsSatisfied(s) THEN Called(p, "ok") ELSE UNCHANGED results
    /\ UNCHANGED <<pull, pullSessions, request, transport, toCancel>>

\* The completion of ReadMessageAsync with bytes: the answer is whole, or the
\* session reads on.
DidRead(p) ==
    /\ transport # "gone"
    /\ pull[p] = "reading"
    /\ \E n \in Reads(answer[p]) :
          LET s == Received(answer[p], n)
          IN  /\ answer' = [answer EXCEPT ![p] = s]
              /\ IF IsSatisfied(s)
                 THEN Called(p, "ok") /\ EndSession(p)
                 ELSE UNCHANGED <<pull, pullSessions, results>>
    /\ UNCHANGED <<request, transport, toCancel>>

\* Mutant of DidNotRead: the end of the stream ends the answer.
DidNotReadIsOk(p) ==
    /\ transport # "gone"
    /\ \/ pull[p] = "reading" /\ ~answer[p].open /\ answer[p].wire = 0
       \/ pull[p] = "closed"
    /\ Called(p, "ok")
    /\ EndSession(p)
    /\ UNCHANGED <<request, answer, transport, toCancel>>

\* The completion of ReadMessageAsync without bytes: the peer has closed, the
\* connection broke, or Cancel has closed the socket.
DidNotRead(p) ==
    /\ transport # "gone"
    /\ \/ pull[p] = "reading" /\ ~answer[p].open /\ answer[p].wire = 0
       \/ pull[p] = "closed"
    /\ Called(p, "error")
    /\ EndSession(p)
    /\ UNCHANGED <<request, answer, transport, toCancel>>

-----------------------------------------------------------------------------
(* The peer: Connection::Start and Transport::OnPull.                      *)

Connected(p) == pull[p] = "reading" /\ answer[p].open

\* A piece of the request arrives.  When the request is whole, push_handler_ or
\* pull_handler_ is called and the answer written at once, all of it or as much
\* as the socket takes; then the decoder is reset and the connection read on.
PeerReceives(p) ==
    /\ Connected(p)
    /\ \E n \in Reads(request[p]) :
          LET s == Received(request[p], n)
          IN  IF IsSatisfied(s)
              THEN /\ request' = [request EXCEPT ![p] = [s EXCEPT !.got = 0]]
                   /\ \E b \in BodyBytes : \E m \in 1 .. HeaderBytes + b :
                         answer' = [answer EXCEPT ![p] = Written(b, m)]
              ELSE request' = [request EXCEPT ![p] = s] /\ UNCHANGED answer
    /\ UNCHANGED <<pull, pullSessions, results, transport, toCancel>>

\* The peer's process ends or the connection breaks; what is on the wire may
\* still be read.
PeerCloses(p) ==
    /\ Connected(p)
    /\ answer' = [answer EXCEPT ![p].open = FALSE]
    /\ UNCHANGED <<pull, pullSessions, request, results, transport, toCancel>>

-----------------------------------------------------------------------------
(* ~Transport.                                                             *)

\* CancelAllSessions copies the list under mutex_ and lets go of the lock: to
\* cancel is to hold the session for a moment, and the guard of a session that
\* ends in that moment locks mutex_ again.
StartCancel ==
    /\ transport = "runs"
    /\ transport' = "cancels"
    /\ toCancel' = pullSessions
    /\ UNCHANGED <<pull, pullSessions, request, answer, results>>

CancelSession(p) ==
    /\ transport = "cancels"
    /\ p \in toCancel
    /\ toCancel' = toCancel \ {p}
    /\ pull' = [pull EXCEPT ![p] = IF @ \in InSession THEN "closed" ELSE @]
    /\ UNCHANGED <<pullSessions, request, answer, results, transport>>

\* io_context_.stop and join; the completions that are left are destroyed with
\* io_context_, and the sessions they hold.
StopIo ==
    /\ transport = "cancels"
    /\ toCancel = {}
    /\ transport' = "gone"
    /\ pull' = [p \in PullId |-> IF pull[p] = "idle" THEN "idle" ELSE "ended"]
    /\ pullSessions' = {}
    /\ UNCHANGED <<request, answer, results, toCancel>>

IoStep(p) == PostedError(p) \/ DidWrite(p) \/ DidRead(p) \/ DidNotRead(p)

TransportNext ==
    \/ \E p \in PullId :
          \/ PullAsync(p) \/ IoStep(p)
          \/ PeerReceives(p) \/ PeerCloses(p)
          \/ CancelSession(p)
    \/ StartCancel
    \/ StopIo

TransportSpec == TransportInit /\ [][TransportNext]_transportVars

-----------------------------------------------------------------------------

\* The types of the transport's state.
TransportTypeOK ==
    /\ pull \in [PullId -> Phase]
    /\ pullSessions \subseteq PullId
    /\ request \in [PullId -> Stream]
    /\ answer \in [PullId -> Stream]
    /\ results \in [PullId -> [ok : Nat, error : Nat]]
    /\ transport \in {"runs", "cancels", "gone"}
    /\ toCancel \subseteq PullId

\* did_pull is called exactly once for a pull that has ended, whatever broke and
\* whenever, and at most once when the transport is destroyed; a ping that had
\* two results would be answered and relayed at once.
PullHasOneResult ==
    \A p \in PullId :
        LET n == results[p].ok + results[p].error
        IN  /\ n <= 1
            /\ pull[p] \in InSession => n = 0
            /\ pull[p] = "ended" /\ transport # "gone" => n = 1

\* A pull succeeds only with all the bytes of the frame that the peer's handler
\* answered, however the frame was cut, and never on a truncated one.
AnswerIsWhole ==
    \A p \in PullId :
        /\ answer[p].got <= FrameBytes(answer[p])
        /\ results[p].ok = 1 => IsSatisfied(answer[p])
=============================================================================
