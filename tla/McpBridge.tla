----------------------------- MODULE McpBridge ------------------------------
(***************************************************************************)
(* pb-mcp-bridge: primitives of the sandbox proxied to an MCP server on    *)
(* the pipes of a child process.  callMu serializes whole round trips; the *)
(* message read after a request is taken for its response, whatever it is. *)
(***************************************************************************)
EXTENDS Naturals, Sequences

CONSTANTS Callers,    \* connections to the bridge's socket
          MaxNotes,   \* bound: messages the server sends unasked
          Main,       \* the bridge's main goroutine
          Nobody

ASSUME BridgeAssumption == MaxNotes \in Nat /\ Main \notin Callers /\ Nobody \notin Callers \cup {Main}

VARIABLES
  server,      \* the child process: up, dead
  stdin,       \* requests the server has not read: their callers
  stdout,      \* messages the bridge has not read: callers answered, or Nobody
  notes,       \* unasked messages so far
  done,        \* doneCh is closed
  piped,       \* the bridge's ends of the pipes are open
  cancelled,   \* ctx is done
  lock,        \* the holder of callMu
  trip,        \* caller -> where its round trip is
  got,         \* caller -> what its reader goroutine has read
  main,        \* where run is
  tools        \* the tools are registered

bridgeVars == <<server, stdin, stdout, notes, done, piped, cancelled, lock, trip, got, main, tools>>
pipeVars == <<server, stdin, stdout, notes>>
runVars == <<main, tools>>

Users == Callers \cup {Main}
ReadError == "error"

BridgeInit ==
  /\ server = "up" /\ stdin = <<>> /\ stdout = <<>> /\ notes = 0
  /\ done = FALSE /\ piped = TRUE /\ cancelled = FALSE
  /\ lock = Nobody
  /\ trip = [u \in Users |-> "idle"]
  /\ got = [u \in Users |-> <<>>]
  /\ main = "initialize" /\ tools = "none"

Trip(u, at) == trip' = [trip EXCEPT ![u] = at]
Holding == {"write", "blocked", "reading", "draining"}

(* The server is there to be written to.                                   *)
Reachable == piped /\ server = "up"

(* sendNotification, after initialize: it asks for no answer.              *)
Notification(u) == u = Main /\ main = "initialized"

-----------------------------------------------------------------------------
(* roundTrip.                                                              *)

(* callMu is taken; a session that is over is not used for a request.      *)
TakeLock(u) ==
  /\ trip[u] = "want" /\ lock = Nobody
  /\ IF done /\ ~Notification(u)
       THEN Trip(u, "failed") /\ UNCHANGED lock
       ELSE Trip(u, "write") /\ lock' = u
  /\ UNCHANGED <<pipeVars, done, piped, cancelled, got, runVars>>

(* A message has gone into the pipe: a request, after which a goroutine is *)
(* started that reads one message, or the notification.                    *)
Written(u) ==
  /\ Reachable
  /\ IF Notification(u)
       THEN Trip(u, "idle") /\ lock' = Nobody /\ main' = "tools/list" /\ UNCHANGED stdin
       ELSE stdin' = Append(stdin, u) /\ Trip(u, "reading") /\ UNCHANGED <<lock, main>>
  /\ UNCHANGED <<server, stdout, notes, done, piped, cancelled, got, tools>>

(* Mutant: callMu guards the write only.                                   *)
WriteUnlocks(u) ==
  /\ trip[u] = "write" /\ Reachable
  /\ stdin' = Append(stdin, u) /\ Trip(u, "reading") /\ lock' = Nobody
  /\ main' = IF Notification(u) THEN "tools/list" ELSE main
  /\ UNCHANGED <<server, stdout, notes, done, piped, cancelled, got, tools>>

(* writeMCPMessage: the message fits into the pipe ...                     *)
WriteRequest(u) == trip[u] = "write" /\ Written(u)

(* ... or it does not, and the writer is blocked, with callMu, until the   *)
(* server reads; neither ctx nor doneCh is looked at ...                   *)
WriteBlocks(u) ==
  /\ trip[u] = "write" /\ Reachable
  /\ Trip(u, "blocked")
  /\ UNCHANGED <<pipeVars, done, piped, cancelled, lock, got, runVars>>

(* ... or there is nobody to read it.                                      *)
WriteFails(u) ==
  /\ trip[u] \in {"write", "blocked"} /\ ~Reachable
  /\ Trip(u, "failed") /\ lock' = Nobody
  /\ UNCHANGED <<pipeVars, done, piped, cancelled, got, runVars>>

ReadMCPMessage(u) ==
  /\ trip[u] \in {"reading", "draining"} /\ got[u] = <<>>
  /\ IF piped /\ stdout # <<>>
       THEN got' = [got EXCEPT ![u] = <<Head(stdout)>>] /\ stdout' = Tail(stdout)
       ELSE /\ ~piped \/ server = "dead"
            /\ got' = [got EXCEPT ![u] = <<ReadError>>] /\ UNCHANGED stdout
  /\ UNCHANGED <<server, stdin, notes, done, piped, cancelled, lock, trip, runVars>>

(* The message is the answer: a result, an error, or no response at all,   *)
(* which callTool finds to have no result, and run takes for a server      *)
(* without a name or without tools.                                        *)
TakeResponse(u) ==
  /\ trip[u] = "reading" /\ got[u] # <<>>
  /\ \/ Trip(u, "failed")
     \/ got[u] # <<ReadError>> /\ (got[u] = <<Nobody>> => u = Main) /\ Trip(u, "answered")
  /\ lock' = Nobody
  /\ UNCHANGED <<pipeVars, done, piped, cancelled, got, runVars>>

(* close: the pipes, the child, doneCh.                                    *)
Close == /\ piped' = FALSE /\ server' = "dead" /\ done' = TRUE
         /\ UNCHANGED <<stdin, stdout, notes>>

(* Mutant: the cancelled call waits for its reader with the session open.  *)
CancelWithoutClose(u) ==
  /\ trip[u] = "reading" /\ cancelled
  /\ Trip(u, "draining")
  /\ UNCHANGED <<pipeVars, done, piped, cancelled, lock, got, runVars>>

(* ctx is done: the session is torn down, the reader waited for.           *)
CancelTrip(u) ==
  /\ trip[u] = "reading" /\ cancelled
  /\ Close /\ Trip(u, "draining")
  /\ UNCHANGED <<cancelled, lock, got, runVars>>

(* doneCh is closed: the reader is waited for.                             *)
SeeDone(u) ==
  /\ trip[u] = "reading" /\ done
  /\ Trip(u, "draining")
  /\ UNCHANGED <<pipeVars, done, piped, cancelled, lock, got, runVars>>

Drained(u) ==
  /\ trip[u] = "draining" /\ got[u] # <<>>
  /\ Trip(u, "failed") /\ lock' = Nobody
  /\ UNCHANGED <<pipeVars, done, piped, cancelled, got, runVars>>

RoundTrip(u) == \/ TakeLock(u) \/ WriteRequest(u) \/ WriteBlocks(u) \/ WriteFails(u)
                \/ ReadMCPMessage(u) \/ TakeResponse(u)
                \/ CancelTrip(u) \/ SeeDone(u) \/ Drained(u)

-----------------------------------------------------------------------------
(* The MCP server, a program of somebody else: it answers in order, speaks *)
(* unasked, hangs (no step of it need happen) or ends.                     *)

(* It makes room for the message a writer is blocked on.                   *)
ServerReads(u) == trip[u] = "blocked" /\ Written(u)

ServerReplies ==
  /\ server = "up" /\ stdin # <<>>
  /\ stdout' = Append(stdout, Head(stdin)) /\ stdin' = Tail(stdin)
  /\ UNCHANGED <<server, notes, done, piped, cancelled, lock, trip, got, runVars>>

ServerNotifies ==
  /\ server = "up" /\ notes < MaxNotes
  /\ stdout' = Append(stdout, Nobody) /\ notes' = notes + 1
  /\ UNCHANGED <<server, stdin, done, piped, cancelled, lock, trip, got, runVars>>

ServerEnds ==
  /\ server = "up" /\ server' = "dead"
  /\ UNCHANGED <<stdin, stdout, notes, done, piped, cancelled, lock, trip, got, runVars>>

(* watchCrash: cmd.Wait closes the pipes, read to their end or not; then   *)
(* doneCh is closed ...                                                    *)
WatchCrash ==
  /\ server = "dead" /\ main # "gone" /\ (piped \/ ~done)
  /\ piped' = FALSE /\ done' = TRUE
  /\ UNCHANGED <<pipeVars, cancelled, lock, trip, got, runVars>>

(* ... and ctx cancelled.                                                  *)
CancelOnCrash ==
  /\ server = "dead" /\ done /\ ~piped /\ ~cancelled /\ main # "gone"
  /\ cancelled' = TRUE
  /\ UNCHANGED <<pipeVars, done, piped, lock, trip, got, runVars>>

Interrupt ==
  /\ ~cancelled /\ main # "gone"
  /\ cancelled' = TRUE
  /\ UNCHANGED <<pipeVars, done, piped, lock, trip, got, runVars>>

-----------------------------------------------------------------------------
(* run.                                                                    *)

Run(at) == main' = at

(* initialize, its notification and tools/list: trips of main.             *)
Asking == {"initialize", "initialized", "tools/list"}

Ask ==
  /\ main \in Asking /\ trip[Main] = "idle"
  /\ Trip(Main, "want")
  /\ UNCHANGED <<pipeVars, done, piped, cancelled, lock, got, runVars>>

(* The answer is used: after initialize the notification is sent, after    *)
(* tools/list the manifests are built.                                     *)
Asked ==
  /\ main \in Asking /\ trip[Main] = "answered"
  /\ Run(IF main = "initialize" THEN "initialized" ELSE "listen")
  /\ Trip(Main, "idle") /\ got' = [got EXCEPT ![Main] = <<>>]
  /\ UNCHANGED <<pipeVars, done, piped, cancelled, lock, tools>>

AskFails ==
  /\ main \in Asking /\ trip[Main] = "failed"
  /\ Close /\ Run("gone")
  /\ UNCHANGED <<cancelled, lock, trip, got, tools>>

(* Mutant: the tools are registered before the socket is bound.            *)
ListenLate ==
  /\ main = "listen" /\ tools = "none"
  /\ tools' = "registered"
  /\ UNCHANGED <<pipeVars, done, piped, cancelled, lock, trip, got, main>>

(* The socket is bound and served ...                                      *)
Listen ==
  /\ main = "listen"
  /\ Run("register")
  /\ UNCHANGED <<pipeVars, done, piped, cancelled, lock, trip, got, tools>>

(* ... before the tools are registered, one after the other, if any.       *)
RegisterTool ==
  /\ main = "register" /\ ~cancelled
  /\ tools' = "registered"
  /\ UNCHANGED <<pipeVars, done, piped, cancelled, lock, trip, got, main>>

Registered ==
  /\ main = "register"
  /\ Run("serve")
  /\ UNCHANGED <<pipeVars, done, piped, cancelled, lock, trip, got, tools>>

RegisterFails ==
  /\ main \in {"listen", "register"}
  /\ Close /\ Run("gone")
  /\ UNCHANGED <<cancelled, lock, trip, got, tools>>

(* run returns and the process with it; the server reads its end of input. *)
BridgeExits ==
  /\ main = "serve" /\ cancelled
  /\ Run("gone") /\ piped' = FALSE
  /\ UNCHANGED <<pipeVars, done, cancelled, lock, trip, got, tools>>

(* A connection's request: a tool of this server, or no method at all.     *)
Dispatch(c) ==
  /\ main \in {"register", "serve"} /\ trip[c] = "idle"
  /\ Trip(c, "want")
  /\ UNCHANGED <<pipeVars, done, piped, cancelled, lock, got, runVars>>

MethodNotFound(c) ==
  /\ main \in {"register", "serve"} /\ trip[c] = "idle"
  /\ Trip(c, "failed")
  /\ UNCHANGED <<pipeVars, done, piped, cancelled, lock, got, runVars>>

-----------------------------------------------------------------------------
Running == main # "gone"

BridgeNext == \/ Running /\ \E u \in Users : RoundTrip(u)
              \/ \E c \in Callers : Dispatch(c) \/ MethodNotFound(c)
              \/ Ask \/ Asked \/ AskFails \/ Listen \/ RegisterTool \/ Registered
              \/ RegisterFails \/ BridgeExits
              \/ (Running /\ \E u \in Users : ServerReads(u))
              \/ ServerReplies \/ ServerNotifies \/ ServerEnds
              \/ WatchCrash \/ CancelOnCrash \/ Interrupt

(* The bridge's goroutines run.  Nothing is asked of the server, and       *)
(* nothing of run: a torn-down session must free its callers by itself.    *)
BridgeFairness == /\ \A u \in Users : WF_bridgeVars(Running /\ RoundTrip(u))
                  /\ WF_bridgeVars(WatchCrash) /\ WF_bridgeVars(CancelOnCrash)

-----------------------------------------------------------------------------
(* Properties.                                                             *)

(* Type invariant; a round trip begins with nothing read.                  *)
BridgeTypeOK ==
  /\ server \in {"up", "dead"} /\ notes \in 0..MaxNotes
  /\ main \in Asking \cup {"listen", "register", "serve", "gone"}
  /\ trip \in [Users -> {"idle", "want", "answered", "failed"} \cup Holding]
  /\ lock \in Users \cup {Nobody}
  /\ \A u \in Users : trip[u] \in {"idle", "want", "write", "blocked"} => got[u] = <<>>

(* As long as the server speaks only when asked, a call is answered with   *)
(* its own response, across cancellations, crashes and other callers.      *)
ReplyMatches ==
  notes = 0 => \A u \in Users : trip[u] = "answered" => got[u] = <<u>>

(* A registered tool has a bound socket behind it while the bridge lives:  *)
(* the first call after app.register does not fail to connect.             *)
RegisteredAnswers == tools = "registered" /\ Running => main \in {"register", "serve"}

(* A writer is blocked on a server that lives.                             *)
Stuck == server = "up" /\ \E u \in Users : trip[u] = "blocked"

(* Once the server has ended no call stays blocked on the session; once    *)
(* the bridge is told to stop none does either, answered or not, unless a  *)
(* writer is blocked for ever on a server that lives and does not read.    *)
TeardownReleases ==
  []<>~Stuck =>
    \A u \in Users : (server = "dead" \/ cancelled) /\ trip[u] \in {"want"} \cup Holding
                        ~> (trip[u] \in {"answered", "failed", "idle"} \/ ~Running)
=============================================================================
