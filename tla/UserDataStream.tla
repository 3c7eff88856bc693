--------------------------- MODULE UserDataStream ---------------------------
(***************************************************************************)
(* UserDataStream of ws/user_data_stream.py with the listen-key calls of    *)
(* api/user_data_stream.py.  run() on the main thread creates a listen key, *)
(* connects with it, and after each disconnection sleeps 5 s, creates a key *)
(* and connects again.  A keepalive thread renews the key every 30 minutes. *)
(* SIGINT and SIGTERM run stop() ON the main thread, between two steps of   *)
(* run(): sleep(5) and a REST call go on after it.                          *)
(*                                                                          *)
(* The exchange (external): a key lives 60 minutes from its last renewal;   *)
(* POST returns a new key or the account's active one.  Time passes in half *)
(* hours and only while the stream is connected: the calls, sleep(5) and    *)
(* join(timeout=2) are short against it.                                    *)
(***************************************************************************)
EXTENDS Naturals, Sequences

CONSTANTS Keys,       \* listen keys; a name no longer in use stands for a new key
          NoKey,      \* None
          MaxSignals  \* bound: signals sent to the process

ASSUME UserStreamAssumption == NoKey \notin Keys /\ MaxSignals \in Nat

VARIABLES streamMain,    \* where run() is
          handler,       \* frames of stop() on top of run(), the innermost first
          streamStop,    \* _stop_event
          signals,       \* signals received
          listenKey,     \* _listen_key
          urlKey,        \* key in the URL of _ws, NoKey when _ws is None
          keeper,        \* where the keepalive thread is
          keyStatus,     \* at the exchange
          keyAge,        \* half hours since the key was created or renewed, up to 2
          missed,        \* history: keys whose last renewal failed
          abandoned,     \* history: keys the program lost sight of while active
          late           \* history: keys granted after stop() had begun

runVars == <<streamMain, listenKey, urlKey>>
stopVars == <<handler, streamStop, signals>>
keyVars == <<keyStatus, keyAge, missed, abandoned, late>>
userStreamVars == <<runVars, stopVars, keeper, keyVars>>

Active(k) == keyStatus[k] = "active"

UserStreamTypeOK ==
  /\ streamMain \in {"off", "creating", "loop", "entering", "running", "left",
                     "sleeping", "recreating", "ended"}
  /\ handler \in Seq({"closing", "joining", "deleting"}) /\ Len(handler) <= signals
  /\ streamStop \in BOOLEAN
  /\ signals \in 0..MaxSignals
  /\ listenKey \in Keys \cup {NoKey}
  /\ urlKey \in Keys \cup {NoKey}
  /\ keeper \in {"off", "waiting", "due", "checked", "done"}
  /\ keyStatus \in [Keys -> {"none", "active", "closed", "expired"}]
  /\ keyAge \in [Keys -> 0..2]
  /\ missed \subseteq Keys
  /\ abandoned \subseteq Keys /\ late \subseteq Keys

UserStreamInit ==
  /\ streamMain = "off"
  /\ handler = << >> /\ streamStop = FALSE /\ signals = 0
  /\ listenKey = NoKey /\ urlKey = NoKey
  /\ keeper = "off"
  /\ keyStatus = [k \in Keys |-> "none"]
  /\ keyAge = [k \in Keys |-> 0]
  /\ missed = {} /\ abandoned = {} /\ late = {}

\* The main thread runs run() only while no handler is on top of it.
AtRun(place) == streamMain = place /\ handler = << >>

-----------------------------------------------------------------------------
(***************************************************************************)
(* Listen keys at the exchange (external)                                   *)
(***************************************************************************)

\* POST: a key nobody uses, or the one that is active.
Granted(k) == Active(k) \/ k \notin {listenKey, urlKey}

\* The key k is handed out with a full hour to live.  A key that it replaces
\* and that is still active is abandoned.
Grant(k) ==
  /\ Granted(k)
  /\ keyStatus' = [keyStatus EXCEPT ![k] = "active"]
  /\ keyAge' = [keyAge EXCEPT ![k] = 0]
  /\ missed' = missed \ {k}
  /\ abandoned' = (abandoned \cup {j \in Keys : j = listenKey /\ Active(j)}) \ {k}
  /\ late' = IF streamStop THEN late \cup {k} ELSE late

\* Mutant: KEEPALIVE_INTERVAL_SECONDS is an hour.
Hourly ==
  /\ AtRun("running")
  /\ keeper \in {"waiting", "done"}
  /\ keyAge' = [k \in Keys |-> IF Active(k) /\ keyAge[k] < 2 THEN keyAge[k] + 1
                               ELSE keyAge[k]]
  /\ keeper' = IF keeper = "waiting" /\ listenKey # NoKey /\ keyAge[listenKey] = 1
               THEN "due" ELSE keeper
  /\ UNCHANGED <<runVars, stopVars, keyStatus, missed, abandoned, late>>

\* Half an hour passes: wait(KEEPALIVE_INTERVAL_SECONDS) returns.
HalfHour ==
  /\ AtRun("running")
  /\ keeper \in {"waiting", "done"}
  /\ keyAge' = [k \in Keys |-> IF Active(k) /\ keyAge[k] < 2 THEN keyAge[k] + 1
                               ELSE keyAge[k]]
  /\ keeper' = IF keeper = "waiting" THEN "due" ELSE keeper
  /\ UNCHANGED <<runVars, stopVars, keyStatus, missed, abandoned, late>>

Expire(k) ==
  /\ Active(k) /\ keyAge[k] = 2
  /\ keyStatus' = [keyStatus EXCEPT ![k] = "expired"]
  /\ UNCHANGED <<runVars, stopVars, keeper, keyAge, missed, abandoned, late>>

-----------------------------------------------------------------------------
(***************************************************************************)
(* run()                                                                    *)
(***************************************************************************)

\* Signal handlers registered.
UserStreamBegin ==
  /\ streamMain = "off"
  /\ streamMain' = "creating"
  /\ UNCHANGED <<listenKey, urlKey, stopVars, keeper, keyVars>>

\* Key created, keepalive thread started, WebSocketApp made.
CreateKey(k) ==
  /\ AtRun("creating")
  /\ Grant(k)
  /\ listenKey' = k /\ urlKey' = k
  /\ keeper' = "waiting"
  /\ streamMain' = "loop"
  /\ UNCHANGED stopVars

CreateFails ==
  /\ AtRun("creating")
  /\ streamMain' = "ended"
  /\ UNCHANGED <<listenKey, urlKey, stopVars, keeper, keyVars>>

\* Mutant: the loop goes on until the connection fails.
StreamLoopIgnoringStop ==
  /\ AtRun("loop")
  /\ streamMain' = "entering"
  /\ UNCHANGED <<listenKey, urlKey, stopVars, keeper, keyVars>>

\* while not self._stop_event.is_set()
StreamLoop ==
  /\ AtRun("loop")
  /\ streamMain' = IF streamStop THEN "ended" ELSE "entering"
  /\ UNCHANGED <<listenKey, urlKey, stopVars, keeper, keyVars>>

\* run_forever sets keep_running and connects; a close() before that is lost.
StreamConnects ==
  /\ AtRun("entering")
  /\ streamMain' = "running"
  /\ UNCHANGED <<listenKey, urlKey, stopVars, keeper, keyVars>>

\* run_forever returns or raises: refused, disconnected.
StreamDisconnects ==
  /\ streamMain \in {"entering", "running"} /\ handler = << >>
  /\ streamMain' = "left"
  /\ UNCHANGED <<listenKey, urlKey, stopVars, keeper, keyVars>>

StreamLeft ==
  /\ AtRun("left")
  /\ streamMain' = IF streamStop THEN "loop" ELSE "sleeping"
  /\ UNCHANGED <<listenKey, urlKey, stopVars, keeper, keyVars>>

StreamSlept ==
  /\ AtRun("sleeping")
  /\ streamMain' = "recreating"
  /\ UNCHANGED <<listenKey, urlKey, stopVars, keeper, keyVars>>

\* Mutant: the new key reaches the URL only.
RecreateForUrl(k) ==
  /\ AtRun("recreating")
  /\ Grant(k)
  /\ urlKey' = k
  /\ streamMain' = "loop"
  /\ UNCHANGED <<listenKey, stopVars, keeper>>

\* A new _listen_key and a new _ws with it in its URL.
RecreateKey(k) ==
  /\ AtRun("recreating")
  /\ Grant(k)
  /\ listenKey' = k /\ urlKey' = k
  /\ streamMain' = "loop"
  /\ UNCHANGED <<stopVars, keeper>>

\* Mutant: the exception leaves run().
RecreateFailureReturns ==
  /\ AtRun("recreating")
  /\ streamMain' = "ended"
  /\ UNCHANGED <<listenKey, urlKey, stopVars, keeper, keyVars>>

\* The exception is logged: the old key and the old _ws are used again.
RecreateFails ==
  /\ AtRun("recreating")
  /\ streamMain' = "loop"
  /\ UNCHANGED <<listenKey, urlKey, stopVars, keeper, keyVars>>

-----------------------------------------------------------------------------
(***************************************************************************)
(* stop(), in the signal handler                                            *)
(***************************************************************************)

\* The handler interrupts run(), or an earlier handler.
Signal ==
  /\ streamMain \notin {"off", "ended"}
  /\ signals < MaxSignals
  /\ signals' = signals + 1
  /\ handler' = << "closing" >> \o handler
  /\ UNCHANGED <<runVars, streamStop, keeper, keyVars>>

InHandler(place) == handler # << >> /\ Head(handler) = place

\* _ws.close() ends a run_forever that is running.
StopCloses ==
  /\ InHandler("closing")
  /\ streamStop' = TRUE
  /\ handler' = << "joining" >> \o Tail(handler)
  /\ streamMain' = IF streamMain = "running" THEN "left" ELSE streamMain
  /\ UNCHANGED <<listenKey, urlKey, signals, keeper, keyVars>>

\* The thread ends within 2 s, or not.
StopJoins ==
  /\ InHandler("joining")
  /\ handler' = << "deleting" >> \o Tail(handler)
  /\ UNCHANGED <<runVars, streamStop, signals, keeper, keyVars>>

\* _delete_listen_key: the key is None afterwards, also when DELETE fails.
StopDeletes ==
  /\ InHandler("deleting")
  /\ handler' = Tail(handler)
  /\ listenKey' = NoKey
  /\ IF listenKey = NoKey THEN UNCHANGED <<keyStatus, abandoned>>
     ELSE \/ keyStatus' = [keyStatus EXCEPT ![listenKey] = "closed"] /\ UNCHANGED abandoned
          \/ abandoned' = abandoned \cup {listenKey} /\ UNCHANGED keyStatus
  /\ UNCHANGED <<streamMain, urlKey, streamStop, signals, keeper, keyAge, missed, late>>

-----------------------------------------------------------------------------
(***************************************************************************)
(* _keepalive_listen_key, on its own thread                                 *)
(***************************************************************************)

KeeperStops ==
  /\ keeper = "waiting" /\ streamStop
  /\ keeper' = "done"
  /\ UNCHANGED <<runVars, stopVars, keyVars>>

KeeperChecks ==
  /\ keeper = "due"
  /\ keeper' = IF listenKey # NoKey /\ ~streamStop THEN "checked" ELSE "waiting"
  /\ UNCHANGED <<runVars, stopVars, keyVars>>

\* PUT with the key as it is now; None, a key the exchange no longer knows and
\* a lost call raise, and the exception is logged.
KeeperRenews ==
  /\ keeper = "checked"
  /\ keeper' = "waiting"
  /\ \/ /\ listenKey # NoKey /\ Active(listenKey)
        /\ keyAge' = [keyAge EXCEPT ![listenKey] = 0]
        /\ missed' = missed \ {listenKey}
     \/ /\ missed' = missed \cup ({listenKey} \ {NoKey})
        /\ UNCHANGED keyAge
  /\ UNCHANGED <<runVars, stopVars, keyStatus, abandoned, late>>

-----------------------------------------------------------------------------
UserStreamRun ==
  \/ \E k \in Keys : CreateKey(k) \/ RecreateKey(k)
  \/ CreateFails \/ StreamLoop \/ StreamConnects \/ StreamDisconnects
  \/ StreamLeft \/ StreamSlept \/ RecreateFails

StopHandler == StopCloses \/ StopJoins \/ StopDeletes

KeeperThread == KeeperStops \/ KeeperChecks \/ KeeperRenews

UserStreamNext ==
  \/ UserStreamRun
  \/ Signal \/ StopHandler
  \/ KeeperThread
  \/ HalfHour \/ \E k \in Keys : Expire(k)

\* The threads are scheduled, calls return, a connection ends at last (the
\* exchange drops it after 24 hours at the latest), and a stream that keeps
\* asking for a key gets one.
UserStreamFairness ==
  /\ WF_userStreamVars(UserStreamRun)
  /\ WF_userStreamVars(StopHandler)
  /\ WF_userStreamVars(KeeperThread)
  /\ SF_userStreamVars(\E k \in Keys : RecreateKey(k))
  /\ SF_userStreamVars(StreamConnects)

-----------------------------------------------------------------------------
(***************************************************************************)
(* Properties                                                               *)
(***************************************************************************)

\* Until a stop() has begun, the key that the stream is connected with is the
\* key the keepalive thread renews, and the exchange lets it expire only when
\* a renewal of it failed, whichever reconnections replace it meanwhile.
ConnectedKeyRenewed ==
  streamMain = "running" /\ ~streamStop =>
    /\ listenKey = urlKey
    /\ keyStatus[urlKey] = "expired" => urlKey \in missed

\* What stop() leaves behind: a key that is active after the end is one that a
\* reconnection replaced or whose DELETE failed, or else it is the program's
\* own key and was created after stop() had begun, by a run() that stop()
\* interrupted before its POST.
StoppedKeyDeleted ==
  streamMain = "ended" /\ handler = << >> =>
    \A k \in Keys : Active(k) => k \in abandoned \/ (k = listenKey /\ k \in late)

\* README "Ctrl+C 优雅停止时自动删除 Listen Key": after the end the program holds
\* no listen key that is still active.  The code violates it.
StopDeletesKey ==
  streamMain = "ended" /\ handler = << >> => ~(listenKey # NoKey /\ Active(listenKey))

\* README "断线自动重连": after a disconnection the stream is up again with a
\* key the exchange knows, however often the creation of a key fails at first.
Recovers ==
  (streamMain = "left") ~>
    \/ streamMain = "running" /\ Active(urlKey)
    \/ signals > 0

=============================================================================
