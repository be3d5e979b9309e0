---------------------------- MODULE MinimalServer ----------------------------
(***************************************************************************)
(* The example server (examples/js-minimal-server/index.js) that keeps     *)
(* threads across connections: handshake_init, handshake_resume, messages  *)
(* of a session, the fixed-window rate limit, and the sweep of an interval *)
(* that removes idle threads and old rate entries.                         *)
(*                                                                         *)
(* Clients carry the thread and session they were last given, also over a  *)
(* new connection, and several sockets may act for one client.  Message    *)
(* bodies are left out; a message that carries no state (ping, event, an   *)
(* unknown type) is "other".  uuids are numbers in order of creation.      *)
(***************************************************************************)
EXTENDS Integers

CONSTANTS
  Clients, Sockets,
  Limit,        \* RATE_LIMIT_MAX_MESSAGES
  Window,       \* RATE_LIMIT_WINDOW_MS
  Grace,        \* how long an expired rate entry is kept
  Ttl,          \* THREAD_TTL_MS
  Period,       \* the sweep's interval
  MaxThreads, MaxClock, None

ASSUME MinimalServerAssumption ==
  /\ Limit \in Nat \ {0} /\ Window \in Nat \ {0} /\ Grace \in Nat /\ Grace >= Window /\ Ttl \in Nat
  /\ Period \in Nat \ {0} /\ MaxThreads \in Nat /\ MaxClock \in Nat
  /\ None \notin Nat /\ None \notin [count : Nat, resetAt : Nat]

VARIABLES
  clock, sweepIn, \* the clock, and the time to the next sweep
  sessions,       \* per socket: the client and thread of its session
  threads,        \* per thread id: lastSeen, or None when not stored
  rateLimit,      \* per client: its window, or None
  issued,         \* thread ids given out
  handled,        \* history: messages handled per client
  handledBefore,  \* history: those handled before each point in time
  touched         \* history: when a thread last was created, resumed or updated

serverVars == <<clock, sweepIn, sessions, threads, rateLimit, issued, handled, handledBefore,
                touched>>

Ids == 1 .. MaxThreads
ServerTime == <<clock, sweepIn>>

ServerInit ==
  /\ clock = 0 /\ sweepIn = Period
  /\ sessions = [s \in Sockets |-> None]
  /\ threads = [t \in Ids |-> None]
  /\ rateLimit = [c \in Clients |-> None]
  /\ issued = 0
  /\ handled = [c \in Clients |-> 0]
  /\ handledBefore = [c \in Clients |-> [t \in 0 .. MaxClock |-> 0]]
  /\ touched = [t \in Ids |-> None]

-----------------------------------------------------------------------------
(* checkRateLimit *)

\* Mutant: a window is over in its last unit of time already.
CurrentAtEdge(c) ==
  IF clock >= rateLimit[c].resetAt THEN [count |-> 0, resetAt |-> clock + Window] ELSE rateLimit[c]

\* The entry to count with: a window that is over starts again.
Current(c) ==
  IF clock > rateLimit[c].resetAt THEN [count |-> 0, resetAt |-> clock + Window] ELSE rateLimit[c]

Allowed(c) == rateLimit[c] # None => Current(c).count < Limit

\* The entry after the call: the message that creates it is not counted.
Counted(c) ==
  IF rateLimit[c] = None THEN [count |-> 0, resetAt |-> clock + Window]
  ELSE [Current(c) EXCEPT !.count = IF @ < Limit THEN @ + 1 ELSE @]

-----------------------------------------------------------------------------
(* Messages *)

\* A thread seen now is stored with this moment.
See(store, t) == [store EXCEPT ![t] = clock]

\* handshake_init, which is not limited: a new thread.
HandshakeInit(s, c) ==
  /\ issued < MaxThreads
  /\ issued' = issued + 1
  /\ threads' = See(threads, issued + 1)
  /\ touched' = See(touched, issued + 1)
  /\ sessions' = [sessions EXCEPT ![s] = [client |-> c, thread |-> issued + 1]]
  /\ UNCHANGED <<ServerTime, rateLimit, handled, handledBefore>>

\* The limit is kept for the client of the socket's session, or the one the
\* message names; a message over it is answered with an error and dropped.
Limited(c) ==
  /\ ~ Allowed(c)
  /\ rateLimit' = [rateLimit EXCEPT ![c] = Counted(c)]
  /\ UNCHANGED <<ServerTime, sessions, threads, issued, handled, handledBefore, touched>>

Handle(c) ==
  /\ Allowed(c)
  /\ rateLimit' = [rateLimit EXCEPT ![c] = Counted(c)]
  /\ handled' = [handled EXCEPT ![c] = @ + 1]
  /\ UNCHANGED <<ServerTime, issued, handledBefore>>

Charged(s, c) == IF sessions[s] # None THEN sessions[s].client ELSE c

\* resumeThread
ResumeThread(t) ==
  /\ threads' = See(threads, t)
  /\ touched' = See(touched, t)

\* handshake_resume of a thread given out before: unknown ones are rejected.
HandshakeResume(s, c, t) ==
  /\ t <= issued
  /\ \/ Limited(Charged(s, c))
     \/ /\ Handle(Charged(s, c))
        /\ IF threads[t] = None
           THEN UNCHANGED <<threads, touched, sessions>>
           ELSE /\ ResumeThread(t)
                /\ sessions' = [sessions EXCEPT ![s] = [client |-> c, thread |-> t]]

\* Mutant: a state update does not count as a sign of life.
UpdateKeepsLastSeen(t) == IF threads[t] = None THEN threads ELSE threads

\* updateThreadStateFromMessage
UpdateThreadState(t) == IF threads[t] = None THEN threads ELSE See(threads, t)

\* The message names the thread; the session of its socket is not asked.
StateUpdate(s, c, t) ==
  /\ t <= issued
  /\ \/ Limited(Charged(s, c))
     \/ /\ Handle(Charged(s, c))
        /\ threads' = UpdateThreadState(t)
        /\ touched' = IF threads[t] = None THEN touched ELSE See(touched, t)
        /\ UNCHANGED sessions

\* ping, event, unknown: answered; a thread is not kept alive by them.
OtherMessage(s, c) ==
  \/ Limited(Charged(s, c))
  \/ Handle(Charged(s, c)) /\ UNCHANGED <<sessions, threads, touched>>

\* handleMessage
HandleMessage(s, c) ==
  \/ HandshakeInit(s, c)
  \/ OtherMessage(s, c)
  \/ \E t \in Ids : HandshakeResume(s, c, t) \/ StateUpdate(s, c, t)

\* The close of a socket forgets its session; its thread stays.
CloseSocket(s) ==
  /\ sessions[s] # None
  /\ sessions' = [sessions EXCEPT ![s] = None]
  /\ UNCHANGED <<ServerTime, threads, rateLimit, issued, handled, handledBefore, touched>>

-----------------------------------------------------------------------------
(* The interval *)

SweptRate(c) ==
  IF rateLimit[c] # None /\ rateLimit[c].resetAt + Grace < clock THEN None ELSE rateLimit[c]

SweptThread(t) == IF threads[t] # None /\ threads[t] + Ttl < clock THEN None ELSE threads[t]

Sweep ==
  /\ sweepIn = 0
  /\ sweepIn' = Period
  /\ threads' = [t \in Ids |-> SweptThread(t)]
  /\ rateLimit' = [c \in Clients |-> SweptRate(c)]
  /\ UNCHANGED <<clock, sessions, issued, handled, handledBefore, touched>>

\* The clock; the sweep is not late by a whole unit of time.
ServerTick ==
  /\ clock < MaxClock /\ sweepIn > 0
  /\ clock' = clock + 1
  /\ sweepIn' = sweepIn - 1
  /\ handledBefore' = [c \in Clients |-> [handledBefore[c] EXCEPT ![clock + 1] = handled[c]]]
  /\ UNCHANGED <<sessions, threads, rateLimit, issued, handled, touched>>

ServerNext ==
  \/ ServerTick \/ Sweep
  \/ \E s \in Sockets : CloseSocket(s)
  \/ \E s \in Sockets, c \in Clients : HandleMessage(s, c)

ServerSpec == ServerInit /\ [][ServerNext]_serverVars

-----------------------------------------------------------------------------
(* Properties *)

\* Messages of c that were handled before time t, and from time a to time b.
HandledBefore(c, t) == IF t <= clock THEN handledBefore[c][t] ELSE handled[c]
HandledIn(c, a, b) == HandledBefore(c, b + 1) - HandledBefore(c, a)

\* Over whatever sockets a client's messages come, and whenever the sweep runs, a
\* stretch of one window holds at most two windows' worth of them: the uncounted
\* first message of an entry never comes on top of two windows that meet, because
\* an entry is swept only when its window is out of reach.
RateBounded ==
  \A c \in Clients : \A a \in 0 .. clock : HandledIn(c, a, a + Window) <= 2 * Limit

\* What the limit is documented to be: no more than Limit messages of a client in
\* any Window ("100 messages per minute per client").
RateAsPromised ==
  \A c \in Clients : \A a \in 0 .. clock : HandledIn(c, a, a + Window - 1) <= Limit

\* A thread can be resumed for Ttl after it was last created, resumed or updated,
\* and it is gone when a sweep has passed after that: neither is an active thread
\* lost to the sweep, nor does the store keep an idle one.
ThreadsKeptWhileActive ==
  \A t \in 1 .. issued :
    /\ clock <= touched[t] + Ttl => threads[t] # None
    /\ clock > touched[t] + Ttl + Period => threads[t] = None
=============================================================================
