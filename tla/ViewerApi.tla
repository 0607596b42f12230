------------------------------- MODULE ViewerApi -------------------------------
(* Grants, sockets, pairing challenges, requests in flight, one-time asset   *)
(* handles and event queues of the Viewer API server in the viewer's main    *)
(* process.  Every handler runs to its end before the next one, so an action *)
(* is a handler up to its await.  Rate limits, origins and malformed frames  *)
(* only refuse a message and are left out.                                   *)
EXTENDS EventQueue

CONSTANTS
  Socket,         \* client connections, reused after they are closed
  Pairing,        \* pairing challenges; a grant is named by its challenge
  Request,        \* requests bound to a grant
  Asset,          \* handles of picked files
  Event,          \* event names one can subscribe to
  ScopeOf,        \* the events each grant may see
  MaxPending,     \* MAX_PENDING_CHALLENGES
  MaxGrants,      \* MAX_GRANTS
  MaxBadCodes,    \* MAX_BAD_PAIRING_CODE_ATTEMPTS
  AllowSessionGrants, \* allowSessionGrants: the application is not packaged
  MaxUnsent,      \* bound: events of a connection not yet accounted for
  None

ASSUME ViewerApiAssumption ==
  /\ ScopeOf \in [Pairing -> SUBSET Event]
  /\ {MaxPending, MaxGrants, MaxBadCodes, MaxUnsent} \subseteq Nat \ {0}
  /\ AllowSessionGrants \in BOOLEAN
  /\ None \notin Socket \cup Pairing \cup Request \cup Asset

VARIABLES
  grants,    \* server.grants
  saved,     \* the grants the file holds
  saveDue,   \* server.grantSaveTimer is set
  store,     \* server.grantStore is there: the system can encrypt
  window,    \* the pairing window is open: pairingWindowUntil is to come
  pairs,     \* the challenges, pending and past
  socks,     \* the sockets, with what the server keeps on them
  queues,    \* the event queue of each socket
  reqs,      \* requests bound to a grant
  assets,    \* ViewerApiAssetBroker.assets
  revoked,   \* history: grants whose revocation was confirmed
  leaks,     \* history: grants that were answered with a result after that
  missed,    \* history: grants in force that a start did not find
  tally      \* history: the events of each connection it has no account of yet

vars == <<grants, saved, saveDue, store, window, pairs, socks, queues, reqs,
          assets, revoked, leaks, missed, tally>>

grantVars == <<grants, saved, saveDue, store, missed>>
history == <<revoked, leaks, tally>>

Challenge == [stage : {"unused", "pending", "granted", "ended"},
              sock : Socket \cup {None}, late : BOOLEAN, bad : 0..MaxBadCodes,
              told : Nat]

\* grant is the connection's own variable, bound what it left on the socket;
\* notice: a revocation is being sent, and the socket closes once it is.
Sock == [phase : {"absent", "open", "closing"}, grant : Pairing \cup {None},
         bound : Pairing \cup {None}, subs : SUBSET Event, notice : BOOLEAN]

Req == [running : BOOLEAN, sock : Socket \cup {None},
        grant : Pairing \cup {None}, asset : Asset \cup {None},
        aborted : BOOLEAN]

Handle == [stage : {"unissued", "held", "gone"}, grant : Pairing \cup {None},
           holder : Request \cup {None}, uses : Nat]  \* uses: accepted loads

\* Events of either kind that were neither sent nor counted in a notice sent.
Tally == [large : Nat, fit : Nat]

TypeOK ==
  /\ grants \subseteq Pairing /\ saved \subseteq Pairing /\ saveDue \in BOOLEAN
  /\ store \in BOOLEAN /\ window \in BOOLEAN
  /\ pairs \in [Pairing -> Challenge]
  /\ socks \in [Socket -> Sock]
  /\ queues \in [Socket -> Queue]
  /\ reqs \in [Request -> Req]
  /\ assets \in [Asset -> Handle]
  /\ revoked \subseteq Pairing /\ leaks \subseteq Pairing /\ missed \subseteq Pairing
  /\ tally \in [Socket -> Tally]

NoSock == [phase |-> "absent", grant |-> None, bound |-> None, subs |-> {}, notice |-> FALSE]
NoRequest == [running |-> FALSE, sock |-> None, grant |-> None, asset |-> None,
              aborted |-> FALSE]
NoChallenge == [stage |-> "unused", sock |-> None, late |-> FALSE, bad |-> 0, told |-> 0]
NoTally == [large |-> 0, fit |-> 0]

Init ==
  /\ grants = {} /\ saved = {} /\ saveDue = FALSE /\ window = FALSE
  /\ store \in BOOLEAN
  /\ pairs = [p \in Pairing |-> NoChallenge]
  /\ socks = [c \in Socket |-> NoSock]
  /\ queues = [c \in Socket |-> EmptyQueue]
  /\ reqs = [r \in Request |-> NoRequest]
  /\ assets = [a \in Asset |-> [stage |-> "unissued", grant |-> None, holder |-> None,
                                uses |-> 0]]
  /\ revoked = {} /\ leaks = {} /\ missed = {}
  /\ tally = [c \in Socket |-> NoTally]

-----------------------------------------------------------------------------
(* Connections.                                                              *)

Attached(c) == socks[c].phase # "absent"
Open(c) == c # None /\ socks[c].phase = "open"

Connect(c) ==
  /\ ~Attached(c)
  /\ socks' = [socks EXCEPT ![c] = [NoSock EXCEPT !.phase = "open"]]
  /\ queues' = [queues EXCEPT ![c] = EmptyQueue]
  /\ tally' = [tally EXCEPT ![c] = NoTally]
  /\ UNCHANGED <<grantVars, window, pairs, reqs, assets, revoked, leaks>>

\* The peer starts to close the connection.
PeerCloses(c) ==
  /\ Open(c)
  /\ socks' = [socks EXCEPT ![c].phase = "closing"]
  /\ UNCHANGED <<grantVars, window, pairs, queues, reqs, assets, history>>

\* The revocation has been written: its callback closes the socket.
NoticeWritten(c) ==
  /\ socks[c].notice
  /\ socks' = [socks EXCEPT ![c].notice = FALSE,
                            ![c].phase = IF Open(c) THEN "closing" ELSE @]
  /\ UNCHANGED <<grantVars, window, pairs, queues, reqs, assets, history>>

\* purgePending, on close and on error.
Disconnect(c) ==
  /\ Attached(c)
  /\ socks' = [socks EXCEPT ![c] = NoSock]
  /\ queues' = [queues EXCEPT ![c] = Cleared(@)]
  /\ pairs' = [p \in Pairing |->
                 IF pairs[p].sock # c THEN pairs[p]
                 ELSE [NoChallenge EXCEPT !.stage = "ended"]]
  /\ reqs' = [r \in Request |-> IF reqs[r].sock = c THEN [reqs[r] EXCEPT !.sock = None]
                                                    ELSE reqs[r]]
  /\ UNCHANGED <<grantVars, window, assets, history>>

-----------------------------------------------------------------------------
(* Pairing.                                                                  *)

Pending == {p \in Pairing : pairs[p].stage = "pending"}

\* Mutant of Concluded: the challenge is answered and stays pending.
ConcludedStillPending(ps) ==
  [p \in Pairing |->
     IF p \in ps THEN [pairs[p] EXCEPT !.told = IF Open(pairs[p].sock) THEN @ + 1 ELSE @]
                 ELSE pairs[p]]

\* sendChallengeTerminal, and the challenge is deleted.
Concluded(ps) ==
  [p \in Pairing |->
     IF p \in ps
     THEN [NoChallenge EXCEPT !.stage = "ended",
                              !.told = pairs[p].told + IF Open(pairs[p].sock) THEN 1 ELSE 0]
     ELSE pairs[p]]

\* What purgeExpiredChallenges finds.
Expired == {p \in Pending : pairs[p].late}

\* openPairingWindow closes the window there is.
OpenWindow ==
  /\ window' = TRUE
  /\ pairs' = Concluded(Pending)
  /\ UNCHANGED <<grantVars, socks, queues, reqs, assets, history>>

CloseWindow ==
  /\ window' = FALSE
  /\ pairs' = Concluded(Pending)
  /\ UNCHANGED <<grantVars, socks, queues, reqs, assets, history>>

\* Time runs out: a challenge ends with the window at the latest.
WindowLapses ==
  /\ window
  /\ window' = FALSE
  /\ pairs' = [p \in Pairing |-> [pairs[p] EXCEPT !.late = @ \/ p \in Pending]]
  /\ UNCHANGED <<grantVars, socks, queues, reqs, assets, history>>

ChallengeLapses(p) ==
  /\ p \in Pending /\ ~pairs[p].late
  /\ pairs' = [pairs EXCEPT ![p].late = TRUE]
  /\ UNCHANGED <<grantVars, window, socks, queues, reqs, assets, history>>

\* handleChallenge, with the refusals that only purge.
AskPairing(c, p) ==
  /\ Attached(c)
  /\ pairs[p].stage = "unused"
  /\ pairs' = IF window /\ Cardinality(Pending \ Expired) < MaxPending
              THEN [Concluded(Expired) EXCEPT ![p].stage = "pending", ![p].sock = c]
              ELSE Concluded(Expired)
  /\ UNCHANGED <<grantVars, window, socks, queues, reqs, assets, history>>

Approvable(p) == p \in Pending \ Expired /\ Open(pairs[p].sock)

\* approveChallenge on a challenge that ran out or lost its client.
ApproveLate(p) ==
  /\ p \in Pending
  /\ ~Approvable(p)
  /\ pairs' = Concluded({p})
  /\ UNCHANGED <<grantVars, window, socks, queues, reqs, assets, history>>

ApproveBadCode(p) ==
  /\ Approvable(p)
  /\ LET bad == pairs[p].bad + 1
         ended == IF bad >= MaxBadCodes THEN {p} ELSE {}
     IN pairs' = [Concluded(ended) EXCEPT ![p].bad = bad]
  /\ UNCHANGED <<grantVars, window, socks, queues, reqs, assets, history>>

\* A grant needs a store, or a build that makes do with memory, and room.
MayGrant == (store \/ AllowSessionGrants) /\ Cardinality(grants) < MaxGrants

ApproveRefused(p) ==
  /\ Approvable(p)
  /\ ~MayGrant
  /\ pairs' = Concluded(Expired \cup {p})
  /\ UNCHANGED <<grantVars, window, socks, queues, reqs, assets, history>>

\* Mutant of GrantUnsaved: the grant stays although it could not be saved.
GrantUnsavedKept(p) ==
  /\ Approvable(p)
  /\ MayGrant /\ store
  /\ grants' = grants \cup {p}
  /\ pairs' = Concluded(Expired \cup {p})
  /\ UNCHANGED <<saved, saveDue, store, missed, window, socks, queues, reqs, assets, history>>

\* The store refuses the new grant, and it is taken back.
GrantUnsaved(p) ==
  /\ Approvable(p)
  /\ MayGrant /\ store
  /\ pairs' = Concluded(Expired \cup {p})
  /\ UNCHANGED <<grantVars, window, socks, queues, reqs, assets, history>>

\* saveGrants: without a store nothing is written, and nothing fails.
SavedNow == saved' = IF store THEN grants' ELSE saved

Approve(p) ==
  /\ Approvable(p)
  /\ MayGrant
  /\ grants' = grants \cup {p}
  /\ SavedNow
  /\ pairs' = [Concluded(Expired \cup {p}) EXCEPT ![p].stage = "granted"]
  /\ UNCHANGED <<saveDue, store, missed, window, socks, queues, reqs, assets, history>>

-----------------------------------------------------------------------------
(* Grants.                                                                   *)

\* isActiveGrantSession
Active(c, g) == g # None /\ g \in grants /\ socks[c].bound = g

Authenticate(c, g) ==
  /\ Attached(c)
  /\ socks[c].grant = None
  /\ g \in grants
  /\ socks' = [socks EXCEPT ![c].grant = g, ![c].bound = g]
  /\ saveDue' = (saveDue \/ store)
  /\ UNCHANGED <<grants, saved, store, missed, window, pairs, queues, reqs, assets, history>>

ScheduledSave ==
  /\ saveDue
  /\ saveDue' = FALSE
  /\ \/ saved' = grants
     \/ UNCHANGED saved
  /\ UNCHANGED <<grants, store, missed, window, pairs, socks, queues, reqs, assets, history>>

\* forwardViewerApiRequestToRenderer settles a load as soon as it is aborted;
\* another handler need not look at the signal.
Loads(g) == {r \in Request : reqs[r].grant = g /\ reqs[r].asset # None}

Gone(h) == [h EXCEPT !.stage = "gone", !.grant = None, !.holder = None]

\* What the session of an answered load keeps: its own grant is dropped.
Dropping(rs) ==
  [c \in Socket |->
     IF \E r \in rs : reqs[r].sock = c /\ reqs[r].grant = socks[c].grant
     THEN [socks[c] EXCEPT !.grant = None] ELSE socks[c]]

AbortRequests(g) ==
  [r \in Request |->
     CASE r \in Loads(g)     -> NoRequest
       [] reqs[r].grant # g  -> reqs[r]
       [] OTHER              -> [reqs[r] EXCEPT !.aborted = TRUE]]

\* revokeGrant and the IPC handler around it; a save that fails undoes it.
Revoke(g) ==
  /\ g \in grants
  /\ grants' = grants \ {g}
  /\ SavedNow
  /\ socks' = [c \in Socket |->
                 [Dropping(Loads(g))[c] EXCEPT !.notice = @ \/ (socks[c].bound = g /\ Open(c))]]
  /\ reqs' = AbortRequests(g)
  /\ assets' = [a \in Asset |->
                  IF assets[a].stage = "held" /\ assets[a].grant = g
                  THEN Gone(assets[a]) ELSE assets[a]]
  /\ revoked' = revoked \cup {g}
  /\ UNCHANGED <<saveDue, store, missed, window, pairs, queues, leaks, tally>>

\* A message on a session whose grant is gone: answered grant_revoked.
RefuseRevoked(c) ==
  /\ Attached(c)
  /\ socks[c].grant # None /\ ~Active(c, socks[c].grant)
  /\ socks' = [socks EXCEPT ![c].grant = None]
  /\ UNCHANGED <<grantVars, window, pairs, queues, reqs, assets, history>>

-----------------------------------------------------------------------------
(* Requests and asset handles.                                               *)

Serving(c) == Attached(c) /\ Active(c, socks[c].grant)

Begin(c, r) ==
  /\ Serving(c)
  /\ ~reqs[r].running
  /\ reqs' = [reqs EXCEPT ![r].running = TRUE, ![r].sock = c, ![r].grant = socks[c].grant]
  /\ UNCHANGED <<grantVars, window, pairs, socks, queues, assets, history>>

\* Mutant of MayCheckOut: a reserved handle can be checked out again.
MayCheckOutReserved(a, g) == assets[a].stage = "held" /\ assets[a].grant = g

MayCheckOut(a, g) ==
  assets[a].stage = "held" /\ assets[a].grant = g /\ assets[a].holder = None

\* viewer.prop.load of a picked file: checkout reserves the handle.
BeginLoad(c, r, a) ==
  /\ Serving(c)
  /\ ~reqs[r].running
  /\ MayCheckOut(a, socks[c].grant)
  /\ assets' = [assets EXCEPT ![a].holder = r]
  /\ reqs' = [reqs EXCEPT ![r].running = TRUE, ![r].sock = c,
                          ![r].grant = socks[c].grant, ![r].asset = a]
  /\ UNCHANGED <<grantVars, window, pairs, socks, queues, history>>

\* Mutant of Stale: the session is looked at before the dispatch only.
StaleNever(r) == reqs[r].aborted /\ reqs[r].grant \in grants

\* The check after dispatch; a connection that is gone keeps its token.
Stale(r) ==
  \/ reqs[r].aborted
  \/ reqs[r].grant \notin grants
  \/ reqs[r].sock # None /\ ~Active(reqs[r].sock, reqs[r].grant)

\* consume or release: only by the request that holds the reservation.
Settled(a, r, accepted) ==
  IF assets[a].stage # "held" \/ assets[a].holder # r THEN assets[a]
  ELSE IF accepted THEN Gone(assets[a]) ELSE [assets[a] EXCEPT !.holder = None]

\* A handler is done; a load is accepted or refused, times out or finds no
\* window, and its handle is consumed only when it was accepted.
Finish(r, accepted) ==
  /\ reqs[r].running
  /\ reqs' = [reqs EXCEPT ![r] = NoRequest]
  /\ socks' = IF Stale(r) THEN Dropping({r}) ELSE socks
  /\ assets' = [a \in Asset |->
                  IF a # reqs[r].asset THEN assets[a]
                  ELSE [Settled(a, r, accepted) EXCEPT !.uses = IF accepted THEN @ + 1 ELSE @]]
  /\ leaks' = IF accepted /\ ~Stale(r) /\ reqs[r].grant \in revoked
              THEN leaks \cup {reqs[r].grant} ELSE leaks
  /\ UNCHANGED <<grantVars, window, pairs, queues, revoked, tally>>

\* The user shares a picked file with a grant, and may take it back.
Issue(a, g) ==
  /\ assets[a].stage = "unissued"
  /\ g \in grants
  /\ assets' = [assets EXCEPT ![a].stage = "held", ![a].grant = g]
  /\ UNCHANGED <<grantVars, window, pairs, socks, queues, reqs, history>>

\* revoke, an expiry found by lookup or cleanupExpired, or clear.
Withdraw(a) ==
  /\ assets[a].stage = "held"
  /\ assets' = [assets EXCEPT ![a] = Gone(@)]
  /\ UNCHANGED <<grantVars, window, pairs, socks, queues, reqs, history>>

-----------------------------------------------------------------------------
(* Events.                                                                   *)

\* viewer.events.subscribe, answered in the same task; mode replace or add.
Subscribe(c, names, kept) ==
  /\ Serving(c)
  /\ names \subseteq ScopeOf[socks[c].grant]
  /\ kept \in {{}, socks[c].subs}
  /\ socks' = [socks EXCEPT ![c].subs = kept \cup names]
  /\ UNCHANGED <<grantVars, window, pairs, queues, reqs, assets, history>>

\* Modes remove and clear.
Unsubscribe(c, names) ==
  /\ Serving(c)
  /\ socks' = [socks EXCEPT ![c].subs = @ \ names]
  /\ UNCHANGED <<grantVars, window, pairs, queues, reqs, assets, history>>

\* Mutant of Receives: the session is not looked at.
ReceivesBound(c, name) ==
  Attached(c) /\ socks[c].bound # None /\ name \in socks[c].subs

\* publishEvent and shouldDeliverEvent
Receives(c, name) ==
  LET g == socks[c].bound
  IN Attached(c) /\ Active(c, g) /\ name \in socks[c].subs /\ name \in ScopeOf[g]

Unaccounted(t) == t.large + t.fit

\* passed: the clients whose filters and minimal interval let the event pass.
Publish(name, size, passed) ==
  LET to == {c \in passed : Receives(c, name)}
  IN /\ \A c \in to : Unaccounted(tally[c]) < MaxUnsent
     /\ queues' = [c \in Socket |-> IF c \in to THEN Enqueued(queues[c], size) ELSE queues[c]]
     /\ tally' = [c \in Socket |->
                    IF c \notin to THEN tally[c]
                    ELSE IF TooLarge(size) THEN [tally[c] EXCEPT !.large = @ + 1]
                                           ELSE [tally[c] EXCEPT !.fit = @ + 1]]
     /\ UNCHANGED <<grantVars, window, pairs, socks, reqs, assets, revoked, leaks>>

\* The timer of scheduleEventFlush; nothing is sent on a closing socket.
Flush(c) ==
  /\ queues[c].scheduled
  /\ LET n == Flushed(queues[c])
     IN IF Open(c)
        THEN /\ queues' = [queues EXCEPT ![c] = Left(queues[c], n)]
             /\ tally' = [tally EXCEPT
                            ![c].large = @ - queues[c].owed["payload_too_large"],
                            ![c].fit = @ - (n + queues[c].owed["queue_overflow"])]
        ELSE /\ queues' = [queues EXCEPT ![c].scheduled = FALSE]
             /\ UNCHANGED tally
  /\ UNCHANGED <<grantVars, window, pairs, socks, reqs, assets, revoked, leaks>>

-----------------------------------------------------------------------------
\* What a start loads: nothing without a store, nor from a file that cannot be
\* read, decrypted or parsed.
Loadable(with) == IF with THEN {saved, {}} ELSE {{}}

\* The viewer is started again, after a crash or a quit.
Restart ==
  /\ store' \in BOOLEAN
  /\ grants' \in Loadable(store')
  /\ missed' = (missed \cup grants \cup saved) \ grants'
  /\ saveDue' = FALSE
  /\ window' = FALSE
  /\ pairs' = [p \in Pairing |->
                 IF p \in Pending THEN [NoChallenge EXCEPT !.stage = "ended"] ELSE pairs[p]]
  /\ socks' = [c \in Socket |-> NoSock]
  /\ queues' = [c \in Socket |-> EmptyQueue]
  /\ reqs' = [r \in Request |-> NoRequest]
  /\ assets' = [a \in Asset |->
                  IF assets[a].stage = "held" THEN Gone(assets[a]) ELSE assets[a]]
  /\ UNCHANGED <<saved, history>>

\* The client and its connection.
ClientStep(c) ==
  \/ Connect(c) \/ PeerCloses(c) \/ NoticeWritten(c) \/ Disconnect(c)
  \/ RefuseRevoked(c) \/ Flush(c)
  \/ \E p \in Pairing : AskPairing(c, p) \/ Authenticate(c, p)
  \/ \E r \in Request : Begin(c, r)
  \/ \E r \in Request, a \in Asset : BeginLoad(c, r, a)
  \/ \E names \in SUBSET Event, kept \in {{}, socks[c].subs} : Subscribe(c, names, kept)
  \/ \E names \in SUBSET Event : Unsubscribe(c, names)

\* The user, on a challenge or the grant it became.
UserStep(p) ==
  \/ ChallengeLapses(p) \/ ApproveLate(p) \/ ApproveBadCode(p) \/ ApproveRefused(p)
  \/ GrantUnsaved(p) \/ Approve(p) \/ Revoke(p)

ServerStep == OpenWindow \/ CloseWindow \/ WindowLapses \/ ScheduledSave \/ Restart

Next ==
  \/ \E c \in Socket : ClientStep(c)
  \/ \E p \in Pairing : UserStep(p)
  \/ ServerStep
  \/ \E r \in Request, accepted \in BOOLEAN : Finish(r, accepted)
  \/ \E a \in Asset, g \in Pairing : Issue(a, g)
  \/ \E a \in Asset : Withdraw(a)
  \/ \E name \in Event, size \in 1..PayloadBytes + 1, passed \in SUBSET Socket :
       Publish(name, size, passed)

Spec == Init /\ [][Next]_vars

-----------------------------------------------------------------------------
(* Properties.                                                               *)

\* With a store, what is in memory is in the file, unless the start could not
\* read the file and nothing was saved since; without one, nothing is written.  A
\* token that was handed out stays good until its revocation, or until a start
\* that misses it: it could not read the file, had no store, or followed a process
\* that had none.  A confirmed revocation survives every later save and restart:
\* approveChallenge and revokeGrant undo what they could not save.
GrantsDurable ==
  /\ IF store THEN grants = saved \/ (grants = {} /\ saved \subseteq missed)
              ELSE grants \cap saved = {}
  /\ revoked \cap (grants \cup saved) = {}
  /\ \A p \in Pairing : pairs[p].stage = "granted" => p \in grants \cup revoked \cup missed

\* Every challenge gets one final answer: none while it is pending, never two,
\* and none only if its connection was closed before.
ChallengeAnsweredOnce ==
  [][\A p \in Pairing :
       /\ pairs'[p].told <= 1
       /\ pairs'[p].stage \in {"unused", "pending"} => pairs'[p].told = 0
       /\ pairs'[p].stage = "granted" => pairs'[p].told = 1
       /\ LET c == pairs[p].sock
          IN p \in Pending /\ pairs'[p].stage = "ended" /\ Open(c) =>
               pairs'[p].told = 1 \/ socks'[c].phase # "open"]_vars

\* A one-time handle is good for one accepted load, however loads time out, are
\* aborted by a revocation and are tried again.
HandleSpentOnce ==
  \A a \in Asset :
    /\ assets[a].uses <= 1
    /\ assets[a].uses = 1 => assets[a].stage = "gone"

DropsCounted ==
  \A c \in Socket : Attached(c) =>
    /\ tally[c].large = queues[c].owed["payload_too_large"]
    /\ tally[c].fit = Len(queues[c].events) + queues[c].owed["queue_overflow"]

BytesCounted == \A c \in Socket : queues[c].bytes = Total(queues[c].events)

\* Nothing is lost silently: what a connection was offered was sent, is queued, or
\* is counted in a notice sent or still owed, each category for itself; and the
\* byte count that decides what is dropped is that of the queued events.
DropsAccounted == DropsCounted /\ BytesCounted

\* As long as a client is connected and something waits for it, a flush is set.
NothingStranded ==
  \A c \in Socket :
    Open(c) /\ (queues[c].events # <<>> \/ Notices(queues[c]) # {}) => queues[c].scheduled

\* Once a revocation was confirmed, no request of the grant is answered with a
\* result, no event is queued for it and no token of it works again, on a session
\* that is closing, was rebound to another grant, or comes back after a restart.
RevocationIsFinal ==
  [][/\ leaks' = {}
     /\ \A c \in Socket : Unaccounted(tally'[c]) > Unaccounted(tally[c]) => socks[c].bound \notin revoked
     /\ \A c \in Socket : socks'[c].bound # socks[c].bound => socks'[c].bound \notin revoked]_vars
=============================================================================
