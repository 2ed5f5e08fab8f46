--------------------------- MODULE Settings_proofs ---------------------------
(***************************************************************************)
(* Proofs about Settings: for any number of devices, settings, changes,    *)
(* retries and disturbances.                                               *)
(***************************************************************************)
EXTENDS Settings, SequenceTheorems, TLAPS

-----------------------------------------------------------------------------
(* The inductive invariant.                                                *)

\* With the changes made so far, change n was made on device d.
Own(made, d, n) == n \in 1..Len(made) /\ made[n] = d

\* Each setting is what it is in "last", or what d's user once made of it.
OwnOr(last, made, d, settings) ==
  \A k \in Keys : settings[k] = last[k] \/ Own(made, d, settings[k])

\* A request shows the changes it sends, and if it can still be accepted, it
\* would change no setting but to a value of its own device.
RequestTrue(d, r) ==
  /\ r.base <= Version
  /\ \A k \in Keys : r.sent[k] # 0 => r.payload[k] = r.sent[k]
  /\ r.base = Version => OwnOr(At(Version), changes, d, r.payload)

RequestsTrue == \A d \in Devices : \A r \in UnderWay(d) : RequestTrue(d, r)

\* A device has only changes of its own to send.
PendingTrue ==
  \A d \in Devices, k \in Keys :
    pending[d][k] # 0 => Own(changes, d, pending[d][k])

\* A device that has the last version shows that, or values of its own: it may
\* have kept one back that it was sending when a newer version arrived.
StoreTrue(d) ==
  store[d].version = Version => OwnOr(At(Version), changes, d, store[d].settings)

StoresTrue == \A d \in Devices : StoreTrue(d)

\* What a device is about to take as accepted was accepted.
SentTrue ==
  \A d \in Devices :
    run[d].at = "accepted" =>
      \A k \in Keys : run[d].request.sent[k] \in {0} \cup Accepted

\* A run that no other one follows has sent, or is sending, all there is; and
\* whoever waits for it waits for a version that it will have.
RunTrue(d) ==
  /\ ~sync[d].again =>
       /\ run[d].at \in {"get", "got"} => pending[d] = Nothing
       /\ run[d].at \in {"post", "accepted"} => pending[d] = run[d].request.sent
  /\ waiter[d].since <= Version
  /\ run[d].at = "got" /\ waiter[d].state = "waits" =>
       run[d].answer >= waiter[d].since

RunsTrue == \A d \in Devices : RunTrue(d)

WritesTrue == RequestsTrue /\ PendingTrue /\ StoresTrue

SafetyInv ==
  /\ TypeOK /\ WritesTrue /\ SentTrue /\ RunsTrue
  /\ NothingDropped /\ NothingLeftAtRest

-----------------------------------------------------------------------------
(* The versions at the centre.                                             *)

\* The settings of every version are settings.
LEMMA HistoryTyped ==
  ASSUME TypeOK
  PROVE  /\ Version \in Nat
         /\ Defaults \in SomeSettings
         /\ \A v \in 0..Version : At(v) \in SomeSettings
<1>1. /\ Len(written) \in Nat
      /\ \A i \in 1..Len(written) : written[i] \in SomeSettings
  BY LenProperties, ElementOfSeq DEF TypeOK
<1>2. 0 \in Values
  BY ConstantsAssumption DEF Values
<1>3. Defaults \in SomeSettings
  BY <1>2 DEF Defaults, SomeSettings
<1>. QED  BY <1>1, <1>3 DEF At, Version

\* A version that was taken does not change when another is.
LEMMA HistoryGrows ==
  ASSUME TypeOK, NEW x \in SomeSettings, written' = Append(written, x)
  PROVE  /\ written' \in Seq(SomeSettings)
         /\ Version' = Version + 1
         /\ At(Version)' = x
         /\ \A v \in 0..Version : At(v)' = At(v)
         /\ Accepted' = Accepted \cup {x[k] : k \in Keys}
<1>1. /\ written' \in Seq(SomeSettings)
      /\ Len(written') = Len(written) + 1
      /\ Len(written) \in Nat
      /\ \A i \in 1..Len(written) : written'[i] = written[i]
      /\ written'[Len(written) + 1] = x
  BY AppendProperties, LenProperties DEF TypeOK
<1>2. At(Version)' = x
  BY <1>1 DEF At, Version
<1>3. \A v \in 0..Version : At(v)' = At(v)
  BY <1>1 DEF At, Version
<1>4. 1..Version' = (1..Version) \cup {Version + 1}
  BY <1>1 DEF Version
<1>5. Accepted' = Accepted \cup {x[k] : k \in Keys}
  <2>1. ASSUME NEW n  PROVE n \in Accepted' <=> n \in Accepted \cup {x[k] : k \in Keys}
    <3>1. n \in Accepted' <=> \E v \in 1..Version' : \E k \in Keys : n = written'[v][k]
      BY DEF Accepted, Version
    <3>2. n \in Accepted <=> \E v \in 1..Version : \E k \in Keys : n = written[v][k]
      BY DEF Accepted, Version
    <3>. QED  BY <1>1, <1>4, <3>1, <3>2 DEF Version
  <2>. QED  BY <2>1
<1>. QED  BY <1>1, <1>2, <1>3, <1>5 DEF Version

LEMMA HistoryKept ==
  ASSUME UNCHANGED written
  PROVE  Version' = Version /\ Accepted' = Accepted /\ \A v : At(v)' = At(v)
BY DEF Version, At, Accepted

\* What is merged of settings are settings.
LEMMA MergedTyped ==
  ASSUME NEW s \in SomeSettings, NEW t \in SomeSettings
  PROVE  /\ Merged(s, t) \in SomeSettings
         /\ \A k \in Keys : Merged(s, t)[k] = IF t[k] # 0 THEN t[k] ELSE s[k]
BY DEF Merged, SomeSettings

LEMMA StillPendingTyped ==
  ASSUME NEW s \in SomeSettings, NEW t \in SomeSettings
  PROVE  /\ StillPending(s, t) \in SomeSettings
         /\ \A k \in Keys : StillPending(s, t)[k] = IF s[k] = t[k] THEN 0 ELSE s[k]
<1>1. 0 \in Values
  BY ConstantsAssumption DEF Values
<1>. QED  BY <1>1 DEF StillPending, SomeSettings

-----------------------------------------------------------------------------
(* The fields of a device.                                                 *)

Runs(v) == [at : Sites, request : Request, answer : 0..v, retries : 0..MaxRetries - 1]
Stores(v) == [settings : SomeSettings, version : 0..v]

LEMMA DeviceTyped ==
  ASSUME TypeOK, NEW d \in Devices
  PROVE  /\ store[d] \in Stores(Version)
         /\ store[d].settings \in SomeSettings /\ store[d].version \in 0..Version
         /\ pending[d] \in SomeSettings
         /\ sync[d] \in SyncStates
         /\ run[d] \in Runs(Version)
         /\ run[d].at \in Sites /\ run[d].request \in Request
         /\ run[d].answer \in 0..Version /\ run[d].retries \in 0..MaxRetries - 1
         /\ stray[d] \in SUBSET Request
         /\ waiter[d] \in Waiters /\ waiter[d].since \in Nat
         /\ latest[d] \in SomeSettings
BY DEF TypeOK, Stores, Runs, Waiters

LEMMA RequestTyped ==
  ASSUME NEW r \in Request
  PROVE  r.base \in Nat /\ r.sent \in SomeSettings /\ r.payload \in SomeSettings
BY DEF Request

LEMMA AtSiteTyped ==
  ASSUME TypeOK, NEW site \in Sites
  PROVE  /\ AtSite(site) \in Runs(Version)
         /\ AtSite(site).at = site /\ AtSite(site).request = NoRequest
         /\ NoRequest \in Request
<1>1. NoRequest \in Request
  BY HistoryTyped DEF NoRequest, Nothing, Request
<1>. QED  BY <1>1, HistoryTyped, ConstantsAssumption DEF AtSite, Runs

\* A device may be given settings of a version the centre has.
LEMMA AppliedTyped ==
  ASSUME TypeOK, NEW d \in Devices, NEW v \in 0..Version
  PROVE  /\ Applied(d, v) \in [Devices -> Stores(Version)]
         /\ \A e \in Devices : e # d => Applied(d, v)[e] = store[e]
         /\ Applied(d, v)[d].version >= v
         /\ Applied(d, v)[d] = store[d]
              \/ Applied(d, v)[d] = [settings |-> OnTop(d, At(v)), version |-> v]
<1>1. OnTop(d, At(v)) \in SomeSettings
  BY HistoryTyped, MergedTyped, DeviceTyped DEF OnTop
<1>2. store \in [Devices -> Stores(Version)] /\ store[d].version \in 0..Version
  BY DEF TypeOK, Stores
<1>3. Version \in Nat
  BY HistoryTyped
<1>4. [settings |-> OnTop(d, At(v)), version |-> v] \in Stores(Version)
  BY <1>1 DEF Stores
<1>5. CASE store[d].version < v
  BY <1>2, <1>3, <1>4, <1>5 DEF Applied
<1>6. CASE ~(store[d].version < v)
  BY <1>2, <1>3, <1>6 DEF Applied
<1>. QED  BY <1>5, <1>6

\* What InvalidateSync makes of a device's state.
LEMMA SyncTyped ==
  ASSUME NEW s \in SyncStates
  PROVE  /\ Invalidated(s) \in SyncStates /\ Invalidated(s).invalidated
         /\ s.invalidated => Invalidated(s).again
         /\ ~s.invalidated => ~Invalidated(s).again
         /\ Completed(s) \in SyncStates
         /\ ~Completed(s).again
         /\ s.again => Completed(s).invalidated = s.invalidated
         /\ ~s.again => ~Completed(s).invalidated
BY DEF SyncStates, Invalidated, Completed, Idle

\* A run that is written by its device alone.
LEMMA RunWritten ==
  ASSUME TypeOK, Version' = Version, NEW d \in Devices, NEW x \in Runs(Version),
         run' = [run EXCEPT ![d] = x], sync' = sync,
         x.at # "idle", run[d].at # "idle"
  PROVE  /\ run' \in [Devices -> Runs(Version')]
         /\ \A e \in Devices : run'[e].at = "idle" <=> ~sync'[e].invalidated
         /\ run'[d] = x
         /\ \A e \in Devices : e # d => run'[e] = run[e]
<1>1. run \in [Devices -> Runs(Version)]
      /\ \A e \in Devices : run[e].at = "idle" <=> ~sync[e].invalidated
  BY DEF TypeOK, Runs
<1>. QED  BY <1>1

\* What asking for a run does to a device.
LEMMA InvalidatesTyped ==
  ASSUME TypeOK, Version' = Version, NEW d \in Devices, Invalidates(d)
  PROVE  /\ sync' \in [Devices -> SyncStates]
         /\ run' \in [Devices -> Runs(Version')]
         /\ \A e \in Devices : run'[e].at = "idle" <=> ~sync'[e].invalidated
         /\ \A e \in Devices : e # d => sync'[e] = sync[e] /\ run'[e] = run[e]
         /\ sync'[d].invalidated
         /\ \/ run'[d] = run[d] /\ run[d].at # "idle" /\ sync'[d].again
            \/ run'[d] = AtSite("start") /\ run[d].at = "idle"
<1>1. /\ run \in [Devices -> Runs(Version)] /\ sync \in [Devices -> SyncStates]
      /\ \A e \in Devices : run[e].at = "idle" <=> ~sync[e].invalidated
  BY DEF TypeOK, Runs
<1>2. AtSite("start") \in Runs(Version) /\ AtSite("start").at = "start"
  BY AtSiteTyped DEF Sites
<1>3. /\ Invalidated(sync[d]) \in SyncStates /\ Invalidated(sync[d]).invalidated
      /\ sync[d].invalidated => Invalidated(sync[d]).again
  BY <1>1, SyncTyped
<1>4. sync' = [sync EXCEPT ![d] = Invalidated(sync[d])]
  BY DEF Invalidates
<1>5. CASE sync[d].invalidated
  <2>1. run' = run
    BY <1>5 DEF Invalidates, Starts
  <2>. QED  BY <2>1, <1>1, <1>3, <1>4, <1>5
<1>6. CASE ~sync[d].invalidated
  <2>1. run' = [run EXCEPT ![d] = AtSite("start")]
    BY <1>6 DEF Invalidates, Starts
  <2>. QED  BY <2>1, <1>1, <1>2, <1>3, <1>4, <1>6
<1>. QED  BY <1>5, <1>6

\* What a device sends of state st.
Sent(d, st, retries) ==
  [at |-> "post", request |-> Snapshot(st, pending[d]), answer |-> 0,
   retries |-> retries]

LEMMA SentTyped ==
  ASSUME TypeOK, NEW d \in Devices, NEW st \in Stores(Version),
         NEW n \in 0..MaxRetries - 1
  PROVE  /\ Sent(d, st, n) \in Runs(Version)
         /\ Sent(d, st, n).at = "post"
         /\ Sent(d, st, n).request = Snapshot(st, pending[d])
         /\ Snapshot(st, pending[d]).base = st.version
         /\ Snapshot(st, pending[d]).sent = pending[d]
         /\ Snapshot(st, pending[d]).payload = Merged(st.settings, pending[d])
<1>1. st.settings \in SomeSettings /\ st.version \in 0..Version /\ Version \in Nat
  BY HistoryTyped DEF Stores
<1>2. Merged(st.settings, pending[d]) \in SomeSettings
  BY <1>1, MergedTyped, DeviceTyped
<1>3. Snapshot(st, pending[d]) \in Request
  BY <1>1, <1>2, DeviceTyped DEF Snapshot, Request
<1>4. 0 \in 0..Version
  BY <1>1
<1>. QED  BY <1>3, <1>4 DEF Sent, Runs, Sites, Snapshot

\* Requests left behind are requests.
LEMMA LeftTyped ==
  ASSUME TypeOK, NEW d \in Devices, LeftBehind(d)
  PROVE  /\ stray' \in [Devices -> SUBSET Request]
         /\ \A e \in Devices : stray'[e] \subseteq UnderWay(e)
<1>1. stray \in [Devices -> SUBSET Request] /\ run[d].request \in Request
  BY DeviceTyped DEF TypeOK
<1>2. CASE run[d].at = "post"
  BY <1>1, <1>2 DEF LeftBehind, UnderWay
<1>3. CASE run[d].at # "post"
  BY <1>1, <1>3 DEF LeftBehind, UnderWay
<1>. QED  BY <1>2, <1>3

-----------------------------------------------------------------------------
(* What the actions do, in terms of a device's run.                        *)

\* The run of a device after its request was served.
Served(d) ==
  IF Accepts(run[d].request)
  THEN [run[d] EXCEPT !.at = "accepted"]
  ELSE [run[d] EXCEPT !.at = "mismatch", !.answer = Version, !.request = NoRequest]

LEMMA ServedTyped ==
  ASSUME TypeOK, NEW d \in Devices, PostServed(d)
  PROVE  /\ run' = [run EXCEPT ![d] = Served(d)]
         /\ Served(d) \in Runs(Version)
         /\ Served(d).at \in {"accepted", "mismatch"}
         /\ Served(d).at = "accepted" =>
              /\ Accepts(run[d].request) /\ Served(d).request = run[d].request
         /\ Served(d).at = "mismatch" => Served(d).request = NoRequest
         /\ run[d].at = "post"
<1>1. /\ run \in [Devices -> Runs(Version)] /\ run[d] \in Runs(Version)
      /\ NoRequest \in Request /\ Version \in 0..Version
  <2>1. "idle" \in Sites
    BY DEF Sites
  <2>2. NoRequest \in Request
    BY <2>1, AtSiteTyped
  <2>3. run \in [Devices -> Runs(Version)]
    BY DEF TypeOK, Runs
  <2>. QED  BY <2>2, <2>3, HistoryTyped
<1>2. CASE Accepts(run[d].request)
  <2>1. run' = [run EXCEPT ![d].at = "accepted"]
    BY <1>2 DEF PostServed
  <2>. QED  BY <2>1, <1>1, <1>2 DEF Served, PostServed, Runs, Sites
<1>3. CASE ~Accepts(run[d].request)
  <2>1. run' = [run EXCEPT ![d].at = "mismatch", ![d].answer = Version,
                           ![d].request = NoRequest]
    BY <1>3 DEF PostServed
  <2>2. run' = [run EXCEPT ![d] = Served(d)]
    BY <2>1, <1>1, <1>3 DEF Served
  <2>. QED  BY <2>2, <1>1, <1>3 DEF Served, PostServed, Runs, Sites
<1>. QED  BY <1>2, <1>3

-----------------------------------------------------------------------------
(* Every step keeps the types.                                             *)

\* The parts of the type invariant, to be shown one by one.
LEMMA TypeFromParts ==
  ASSUME written' \in Seq(SomeSettings),
         store' \in [Devices -> Stores(Version')],
         pending' \in [Devices -> SomeSettings],
         sync' \in [Devices -> SyncStates],
         run' \in [Devices -> Runs(Version')],
         \A d \in Devices : run'[d].at = "idle" <=> ~sync'[d].invalidated,
         stray' \in [Devices -> SUBSET Request],
         waiter' \in [Devices -> Waiters],
         changes' \in Seq(Devices), Len(changes') \in Values,
         latest' \in [Devices -> SomeSettings],
         disturbances' \in 0..MaxDisturbances
  PROVE  TypeOK'
BY DEF TypeOK, Stores, Runs

LEMMA TypeToParts ==
  ASSUME TypeOK
  PROVE  /\ written \in Seq(SomeSettings)
         /\ store \in [Devices -> Stores(Version)]
         /\ pending \in [Devices -> SomeSettings]
         /\ sync \in [Devices -> SyncStates]
         /\ run \in [Devices -> Runs(Version)]
         /\ \A d \in Devices : run[d].at = "idle" <=> ~sync[d].invalidated
         /\ stray \in [Devices -> SUBSET Request]
         /\ waiter \in [Devices -> Waiters]
         /\ changes \in Seq(Devices) /\ Len(changes) \in Values
         /\ latest \in [Devices -> SomeSettings]
         /\ disturbances \in 0..MaxDisturbances
         /\ Version \in Nat
BY HistoryTyped DEF TypeOK, Stores, Runs

\* One more version leaves room for all that was there.
LEMMA RoomGrows ==
  ASSUME NEW v \in Nat
  PROVE  Stores(v) \subseteq Stores(v + 1) /\ Runs(v) \subseteq Runs(v + 1)
BY DEF Stores, Runs

LEMMA TypeInit ==
  ASSUME Init
  PROVE  TypeOK
<1>1. /\ 0 \in Values /\ Nothing \in SomeSettings /\ Defaults \in SomeSettings
  BY ConstantsAssumption DEF Values, Nothing, Defaults, SomeSettings
<1>2. Version = 0
  BY EmptySeq DEF Init, Version
<1>3. /\ written \in Seq(SomeSettings)
      /\ changes \in Seq(Devices) /\ Len(changes) \in Values
  BY <1>1, EmptySeq DEF Init
<1>4. NoRequest \in Request /\ AtSite("idle") \in Runs(0) /\ AtSite("idle").at = "idle"
  BY <1>1, ConstantsAssumption DEF AtSite, NoRequest, Request, Runs, Sites
<1>5. /\ store \in [Devices -> Stores(0)] /\ run \in [Devices -> Runs(0)]
      /\ sync \in [Devices -> SyncStates]
      /\ \A d \in Devices : run[d].at = "idle" <=> ~sync[d].invalidated
  BY <1>1, <1>4 DEF Init, Stores, SyncStates, Idle
<1>6. /\ pending \in [Devices -> SomeSettings] /\ latest \in [Devices -> SomeSettings]
      /\ stray \in [Devices -> SUBSET Request] /\ waiter \in [Devices -> Waiters]
      /\ disturbances \in 0..MaxDisturbances
  BY <1>1, ConstantsAssumption DEF Init, Waiters
<1>. QED  BY <1>2, <1>3, <1>5, <1>6 DEF TypeOK, Stores, Runs

LEMMA ChangesTyped ==
  ASSUME TypeOK, NEW d \in Devices, NEW k \in Keys, Changes(d, k)
  PROVE  TypeOK'
<1>1. UNCHANGED <<written, stray, waiter, disturbances>> /\ Version' = Version
  BY HistoryKept DEF Changes
<1>2. /\ changes' \in Seq(Devices)
      /\ Len(changes') = Len(changes) + 1
      /\ Len(changes') \in Values
  <2>1. Len(changes) \in Nat
    BY TypeToParts, LenProperties
  <2>2. changes' = Append(changes, d) /\ Len(changes) < MaxChanges
    BY DEF Changes
  <2>. QED  BY <2>1, <2>2, TypeToParts, AppendProperties, ConstantsAssumption DEF Values
<1>3. /\ latest' = [latest EXCEPT ![d][k] = Len(changes')]
      /\ pending' = [pending EXCEPT ![d][k] = Len(changes')]
      /\ store' = [store EXCEPT ![d].settings[k] = Len(changes')]
  BY <1>2 DEF Changes
<1>4. pending' \in [Devices -> SomeSettings] /\ latest' \in [Devices -> SomeSettings]
  BY <1>2, <1>3, TypeToParts DEF SomeSettings
<1>5. store' \in [Devices -> Stores(Version')]
  <2>1. store[d].settings \in SomeSettings /\ store[d].version \in 0..Version
    BY DeviceTyped
  <2>2. [store[d].settings EXCEPT ![k] = Len(changes')] \in SomeSettings
    BY <1>2, <2>1 DEF SomeSettings
  <2>3. store[d] \in Stores(Version)
    BY DeviceTyped
  <2>4. [store[d] EXCEPT !.settings = [@ EXCEPT ![k] = Len(changes')]] \in Stores(Version)
    BY <2>2, <2>3 DEF Stores
  <2>. QED  BY <1>1, <1>3, <2>4, TypeToParts
<1>6. /\ sync' \in [Devices -> SyncStates] /\ run' \in [Devices -> Runs(Version')]
      /\ \A e \in Devices : run'[e].at = "idle" <=> ~sync'[e].invalidated
  BY <1>1, InvalidatesTyped DEF Changes
<1>. QED  BY <1>1, <1>2, <1>4, <1>5, <1>6, TypeToParts, TypeFromParts

LEMMA BecomesActiveTyped ==
  ASSUME TypeOK, NEW d \in Devices, BecomesActive(d)
  PROVE  TypeOK'
<1>1. /\ UNCHANGED <<written, store, pending, stray, waiter, changes, latest>>
      /\ Version' = Version
  BY HistoryKept DEF BecomesActive
<1>2. disturbances' \in 0..MaxDisturbances
  BY TypeToParts, ConstantsAssumption DEF BecomesActive, Disturbs
<1>3. /\ sync' \in [Devices -> SyncStates] /\ run' \in [Devices -> Runs(Version')]
      /\ \A e \in Devices : run'[e].at = "idle" <=> ~sync'[e].invalidated
  BY <1>1, InvalidatesTyped DEF BecomesActive
<1>. QED  BY <1>1, <1>2, <1>3, TypeToParts, TypeFromParts

\* What a run does when it begins, and after a conflict.
Begun(d) ==
  IF pending[d] # Nothing THEN Sent(d, store[d], 0) ELSE AtSite("get")

Retried(d) ==
  IF run[d].retries + 1 < MaxRetries
  THEN Sent(d, Applied(d, run[d].answer)[d], run[d].retries + 1)
  ELSE AtSite("start")

LEMMA BegunTyped ==
  ASSUME TypeOK, NEW d \in Devices, Begins(d)
  PROVE  /\ run' = [run EXCEPT ![d] = Begun(d)]
         /\ Begun(d) \in Runs(Version)
         /\ Begun(d).at \in {"post", "get"}
         /\ Begun(d).at = "post" => Begun(d).request = Snapshot(store[d], pending[d])
         /\ Begun(d).at = "get" =>
              pending[d] = Nothing /\ Begun(d).request = NoRequest
         /\ run[d].at = "start"
<1>1. store[d] \in Stores(Version) /\ 0 \in 0..MaxRetries - 1
  BY DeviceTyped, ConstantsAssumption
<1>2. /\ AtSite("get") \in Runs(Version) /\ AtSite("get").at = "get"
      /\ AtSite("get").request = NoRequest
  BY AtSiteTyped DEF Sites
<1>3. CASE pending[d] # Nothing
  <2>1. Begun(d) = Sent(d, store[d], 0)
    BY <1>3 DEF Begun
  <2>2. run' = [run EXCEPT ![d] = Begun(d)] /\ run[d].at = "start"
    BY <2>1, <1>3 DEF Begins, Sends, Sent
  <2>. QED  BY <2>1, <2>2, <1>1, SentTyped
<1>4. CASE pending[d] = Nothing
  <2>1. Begun(d) = AtSite("get")
    BY <1>4 DEF Begun
  <2>2. run' = [run EXCEPT ![d] = Begun(d)] /\ run[d].at = "start"
    BY <2>1, <1>4 DEF Begins
  <2>. QED  BY <2>1, <2>2, <1>2, <1>4
<1>. QED  BY <1>3, <1>4

LEMMA RetriedTyped ==
  ASSUME TypeOK, NEW d \in Devices, LearnsMismatch(d)
  PROVE  /\ run' = [run EXCEPT ![d] = Retried(d)]
         /\ store' = Applied(d, run[d].answer)
         /\ store' \in [Devices -> Stores(Version)]
         /\ Retried(d) \in Runs(Version)
         /\ Retried(d).at \in {"post", "start"}
         /\ Retried(d).at = "post" =>
              Retried(d).request = Snapshot(store'[d], pending[d])
         /\ Retried(d).at = "start" => Retried(d).request = NoRequest
         /\ run[d].at = "mismatch"
<1>1. /\ store' = Applied(d, run[d].answer)
      /\ run[d].at = "mismatch"
      /\ run[d].answer \in 0..Version /\ run[d].retries \in 0..MaxRetries - 1
  BY DeviceTyped DEF LearnsMismatch
<1>2. store' \in [Devices -> Stores(Version)] /\ store'[d] \in Stores(Version)
  BY <1>1, AppliedTyped
<1>3. /\ AtSite("start") \in Runs(Version) /\ AtSite("start").at = "start"
      /\ AtSite("start").request = NoRequest
  BY AtSiteTyped DEF Sites
<1>4. CASE run[d].retries + 1 < MaxRetries
  <2>1. Retried(d) = Sent(d, store'[d], run[d].retries + 1)
    BY <1>1, <1>4 DEF Retried
  <2>2. run' = [run EXCEPT ![d] = Retried(d)]
    BY <2>1, <1>4 DEF LearnsMismatch, Sends, Sent
  <2>3. run[d].retries + 1 \in 0..MaxRetries - 1
    BY <1>1, <1>4, ConstantsAssumption
  <2>. QED  BY <2>1, <2>2, <2>3, <1>1, <1>2, SentTyped
<1>5. CASE ~(run[d].retries + 1 < MaxRetries)
  <2>1. Retried(d) = AtSite("start")
    BY <1>5 DEF Retried
  <2>2. run' = [run EXCEPT ![d] = Retried(d)]
    BY <2>1, <1>5 DEF LearnsMismatch
  <2>. QED  BY <2>1, <2>2, <1>1, <1>2, <1>3
<1>. QED  BY <1>4, <1>5

\* The run of a device that was told the last version.
Fetched(d) == [run[d] EXCEPT !.at = "got", !.answer = Version]

LEMMA FetchedTyped ==
  ASSUME TypeOK, NEW d \in Devices, GetServed(d)
  PROVE  /\ run' = [run EXCEPT ![d] = Fetched(d)]
         /\ Fetched(d) \in Runs(Version)
         /\ Fetched(d).at = "got" /\ Fetched(d).answer = Version
         /\ Fetched(d).request = run[d].request
         /\ run[d].at = "get"
<1>1. run \in [Devices -> Runs(Version)] /\ run[d] \in Runs(Version)
  BY TypeToParts
<1>2. run' = [run EXCEPT ![d].at = "got", ![d].answer = Version] /\ run[d].at = "get"
  BY DEF GetServed
<1>3. run' = [run EXCEPT ![d] = Fetched(d)]
  BY <1>1, <1>2 DEF Fetched
<1>4. "got" \in Sites /\ Version \in 0..Version
  BY HistoryTyped DEF Sites
<1>. QED  BY <1>1, <1>2, <1>3, <1>4 DEF Fetched, Runs

LEMMA ProgressTyped ==
  ASSUME TypeOK, NEW d \in Devices, Progress(d)
  PROVE  TypeOK'
<1>1. CASE Begins(d)
  <2>1. UNCHANGED <<written, store, pending, sync, stray, waiter, changes, latest,
                    disturbances>> /\ Version' = Version
    BY <1>1, HistoryKept DEF Begins
  <2>2. Begun(d) \in Runs(Version) /\ run' = [run EXCEPT ![d] = Begun(d)]
        /\ Begun(d).at # "idle" /\ run[d].at # "idle"
    BY <1>1, BegunTyped
  <2>3. /\ run' \in [Devices -> Runs(Version')]
        /\ \A e \in Devices : run'[e].at = "idle" <=> ~sync'[e].invalidated
    BY <2>1, <2>2, RunWritten
  <2>. QED  BY <2>1, <2>3, TypeToParts, TypeFromParts
<1>2. CASE LearnsAccepted(d)
  <2>1. UNCHANGED <<written, store, sync, stray, waiter, changes, latest,
                    disturbances>> /\ Version' = Version
    BY <1>2, HistoryKept DEF LearnsAccepted
  <2>2. pending' \in [Devices -> SomeSettings]
    <3>1. StillPending(pending[d], run[d].request.sent) \in SomeSettings
      BY DeviceTyped, RequestTyped, StillPendingTyped
    <3>. QED  BY <1>2, <3>1, TypeToParts DEF LearnsAccepted
  <2>3. AtSite("get") \in Runs(Version) /\ AtSite("get").at # "idle"
    BY AtSiteTyped DEF Sites
  <2>4. run' = [run EXCEPT ![d] = AtSite("get")] /\ run[d].at # "idle"
    BY <1>2 DEF LearnsAccepted
  <2>5. /\ run' \in [Devices -> Runs(Version')]
        /\ \A e \in Devices : run'[e].at = "idle" <=> ~sync'[e].invalidated
    BY <2>1, <2>3, <2>4, RunWritten
  <2>. QED  BY <2>1, <2>2, <2>5, TypeToParts, TypeFromParts
<1>3. CASE LearnsMismatch(d)
  <2>1. UNCHANGED <<written, pending, sync, stray, waiter, changes, latest,
                    disturbances>> /\ Version' = Version
    BY <1>3, HistoryKept DEF LearnsMismatch
  <2>2. /\ Retried(d) \in Runs(Version) /\ run' = [run EXCEPT ![d] = Retried(d)]
        /\ Retried(d).at # "idle" /\ run[d].at # "idle"
        /\ store' \in [Devices -> Stores(Version')]
    BY <1>3, <2>1, RetriedTyped
  <2>3. /\ run' \in [Devices -> Runs(Version')]
        /\ \A e \in Devices : run'[e].at = "idle" <=> ~sync'[e].invalidated
    BY <2>1, <2>2, RunWritten
  <2>. QED  BY <2>1, <2>2, <2>3, TypeToParts, TypeFromParts
<1>4. CASE Refreshes(d)
  <2>1. UNCHANGED <<written, pending, stray, changes, latest, disturbances>>
        /\ Version' = Version
    BY <1>4, HistoryKept DEF Refreshes
  <2>2. store' \in [Devices -> Stores(Version')]
    BY <1>4, <2>1, AppliedTyped, DeviceTyped DEF Refreshes
  <2>3. /\ sync' = [sync EXCEPT ![d] = Completed(sync[d])]
        /\ run' = [run EXCEPT ![d] = AtSite(IF RunsAgain(sync[d]) THEN "start" ELSE "idle")]
        /\ run[d].at = "got"
    BY <1>4 DEF Refreshes
  <2>4. /\ Completed(sync[d]) \in SyncStates
        /\ sync[d].again => Completed(sync[d]).invalidated = sync[d].invalidated
        /\ ~sync[d].again => ~Completed(sync[d]).invalidated
    BY DeviceTyped, SyncTyped
  <2>5. /\ \A site \in {"start", "idle"} :
             AtSite(site) \in Runs(Version) /\ AtSite(site).at = site
    BY AtSiteTyped DEF Sites
  <2>6. /\ sync' \in [Devices -> SyncStates] /\ run' \in [Devices -> Runs(Version')]
        /\ \A e \in Devices : run'[e].at = "idle" <=> ~sync'[e].invalidated
    <3>1. sync[d].invalidated
      BY <2>3, TypeToParts
    <3>2. CASE sync[d].again
      <4>1. run' = [run EXCEPT ![d] = AtSite("start")]
        BY <2>3, <3>2 DEF RunsAgain
      <4>. QED  BY <2>1, <2>3, <2>4, <2>5, <3>1, <3>2, <4>1, TypeToParts
    <3>3. CASE ~sync[d].again
      <4>1. run' = [run EXCEPT ![d] = AtSite("idle")]
        BY <2>3, <3>3 DEF RunsAgain
      <4>. QED  BY <2>1, <2>3, <2>4, <2>5, <3>3, <4>1, TypeToParts
    <3>. QED  BY <3>2, <3>3
  <2>7. waiter' \in [Devices -> Waiters]
    <3>1. [waiter[d] EXCEPT !.state = "told"] \in Waiters
      BY DeviceTyped DEF Waiters
    <3>. QED  BY <1>4, <3>1, TypeToParts DEF Refreshes
  <2>. QED  BY <2>1, <2>2, <2>6, <2>7, TypeToParts, TypeFromParts
<1>5. CASE PostServed(d)
  <2>1. UNCHANGED <<store, pending, sync, stray, waiter, changes, latest,
                    disturbances>>
    BY <1>5 DEF PostServed
  <2>2. /\ Served(d) \in Runs(Version) /\ run' = [run EXCEPT ![d] = Served(d)]
        /\ Served(d).at # "idle" /\ run[d].at # "idle"
    BY <1>5, ServedTyped
  <2>3. /\ run' \in [Devices -> Runs(Version)]
        /\ \A e \in Devices : run'[e].at = "idle" <=> ~sync'[e].invalidated
    BY <2>1, <2>2, TypeToParts
  <2>4. CASE Accepts(run[d].request)
    <3>1. run[d].request.payload \in SomeSettings
      BY DeviceTyped, RequestTyped
    <3>2. written' = Append(written, run[d].request.payload)
      BY <1>5, <2>4 DEF PostServed
    <3>3. written' \in Seq(SomeSettings) /\ Version' = Version + 1
      BY <3>1, <3>2, HistoryGrows
    <3>4. /\ store' \in [Devices -> Stores(Version')]
          /\ run' \in [Devices -> Runs(Version')]
      BY <2>1, <2>3, <3>3, RoomGrows, TypeToParts
    <3>. QED  BY <2>1, <2>3, <3>3, <3>4, TypeToParts, TypeFromParts
  <2>5. CASE ~Accepts(run[d].request)
    <3>1. written' = written /\ Version' = Version
      BY <1>5, <2>5, HistoryKept DEF PostServed
    <3>. QED  BY <2>1, <2>3, <3>1, TypeToParts, TypeFromParts
  <2>. QED  BY <2>4, <2>5
<1>6. CASE GetServed(d)
  <2>1. UNCHANGED <<written, store, pending, sync, stray, waiter, changes, latest,
                    disturbances>> /\ Version' = Version
    BY <1>6, HistoryKept DEF GetServed
  <2>2. run' = [run EXCEPT ![d] = Fetched(d)] /\ run[d].at = "get"
    BY <1>6, FetchedTyped
  <2>3. Fetched(d) \in Runs(Version) /\ Fetched(d).at = "got"
    BY <1>6, FetchedTyped
  <2>5. /\ run' \in [Devices -> Runs(Version')]
        /\ \A e \in Devices : run'[e].at = "idle" <=> ~sync'[e].invalidated
    BY <2>1, <2>2, <2>3, TypeToParts
  <2>. QED  BY <2>1, <2>5, TypeToParts, TypeFromParts
<1>. QED  BY <1>1, <1>2, <1>3, <1>4, <1>5, <1>6 DEF Progress

LEMMA OtherStepsTyped ==
  ASSUME TypeOK, NEW d \in Devices,
         \/ \E v \in 1..Version : PushArrives(d, v)
         \/ RequestFails(d)
         \/ \E logsIn \in BOOLEAN : Restarts(d, logsIn)
         \/ \E request \in stray[d] : StrayServed(d, request)
  PROVE  TypeOK'
<1>0. /\ \A site \in {"start", "idle"} :
           AtSite(site) \in Runs(Version) /\ AtSite(site).at = site
  BY AtSiteTyped DEF Sites
<1>1. ASSUME NEW v \in 1..Version, PushArrives(d, v)  PROVE TypeOK'
  <2>1. UNCHANGED <<written, pending, sync, run, stray, waiter, changes, latest,
                    disturbances>> /\ Version' = Version
    BY <1>1, HistoryKept DEF PushArrives
  <2>2. v \in 0..Version /\ store' = Applied(d, v)
    BY <1>1, HistoryTyped DEF PushArrives
  <2>3. store' \in [Devices -> Stores(Version')]
    BY <2>1, <2>2, AppliedTyped
  <2>. QED  BY <2>1, <2>3, TypeToParts, TypeFromParts
<1>2. CASE RequestFails(d)
  <2>1. UNCHANGED <<written, store, pending, sync, waiter, changes, latest>>
        /\ Version' = Version
    BY <1>2, HistoryKept DEF RequestFails
  <2>2. run' = [run EXCEPT ![d] = AtSite("start")] /\ run[d].at # "idle"
    BY <1>2 DEF RequestFails
  <2>3. /\ run' \in [Devices -> Runs(Version')]
        /\ \A e \in Devices : run'[e].at = "idle" <=> ~sync'[e].invalidated
    BY <1>0, <2>1, <2>2, TypeToParts
  <2>4. stray' \in [Devices -> SUBSET Request]
    BY <1>2, LeftTyped DEF RequestFails
  <2>5. disturbances' \in 0..MaxDisturbances
    BY <1>2, TypeToParts, ConstantsAssumption DEF RequestFails, Disturbs
  <2>. QED  BY <2>1, <2>3, <2>4, <2>5, TypeToParts, TypeFromParts
<1>3. ASSUME NEW logsIn \in BOOLEAN, Restarts(d, logsIn)  PROVE TypeOK'
  <2>1. UNCHANGED <<written, store, pending, changes, latest>> /\ Version' = Version
    BY <1>3, HistoryKept DEF Restarts
  <2>2. /\ run' = [run EXCEPT ![d] = AtSite("start")]
        /\ sync' = [sync EXCEPT ![d] = Invalidated(Idle)]
        /\ waiter' = [waiter EXCEPT ![d] =
             [state |-> IF logsIn THEN "waits" ELSE "none", since |-> Version]]
    BY <1>3 DEF Restarts
  <2>3. Invalidated(Idle) \in SyncStates /\ Invalidated(Idle).invalidated
    BY SyncTyped DEF Idle, SyncStates
  <2>4. /\ sync' \in [Devices -> SyncStates] /\ run' \in [Devices -> Runs(Version')]
        /\ \A e \in Devices : run'[e].at = "idle" <=> ~sync'[e].invalidated
    BY <1>0, <2>1, <2>2, <2>3, TypeToParts
  <2>5. waiter' \in [Devices -> Waiters]
    BY <2>2, TypeToParts DEF Waiters
  <2>6. stray' \in [Devices -> SUBSET Request]
    BY <1>3, LeftTyped DEF Restarts
  <2>7. disturbances' \in 0..MaxDisturbances
    BY <1>3, TypeToParts, ConstantsAssumption DEF Restarts, Disturbs
  <2>. QED  BY <2>1, <2>4, <2>5, <2>6, <2>7, TypeToParts, TypeFromParts
<1>4. ASSUME NEW r \in stray[d], StrayServed(d, r)  PROVE TypeOK'
  <2>1. UNCHANGED <<store, pending, sync, run, waiter, changes, latest, disturbances>>
    BY <1>4 DEF StrayServed
  <2>2. stray' \in [Devices -> SUBSET Request]
    BY <1>4, TypeToParts DEF StrayServed
  <2>3. CASE Accepts(r)
    <3>1. r.payload \in SomeSettings
      BY DeviceTyped, RequestTyped
    <3>2. written' = Append(written, r.payload)
      BY <1>4, <2>3 DEF StrayServed
    <3>3. written' \in Seq(SomeSettings) /\ Version' = Version + 1
      BY <3>1, <3>2, HistoryGrows
    <3>4. /\ store' \in [Devices -> Stores(Version')]
          /\ run' \in [Devices -> Runs(Version')]
      BY <2>1, <3>3, RoomGrows, TypeToParts
    <3>. QED  BY <2>1, <2>2, <3>3, <3>4, TypeToParts, TypeFromParts
  <2>4. CASE ~Accepts(r)
    <3>1. written' = written /\ Version' = Version
      BY <1>4, <2>4, HistoryKept DEF StrayServed
    <3>. QED  BY <2>1, <2>2, <3>1, TypeToParts, TypeFromParts
  <2>. QED  BY <2>3, <2>4
<1>. QED  BY <1>1, <1>2, <1>3, <1>4

\* The cases of a step.
LEMMA StepCases ==
  ASSUME Next
  PROVE  \E d \in Devices :
           \/ Begins(d) \/ LearnsAccepted(d) \/ LearnsMismatch(d) \/ Refreshes(d)
           \/ PostServed(d) \/ GetServed(d)
           \/ \E k \in Keys : Changes(d, k)
           \/ BecomesActive(d)
           \/ \E v \in 1..Version : PushArrives(d, v)
           \/ RequestFails(d)
           \/ \E logsIn \in BOOLEAN : Restarts(d, logsIn)
           \/ \E request \in stray[d] : StrayServed(d, request)
BY DEF Next, Progress

LEMMA TypeStep ==
  ASSUME TypeOK, [Next]_vars
  PROVE  TypeOK'
<1>1. CASE UNCHANGED vars
  <2>1. Version' = Version
    BY <1>1 DEF vars, Version
  <2>. QED  BY <1>1, <2>1, TypeToParts, TypeFromParts DEF vars
<1>2. CASE Next
  BY <1>2, ChangesTyped, BecomesActiveTyped, ProgressTyped, OtherStepsTyped DEF Next
<1>. QED  BY <1>1, <1>2

\* Every reachable state is well typed; a run is under way exactly while one was
\* asked for (InvalidateSync in utils/sync.ts).
THEOREM TypeCorrect == Spec => []TypeOK
<1>1. Init => TypeOK
  BY TypeInit
<1>2. TypeOK /\ [Next]_vars => TypeOK'
  BY TypeStep
<1>. QED  BY <1>1, <1>2, PTL DEF Spec

-----------------------------------------------------------------------------
(* A write changes settings only to values of its own device.              *)

\* What a step may do to the changes made so far.
MadeMore == changes' = changes \/ \E d \in Devices : changes' = Append(changes, d)

LEMMA OwnKept ==
  ASSUME TypeOK, MadeMore, NEW d, NEW n, Own(changes, d, n)
  PROVE  Own(changes', d, n)
<1>1. changes \in Seq(Devices)
  BY TypeToParts
<1>2. CASE changes' = changes
  BY <1>2
<1>3. ASSUME NEW e \in Devices, changes' = Append(changes, e)
      PROVE Own(changes', d, n)
  <2>1. /\ Len(changes') = Len(changes) + 1 /\ Len(changes) \in Nat
        /\ \A i \in 1..Len(changes) : changes'[i] = changes[i]
    BY <1>1, <1>3, AppendProperties, LenProperties
  <2>. QED  BY <2>1 DEF Own
<1>. QED  BY <1>2, <1>3 DEF MadeMore

\* What is shown stays explained while the last version stays.
LEMMA ExplainedKept ==
  ASSUME TypeOK, MadeMore, NEW last, NEW d, NEW s, OwnOr(last, changes, d, s)
  PROVE  OwnOr(last, changes', d, s)
BY OwnKept DEF OwnOr

\* Changes of its own on top of what the centre has.
LEMMA ExplainedOnTop ==
  ASSUME TypeOK, PendingTrue, NEW d \in Devices, NEW last \in SomeSettings,
         NEW s \in SomeSettings, OwnOr(last, changes, d, s)
  PROVE  OwnOr(last, changes, d, Merged(s, pending[d]))
BY MergedTyped, DeviceTyped DEF OwnOr, PendingTrue

\* A device has settings of version v applied to what it shows.
LEMMA StoreApplied ==
  ASSUME TypeOK, PendingTrue, StoresTrue, UNCHANGED <<written, changes>>,
         NEW d \in Devices, NEW v \in 0..Version, store' = Applied(d, v)
  PROVE  StoresTrue'
<1>0. Version' = Version /\ At(Version)' = At(Version) /\ Version \in Nat
  BY HistoryKept, HistoryTyped
<1>1. /\ \A e \in Devices : e # d => store'[e] = store[e]
      /\ store'[d] = store[d]
         \/ store'[d] = [settings |-> OnTop(d, At(v)), version |-> v]
  BY AppliedTyped
<1>2. At(v) \in SomeSettings
  BY HistoryTyped
<1>3. OwnOr(At(v), changes, d, OnTop(d, At(v)))
  <2>1. OwnOr(At(v), changes, d, At(v))
    BY DEF OwnOr
  <2>. QED  BY <1>2, <2>1, ExplainedOnTop DEF OnTop
<1>4. ASSUME NEW e \in Devices  PROVE StoreTrue(e)'
  <2>1. CASE store'[e] = store[e]
    BY <1>0, <2>1 DEF StoresTrue, StoreTrue
  <2>2. CASE store'[e] # store[e]
    <3>1. e = d /\ store'[e].settings = OnTop(d, At(v)) /\ store'[e].version = v
      BY <1>1, <2>2
    <3>. QED  BY <1>0, <1>3, <3>1 DEF StoreTrue
  <2>. QED  BY <2>1, <2>2
<1>. QED  BY <1>4 DEF StoresTrue

\* The requests under way after a step are those before it, none, or what a
\* device sends of what it shows.
LEMMA RequestsKept ==
  ASSUME TypeOK, TypeOK', RequestsTrue, StoresTrue', PendingTrue', MadeMore,
         UNCHANGED written,
         \A d \in Devices : \A r \in UnderWay(d)' :
           \/ r \in UnderWay(d) \/ r = NoRequest
           \/ r = Snapshot(store'[d], pending'[d])
  PROVE  RequestsTrue'
<1>0. Version' = Version /\ At(Version)' = At(Version) /\ Version \in Nat
  BY HistoryKept, HistoryTyped
<1>1. SUFFICES ASSUME NEW d \in Devices, NEW r \in UnderWay(d)'
               PROVE RequestTrue(d, r)'
  BY DEF RequestsTrue
<1>2. CASE r \in UnderWay(d)
  <2>1. RequestTrue(d, r)
    BY <1>2 DEF RequestsTrue
  <2>. QED  BY <1>0, <2>1, ExplainedKept DEF RequestTrue
<1>3. CASE r = NoRequest
  <2>1. /\ r.base = 0 /\ r.sent = Defaults /\ r.payload = Defaults
        /\ \A k \in Keys : Defaults[k] = 0
    BY <1>3 DEF NoRequest, Nothing, Defaults
  <2>2. Version' = 0 => At(Version)' = Defaults
    BY <1>0 DEF At
  <2>. QED  BY <1>0, <2>1, <2>2 DEF RequestTrue, OwnOr
<1>4. CASE r = Snapshot(store'[d], pending'[d])
  <2>1. /\ store'[d].settings \in SomeSettings /\ store'[d].version \in 0..Version'
        /\ pending'[d] \in SomeSettings
        /\ At(Version)' \in SomeSettings
    BY <1>0, HistoryTyped, TypeToParts DEF TypeOK
  <2>2. /\ r.base = store'[d].version /\ r.sent = pending'[d]
        /\ r.payload = Merged(store'[d].settings, pending'[d])
    BY <1>4 DEF Snapshot
  <2>3. \A k \in Keys : r.sent[k] # 0 => r.payload[k] = r.sent[k]
    BY <2>1, <2>2, MergedTyped
  <2>4. ASSUME r.base = Version'
        PROVE OwnOr(At(Version)', changes', d, r.payload)
    <3>1. OwnOr(At(Version)', changes', d, store'[d].settings)
      BY <2>2, <2>4 DEF StoresTrue, StoreTrue
    <3>2. \A k \in Keys : pending'[d][k] # 0 => Own(changes', d, pending'[d][k])
      BY DEF PendingTrue
    <3>. QED  BY <2>1, <2>2, <3>1, <3>2, MergedTyped DEF OwnOr
  <2>. QED  BY <1>0, <2>1, <2>2, <2>3, <2>4 DEF RequestTrue
<1>. QED  BY <1>1, <1>2, <1>3, <1>4

\* Once a request is accepted, no other one and no device has the last version.
LEMMA WritesKept ==
  ASSUME TypeOK, WritesTrue, UNCHANGED <<store, pending, changes>>,
         NEW x \in SomeSettings, written' = Append(written, x),
         \A d \in Devices : \A r \in UnderWay(d)' : r \in UnderWay(d)
  PROVE  WritesTrue'
<1>1. Version' = Version + 1 /\ Version \in Nat
  BY HistoryGrows, HistoryTyped
<1>2. PendingTrue'
  BY DEF WritesTrue, PendingTrue
<1>3. StoresTrue'
  <2>1. ASSUME NEW d \in Devices  PROVE store[d].version # Version'
    BY <1>1, DeviceTyped
  <2>. QED  BY <2>1 DEF StoresTrue, StoreTrue
<1>4. RequestsTrue'
  <2>1. SUFFICES ASSUME NEW d \in Devices, NEW r \in UnderWay(d)'
                 PROVE RequestTrue(d, r)'
    BY DEF RequestsTrue
  <2>2. r \in UnderWay(d) /\ RequestTrue(d, r)
    BY DEF WritesTrue, RequestsTrue
  <2>3. r \in Request
    BY <2>2, DeviceTyped DEF UnderWay
  <2>4. r.base <= Version' /\ r.base # Version'
    BY <1>1, <2>2, <2>3, RequestTyped DEF RequestTrue
  <2>. QED  BY <2>2, <2>4 DEF RequestTrue
<1>. QED  BY <1>2, <1>3, <1>4 DEF WritesTrue

\* The requests under way of the others, and of one who has request r.
LEMMA UnderWayOf ==
  ASSUME TypeOK, NEW d \in Devices, NEW x, run' = [run EXCEPT ![d] = x]
  PROVE  /\ \A e \in Devices : e # d => run'[e] = run[e]
         /\ run'[d] = x
         /\ \A e \in Devices : \A r \in UnderWay(e)' :
              r \in stray'[e] \/ r \in UnderWay(e) \/ (e = d /\ r = x.request)
<1>1. run'[d] = x /\ \A e \in Devices : e # d => run'[e] = run[e]
  BY TypeToParts
<1>. QED  BY <1>1 DEF UnderWay

LEMMA WritesInit ==
  ASSUME Init
  PROVE  WritesTrue
<1>1. Version = 0 /\ At(Version) = Defaults
  BY EmptySeq DEF Init, Version, At
<1>2. \A k \in Keys : Defaults[k] = 0
  BY DEF Defaults
<1>3. PendingTrue
  BY <1>2 DEF Init, PendingTrue, Nothing
<1>4. StoresTrue
  BY <1>1 DEF Init, StoresTrue, StoreTrue, OwnOr
<1>5. ASSUME NEW d \in Devices, NEW r \in UnderWay(d)  PROVE r = NoRequest
  BY DEF Init, UnderWay, AtSite
<1>6. \A d \in Devices : RequestTrue(d, NoRequest)
  BY <1>1, <1>2 DEF RequestTrue, NoRequest, Nothing, OwnOr
<1>. QED  BY <1>3, <1>4, <1>5, <1>6 DEF WritesTrue, RequestsTrue

LEMMA ChangesWrites ==
  ASSUME TypeOK, TypeOK', WritesTrue, NEW d \in Devices, NEW k \in Keys, Changes(d, k)
  PROVE  WritesTrue'
<1>1. /\ UNCHANGED <<written, stray>> /\ Version' = Version /\ At(Version)' = At(Version)
      /\ MadeMore
  BY HistoryKept DEF Changes, MadeMore
<1>2. LET n == Len(changes) + 1 IN
      /\ pending' = [pending EXCEPT ![d][k] = n]
      /\ store' = [store EXCEPT ![d].settings[k] = n]
      /\ Own(changes', d, n)
  <2>1. /\ Len(changes') = Len(changes) + 1 /\ Len(changes) \in Nat
        /\ changes'[Len(changes) + 1] = d
    BY TypeToParts, AppendProperties, LenProperties DEF Changes
  <2>. QED  BY <2>1 DEF Changes, Own
<1>3. PendingTrue'
  <2>1. ASSUME NEW e \in Devices, NEW j \in Keys, pending'[e][j] # 0
        PROVE Own(changes', e, pending'[e][j])
    <3>1. pending \in [Devices -> SomeSettings] /\ pending[d] \in SomeSettings
      BY TypeToParts
    <3>2. CASE e = d /\ j = k
      <4>1. pending'[e][j] = Len(changes) + 1
        BY <1>2, <3>1, <3>2 DEF SomeSettings
      <4>. QED  BY <1>2, <3>2, <4>1
    <3>3. CASE ~(e = d /\ j = k)
      <4>1. pending'[e][j] = pending[e][j]
        BY <1>2, <3>1, <3>3 DEF SomeSettings
      <4>2. Own(changes, e, pending[e][j])
        BY <2>1, <4>1 DEF WritesTrue, PendingTrue
      <4>. QED  BY <1>1, <4>1, <4>2, OwnKept
    <3>. QED  BY <3>2, <3>3
  <2>. QED  BY <2>1 DEF PendingTrue
<1>4. StoresTrue'
  <2>1. ASSUME NEW e \in Devices, store'[e].version = Version'
        PROVE OwnOr(At(Version)', changes', e, store'[e].settings)
    <3>1. store \in [Devices -> Stores(Version)] /\ store[e] \in Stores(Version)
          /\ store[e].settings \in SomeSettings
      BY TypeToParts, DeviceTyped
    <3>2. store'[e].version = store[e].version
      BY <1>2, <3>1 DEF Stores
    <3>3. OwnOr(At(Version), changes', e, store[e].settings)
      BY <1>1, <2>1, <3>2, ExplainedKept DEF WritesTrue, StoresTrue, StoreTrue
    <3>4. CASE e = d
      <4>1. store'[e].settings = [store[e].settings EXCEPT ![k] = Len(changes) + 1]
        BY <1>2, <3>1, <3>4 DEF Stores
      <4>. QED  BY <1>1, <1>2, <3>1, <3>3, <3>4, <4>1 DEF OwnOr, SomeSettings
    <3>5. CASE e # d
      <4>1. store'[e] = store[e]
        BY <1>2, <3>1, <3>5
      <4>. QED  BY <1>1, <3>3, <4>1
    <3>. QED  BY <3>4, <3>5
  <2>. QED  BY <2>1 DEF StoresTrue, StoreTrue
<1>5. \A e \in Devices : \A r \in UnderWay(e)' : r \in UnderWay(e) \/ r = NoRequest
  <2>1. \A e \in Devices : run'[e] = run[e] \/ run'[e] = AtSite("start")
    BY <1>1, InvalidatesTyped DEF Changes
  <2>. QED  BY <1>1, <2>1 DEF UnderWay, AtSite
<1>. QED  BY <1>1, <1>3, <1>4, <1>5, RequestsKept DEF WritesTrue

LEMMA RunsWrites ==
  ASSUME TypeOK, TypeOK', WritesTrue, NEW d \in Devices,
         \/ Begins(d) \/ LearnsAccepted(d) \/ LearnsMismatch(d) \/ Refreshes(d)
         \/ GetServed(d)
  PROVE  WritesTrue'
<1>0. UNCHANGED <<written, changes, stray>> /\ MadeMore
  BY DEF Begins, LearnsAccepted, LearnsMismatch, Refreshes, GetServed, MadeMore
<1>1. Version' = Version /\ At(Version)' = At(Version)
  BY <1>0, HistoryKept
<1>2. CASE Begins(d)
  <2>1. UNCHANGED <<store, pending>>
    BY <1>2 DEF Begins
  <2>2. PendingTrue' /\ StoresTrue'
    BY <1>0, <1>1, <2>1 DEF WritesTrue, PendingTrue, StoresTrue, StoreTrue
  <2>3. /\ run' = [run EXCEPT ![d] = Begun(d)]
        /\ Begun(d).request \in {NoRequest, Snapshot(store'[d], pending'[d])}
    BY <1>2, <2>1, BegunTyped
  <2>4. \A e \in Devices : \A r \in UnderWay(e)' :
          \/ r \in UnderWay(e) \/ r = NoRequest \/ r = Snapshot(store'[e], pending'[e])
    BY <1>0, <2>3, UnderWayOf DEF UnderWay
  <2>. QED  BY <1>0, <2>2, <2>4, RequestsKept DEF WritesTrue
<1>3. CASE LearnsAccepted(d)
  <2>1. UNCHANGED store
    BY <1>3 DEF LearnsAccepted
  <2>2. PendingTrue'
    <3>1. pending' = [pending EXCEPT ![d] = StillPending(pending[d], run[d].request.sent)]
      BY <1>3 DEF LearnsAccepted
    <3>2. \A k \in Keys :
            StillPending(pending[d], run[d].request.sent)[k] \in {0, pending[d][k]}
      BY DEF StillPending
    <3>3. \A e \in Devices, k \in Keys : pending'[e][k] \in {0, pending[e][k]}
      BY <3>1, <3>2, TypeToParts
    <3>. QED  BY <1>0, <3>3 DEF WritesTrue, PendingTrue
  <2>3. StoresTrue'
    BY <1>0, <1>1, <2>1 DEF WritesTrue, StoresTrue, StoreTrue
  <2>4. run' = [run EXCEPT ![d] = AtSite("get")]
    BY <1>3 DEF LearnsAccepted
  <2>5. \A e \in Devices : \A r \in UnderWay(e)' : r \in UnderWay(e) \/ r = NoRequest
    BY <1>0, <2>4, UnderWayOf DEF UnderWay, AtSite
  <2>. QED  BY <1>0, <2>2, <2>3, <2>5, RequestsKept DEF WritesTrue
<1>4. CASE LearnsMismatch(d)
  <2>1. UNCHANGED pending
    BY <1>4 DEF LearnsMismatch
  <2>2. PendingTrue'
    BY <1>0, <2>1 DEF WritesTrue, PendingTrue
  <2>3. store' = Applied(d, run[d].answer) /\ run[d].answer \in 0..Version
    BY <1>4, RetriedTyped, DeviceTyped
  <2>4. StoresTrue'
    BY <1>0, <2>3, StoreApplied DEF WritesTrue
  <2>5. /\ run' = [run EXCEPT ![d] = Retried(d)]
        /\ Retried(d).request \in {NoRequest, Snapshot(store'[d], pending'[d])}
    BY <1>4, <2>1, RetriedTyped
  <2>6. \A e \in Devices : \A r \in UnderWay(e)' :
          \/ r \in UnderWay(e) \/ r = NoRequest \/ r = Snapshot(store'[e], pending'[e])
    BY <1>0, <2>5, UnderWayOf DEF UnderWay
  <2>. QED  BY <1>0, <2>2, <2>4, <2>6, RequestsKept DEF WritesTrue
<1>5. CASE Refreshes(d)
  <2>1. UNCHANGED pending
    BY <1>5 DEF Refreshes
  <2>2. PendingTrue'
    BY <1>0, <2>1 DEF WritesTrue, PendingTrue
  <2>3. store' = Applied(d, run[d].answer) /\ run[d].answer \in 0..Version
    BY <1>5, DeviceTyped DEF Refreshes
  <2>4. StoresTrue'
    BY <1>0, <2>3, StoreApplied DEF WritesTrue
  <2>5. run' = [run EXCEPT ![d] =
                  AtSite(IF RunsAgain(sync[d]) THEN "start" ELSE "idle")]
    BY <1>5 DEF Refreshes
  <2>6. \A e \in Devices : \A r \in UnderWay(e)' : r \in UnderWay(e) \/ r = NoRequest
    BY <1>0, <2>5, UnderWayOf DEF UnderWay, AtSite
  <2>. QED  BY <1>0, <2>2, <2>4, <2>6, RequestsKept DEF WritesTrue
<1>6. CASE GetServed(d)
  <2>1. UNCHANGED <<store, pending>>
    BY <1>6 DEF GetServed
  <2>2. PendingTrue' /\ StoresTrue'
    BY <1>0, <1>1, <2>1 DEF WritesTrue, PendingTrue, StoresTrue, StoreTrue
  <2>3. run' = [run EXCEPT ![d] = Fetched(d)] /\ Fetched(d).request = run[d].request
    BY <1>6, FetchedTyped
  <2>4. \A e \in Devices : \A r \in UnderWay(e)' : r \in UnderWay(e)
    BY <1>0, <2>3, UnderWayOf DEF UnderWay
  <2>. QED  BY <1>0, <2>2, <2>4, RequestsKept DEF WritesTrue
<1>. QED  BY <1>2, <1>3, <1>4, <1>5, <1>6

LEMMA CentreWrites ==
  ASSUME TypeOK, TypeOK', WritesTrue, NEW d \in Devices,
         PostServed(d) \/ \E request \in stray[d] : StrayServed(d, request)
  PROVE  WritesTrue'
<1>0. UNCHANGED <<store, pending, changes>> /\ MadeMore
  BY DEF PostServed, StrayServed, MadeMore
<1>1. PICK r \in UnderWay(d) :
        /\ \A e \in Devices : \A q \in UnderWay(e)' : q \in UnderWay(e) \/ q = NoRequest
        /\ \/ /\ written' = Append(written, r.payload)
              /\ \A e \in Devices : \A q \in UnderWay(e)' : q \in UnderWay(e)
           \/ UNCHANGED written
  <2>1. CASE PostServed(d)
    <3>1. UNCHANGED stray
      BY <2>1 DEF PostServed
    <3>2. /\ run' = [run EXCEPT ![d] = Served(d)]
          /\ Served(d).request \in {run[d].request, NoRequest}
          /\ Accepts(run[d].request) \/ Served(d).at = "mismatch"
      BY <2>1, ServedTyped
    <3>3. \A e \in Devices : \A q \in UnderWay(e)' : q \in UnderWay(e) \/ q = NoRequest
      BY <3>1, <3>2, UnderWayOf DEF UnderWay
    <3>4. CASE Accepts(run[d].request)
      <4>1. written' = Append(written, run[d].request.payload)
        BY <2>1, <3>4 DEF PostServed
      <4>2. Served(d).request = run[d].request
        BY <3>4, DeviceTyped DEF Served, Runs
      <4>3. \A e \in Devices : \A q \in UnderWay(e)' : q \in UnderWay(e)
        BY <3>1, <3>2, <4>2, UnderWayOf DEF UnderWay
      <4>4. run[d].request \in UnderWay(d)
        BY DEF UnderWay
      <4>. QED  BY <3>3, <4>1, <4>3, <4>4
    <3>5. CASE ~Accepts(run[d].request)
      <4>1. UNCHANGED written
        BY <2>1, <3>5 DEF PostServed
      <4>. QED  BY <3>3, <4>1 DEF UnderWay
    <3>. QED  BY <3>4, <3>5
  <2>2. ASSUME NEW s \in stray[d], StrayServed(d, s)
        PROVE  /\ s \in UnderWay(d)
               /\ \A e \in Devices : \A q \in UnderWay(e)' : q \in UnderWay(e)
               /\ written' = Append(written, s.payload) \/ UNCHANGED written
    <3>1. run' = run /\ stray' = [stray EXCEPT ![d] = @ \ {s}]
      BY <2>2 DEF StrayServed
    <3>2. \A e \in Devices : stray'[e] \subseteq stray[e]
      BY <3>1, TypeToParts
    <3>. QED  BY <2>2, <3>1, <3>2 DEF UnderWay, StrayServed
  <2>. QED  BY <2>1, <2>2
<1>2. CASE UNCHANGED written
  <2>1. Version' = Version /\ At(Version)' = At(Version)
    BY <1>2, HistoryKept
  <2>2. PendingTrue' /\ StoresTrue'
    BY <1>0, <2>1 DEF WritesTrue, PendingTrue, StoresTrue, StoreTrue
  <2>. QED  BY <1>0, <1>1, <1>2, <2>2, RequestsKept DEF WritesTrue
<1>3. CASE /\ written' = Append(written, r.payload)
           /\ \A e \in Devices : \A q \in UnderWay(e)' : q \in UnderWay(e)
  <2>1. r.payload \in SomeSettings
    BY DeviceTyped, RequestTyped DEF UnderWay
  <2>. QED  BY <1>0, <1>3, <2>1, WritesKept
<1>. QED  BY <1>1, <1>2, <1>3

LEMMA OtherWrites ==
  ASSUME TypeOK, TypeOK', WritesTrue, NEW d \in Devices,
         \/ BecomesActive(d)
         \/ \E v \in 1..Version : PushArrives(d, v)
         \/ RequestFails(d)
         \/ \E logsIn \in BOOLEAN : Restarts(d, logsIn)
  PROVE  WritesTrue'
<1>0. UNCHANGED <<written, changes, pending>> /\ MadeMore
  BY DEF BecomesActive, PushArrives, RequestFails, Restarts, MadeMore
<1>1. Version' = Version /\ At(Version)' = At(Version)
  BY <1>0, HistoryKept
<1>2. PendingTrue'
  BY <1>0 DEF WritesTrue, PendingTrue
<1>3. UNCHANGED store => StoresTrue'
  BY <1>0, <1>1 DEF WritesTrue, StoresTrue, StoreTrue
<1>4. ASSUME NEW v \in 1..Version, PushArrives(d, v)  PROVE WritesTrue'
  <2>1. v \in 0..Version /\ store' = Applied(d, v)
    BY <1>4, HistoryTyped DEF PushArrives
  <2>2. StoresTrue'
    BY <1>0, <2>1, StoreApplied DEF WritesTrue
  <2>3. \A e \in Devices : UnderWay(e)' = UnderWay(e)
    BY <1>4 DEF PushArrives, UnderWay
  <2>. QED  BY <1>0, <1>2, <2>2, <2>3, RequestsKept DEF WritesTrue
<1>5. CASE BecomesActive(d)
  <2>1. \A e \in Devices : run'[e] = run[e] \/ run'[e] = AtSite("start")
    BY <1>1, <1>5, InvalidatesTyped DEF BecomesActive
  <2>2. \A e \in Devices : \A r \in UnderWay(e)' : r \in UnderWay(e) \/ r = NoRequest
    BY <1>5, <2>1 DEF BecomesActive, UnderWay, AtSite
  <2>3. UNCHANGED store
    BY <1>5 DEF BecomesActive
  <2>. QED  BY <1>0, <1>2, <1>3, <2>2, <2>3, RequestsKept DEF WritesTrue
<1>6. CASE RequestFails(d) \/ \E logsIn \in BOOLEAN : Restarts(d, logsIn)
  <2>1. /\ run' = [run EXCEPT ![d] = AtSite("start")] /\ LeftBehind(d)
        /\ UNCHANGED store
    BY <1>6 DEF RequestFails, Restarts
  <2>2. \A e \in Devices : stray'[e] \subseteq UnderWay(e)
    BY <2>1, LeftTyped
  <2>3. \A e \in Devices : \A r \in UnderWay(e)' : r \in UnderWay(e) \/ r = NoRequest
    <3>1. AtSite("start").request = NoRequest
      BY DEF AtSite
    <3>2. \A e \in Devices : \A r \in UnderWay(e)' :
            \/ r \in stray'[e] \/ r \in UnderWay(e)
            \/ e = d /\ r = AtSite("start").request
      BY <2>1, UnderWayOf
    <3>. QED  BY <2>2, <3>1, <3>2
  <2>. QED  BY <1>0, <1>2, <1>3, <2>1, <2>3, RequestsKept DEF WritesTrue
<1>. QED  BY <1>4, <1>5, <1>6

LEMMA WritesStep ==
  ASSUME TypeOK, WritesTrue, [Next]_vars
  PROVE  WritesTrue'
<1>0. TypeOK'
  BY TypeStep
<1>1. CASE UNCHANGED vars
  <2>1. \A d \in Devices : UnderWay(d)' = UnderWay(d)
    BY <1>1 DEF vars, UnderWay
  <2>2. Version' = Version /\ At(Version)' = At(Version) /\ UNCHANGED written /\ MadeMore
    BY <1>1, HistoryKept DEF vars, MadeMore
  <2>3. PendingTrue' /\ StoresTrue'
    BY <1>1, <2>2 DEF vars, WritesTrue, PendingTrue, StoresTrue, StoreTrue
  <2>. QED  BY <1>0, <2>1, <2>2, <2>3, RequestsKept DEF WritesTrue
<1>2. CASE Next
  BY <1>0, <1>2, StepCases, ChangesWrites, RunsWrites, CentreWrites, OtherWrites
<1>. QED  BY <1>1, <1>2

\* The writes that change the centre, and what their requests were.
LEMMA WriteExplained ==
  ASSUME TypeOK, WritesTrue, [Next]_vars, UNCHANGED written => FALSE
  PROVE  \E d \in Devices : \E r \in UnderWay(d) :
           r.base = Version /\ written' = Append(written, r.payload)
<1>0. ~UNCHANGED vars
  BY DEF vars
<1>1. PICK d \in Devices :
        PostServed(d) \/ \E request \in stray[d] : StrayServed(d, request)
  BY <1>0, StepCases DEF Begins, LearnsAccepted, LearnsMismatch, Refreshes, GetServed,
     Changes, BecomesActive, PushArrives, RequestFails, Restarts
<1>. QED  BY <1>1 DEF PostServed, StrayServed, Accepts, UnderWay

\* A write changes a setting only to a value its own writer had given it (the
\* version check of POST /v1/account/settings, and pending changes kept on top
\* of what the centre sends).
THEOREM WritesCorrect == Spec => ChangesOnlyToOwnValues
<1>1. Init => TypeOK /\ WritesTrue
  BY TypeInit, WritesInit
<1>2. TypeOK /\ WritesTrue /\ [Next]_vars => (TypeOK /\ WritesTrue)'
  BY TypeStep, WritesStep
<1>3. ASSUME TypeOK, WritesTrue, [Next]_vars
      PROVE  [\A k \in Keys :
                At(Version)'[k] # At(Version)[k] =>
                  /\ At(Version)'[k] # 0
                  /\ \E request \in UnderWay(changes[At(Version)'[k]]) :
                       request.payload = At(Version)']_vars
  <2>1. SUFFICES ASSUME NEW k \in Keys, At(Version)'[k] # At(Version)[k]
                 PROVE  /\ At(Version)'[k] # 0
                        /\ \E request \in UnderWay(changes[At(Version)'[k]]) :
                             request.payload = At(Version)'
    OBVIOUS
  <2>2. ~UNCHANGED written
    BY <2>1, HistoryKept DEF At, Version
  <2>3. PICK d \in Devices : \E r \in UnderWay(d) :
          r.base = Version /\ written' = Append(written, r.payload)
    BY <1>3, <2>2, WriteExplained
  <2>4. PICK r \in UnderWay(d) :
          r.base = Version /\ written' = Append(written, r.payload)
    BY <2>3
  <2>5. r.payload \in SomeSettings
    BY <1>3, DeviceTyped, RequestTyped DEF UnderWay
  <2>6. At(Version)' = r.payload
    BY <1>3, <2>4, <2>5, HistoryGrows
  <2>7. OwnOr(At(Version), changes, d, r.payload)
    BY <1>3, <2>4 DEF WritesTrue, RequestsTrue, RequestTrue
  <2>8. Own(changes, d, At(Version)'[k])
    BY <2>1, <2>6, <2>7 DEF OwnOr
  <2>. QED  BY <2>6, <2>8 DEF Own
<1>. QED  BY <1>1, <1>2, <1>3, PTL DEF Spec, ChangesOnlyToOwnValues

-----------------------------------------------------------------------------
(* No change is dropped.                                                   *)

LEMMA HistorySteps ==
  ASSUME TypeOK, WritesTrue, [Next]_vars
  PROVE  Accepted \subseteq Accepted' /\ Version' >= Version /\ Version \in Nat
         /\ Version' \in Nat
<1>0. Version \in Nat
  BY HistoryTyped
<1>1. CASE UNCHANGED written
  BY <1>0, <1>1, HistoryKept
<1>2. CASE ~UNCHANGED written
  <2>1. PICK d \in Devices : \E r \in UnderWay(d) :
          r.base = Version /\ written' = Append(written, r.payload)
    BY <1>2, WriteExplained
  <2>2. PICK r \in UnderWay(d) : written' = Append(written, r.payload)
    BY <2>1
  <2>3. r.payload \in SomeSettings
    BY DeviceTyped, RequestTyped DEF UnderWay
  <2>. QED  BY <1>0, <2>2, <2>3, HistoryGrows
<1>. QED  BY <1>1, <1>2

\* A run comes to "accepted" only when its request is accepted.
LEMMA SentStep ==
  ASSUME TypeOK, WritesTrue, SentTrue, [Next]_vars
  PROVE  SentTrue'
<1>0. Accepted \subseteq Accepted'
  BY HistorySteps
<1>1. SUFFICES ASSUME NEW e \in Devices, run'[e].at = "accepted", NEW k \in Keys
               PROVE run'[e].request.sent[k] \in {0} \cup Accepted'
  BY DEF SentTrue
<1>2. CASE run'[e] = run[e]
  BY <1>0, <1>1, <1>2 DEF SentTrue
<1>3. CASE run'[e] # run[e]
  <2>1. ~UNCHANGED run
    BY <1>3
  <2>2. PICK d \in Devices :
          \/ Begins(d) \/ LearnsAccepted(d) \/ LearnsMismatch(d) \/ Refreshes(d)
          \/ PostServed(d) \/ GetServed(d)
          \/ \E j \in Keys : Changes(d, j)
          \/ BecomesActive(d)
          \/ RequestFails(d)
          \/ \E logsIn \in BOOLEAN : Restarts(d, logsIn)
    BY <2>1, StepCases DEF vars, PushArrives, StrayServed
  <2>3. CASE Begins(d)
    BY <1>1, <1>3, <2>3, BegunTyped, UnderWayOf
  <2>4. CASE LearnsMismatch(d)
    BY <1>1, <1>3, <2>4, RetriedTyped, UnderWayOf
  <2>5. CASE GetServed(d)
    BY <1>1, <1>3, <2>5, FetchedTyped, UnderWayOf
  <2>6. CASE \/ LearnsAccepted(d) \/ Refreshes(d) \/ RequestFails(d)
             \/ \E logsIn \in BOOLEAN : Restarts(d, logsIn)
    <3>1. PICK site \in {"get", "start", "idle"} : run' = [run EXCEPT ![d] = AtSite(site)]
      BY <2>6 DEF LearnsAccepted, Refreshes, RequestFails, Restarts
    <3>2. AtSite(site).at # "accepted"
      BY DEF AtSite
    <3>. QED  BY <1>1, <1>3, <3>1, <3>2, UnderWayOf
  <2>7. CASE BecomesActive(d) \/ \E j \in Keys : Changes(d, j)
    <3>1. Version' = Version /\ Invalidates(d)
      BY <2>7, HistoryKept DEF BecomesActive, Changes
    <3>2. run'[e] = AtSite("start")
      BY <1>3, <3>1, InvalidatesTyped
    <3>. QED  BY <1>1, <3>2 DEF AtSite
  <2>8. CASE PostServed(d)
    <3>1. /\ e = d /\ run'[e] = Served(d) /\ Accepts(run[d].request)
          /\ Served(d).request = run[d].request
      BY <1>1, <1>3, <2>8, ServedTyped, UnderWayOf
    <3>2. /\ run[d].request.payload \in SomeSettings
          /\ written' = Append(written, run[d].request.payload)
      BY <2>8, <3>1, DeviceTyped, RequestTyped DEF PostServed
    <3>3. run[d].request.payload[k] \in Accepted'
      BY <3>2, HistoryGrows
    <3>4. RequestTrue(d, run[d].request)
      BY DEF WritesTrue, RequestsTrue, UnderWay
    <3>. QED  BY <3>1, <3>3, <3>4 DEF RequestTrue
  <2>. QED  BY <2>2, <2>3, <2>4, <2>5, <2>6, <2>7, <2>8
<1>. QED  BY <1>2, <1>3

\* A change is known to the centre, or pending and shown.
KeptOf(d, k) ==
  \/ latest[d][k] \in {0} \cup Accepted
  \/ latest[d][k] = pending[d][k] /\ latest[d][k] = store[d].settings[k]

\* Settings of any version are applied below the pending changes.
LEMMA AppliedKeeps ==
  ASSUME TypeOK, NothingDropped, UNCHANGED <<latest, pending>>,
         Accepted \subseteq Accepted',
         NEW d \in Devices, NEW v \in 0..Version, store' = Applied(d, v)
  PROVE  NothingDropped'
<1>1. SUFFICES ASSUME NEW e \in Devices, NEW k \in Keys  PROVE KeptOf(e, k)'
  BY DEF NothingDropped, KeptOf
<1>2. KeptOf(e, k)
  BY DEF NothingDropped, KeptOf
<1>3. /\ e # d => store'[e] = store[e]
      /\ store'[d] = store[d]
         \/ store'[d] = [settings |-> OnTop(d, At(v)), version |-> v]
  BY AppliedTyped
<1>4. OnTop(d, At(v))[k] = IF pending[d][k] # 0 THEN pending[d][k] ELSE At(v)[k]
  BY HistoryTyped, DeviceTyped, MergedTyped DEF OnTop
<1>. QED  BY <1>2, <1>3, <1>4 DEF KeptOf

LEMMA DropInit ==
  ASSUME Init
  PROVE  NothingDropped /\ SentTrue
BY DEF Init, NothingDropped, SentTrue, AtSite, Nothing, Defaults

LEMMA DropStep ==
  ASSUME TypeOK, WritesTrue, SentTrue, NothingDropped, [Next]_vars
  PROVE  NothingDropped'
<1>0. Accepted \subseteq Accepted'
  BY HistorySteps
<1>1. CASE UNCHANGED <<latest, pending, store>>
  BY <1>0, <1>1 DEF NothingDropped
<1>2. CASE ~UNCHANGED <<latest, pending, store>>
  <2>1. PICK d \in Devices :
          \/ LearnsAccepted(d) \/ LearnsMismatch(d) \/ Refreshes(d)
          \/ \E k \in Keys : Changes(d, k)
          \/ \E v \in 1..Version : PushArrives(d, v)
    BY <1>2, StepCases DEF vars, Begins, PostServed, GetServed, BecomesActive,
       RequestFails, Restarts, StrayServed
  <2>2. CASE LearnsMismatch(d) \/ Refreshes(d)
    <3>1. /\ UNCHANGED <<latest, pending>> /\ store' = Applied(d, run[d].answer)
          /\ run[d].answer \in 0..Version
      BY <2>2, DeviceTyped DEF LearnsMismatch, Refreshes
    <3>. QED  BY <1>0, <3>1, AppliedKeeps
  <2>3. ASSUME NEW v \in 1..Version, PushArrives(d, v)  PROVE NothingDropped'
    <3>1. UNCHANGED <<latest, pending>> /\ store' = Applied(d, v) /\ v \in 0..Version
      BY <2>3, HistoryTyped DEF PushArrives
    <3>. QED  BY <1>0, <3>1, AppliedKeeps
  <2>4. CASE LearnsAccepted(d)
    <3>1. /\ UNCHANGED <<latest, store>> /\ run[d].at = "accepted"
          /\ pending' = [pending EXCEPT ![d] = StillPending(@, run[d].request.sent)]
      BY <2>4 DEF LearnsAccepted
    <3>2. SUFFICES ASSUME NEW e \in Devices, NEW k \in Keys  PROVE KeptOf(e, k)'
      BY DEF NothingDropped, KeptOf
    <3>3. KeptOf(e, k)
      BY DEF NothingDropped, KeptOf
    <3>4. CASE e = d
      <4>1. pending'[d][k] =
              IF pending[d][k] = run[d].request.sent[k] THEN 0 ELSE pending[d][k]
        BY <3>1, TypeToParts DEF StillPending
      <4>2. run[d].request.sent[k] \in {0} \cup Accepted
        BY <3>1 DEF SentTrue
      <4>. QED  BY <1>0, <3>1, <3>3, <3>4, <4>1, <4>2 DEF KeptOf
    <3>5. CASE e # d
      <4>1. pending'[e] = pending[e]
        BY <3>1, <3>5
      <4>. QED  BY <1>0, <3>1, <3>3, <4>1 DEF KeptOf
    <3>. QED  BY <3>4, <3>5
  <2>5. ASSUME NEW j \in Keys, Changes(d, j)  PROVE NothingDropped'
    <3>0. DEFINE n == Len(changes) + 1
    <3>1. /\ latest' = [latest EXCEPT ![d][j] = n]
          /\ pending' = [pending EXCEPT ![d][j] = n]
          /\ store' = [store EXCEPT ![d].settings[j] = n]
      BY <2>5 DEF Changes
    <3>2. SUFFICES ASSUME NEW e \in Devices, NEW k \in Keys  PROVE KeptOf(e, k)'
      BY DEF NothingDropped, KeptOf
    <3>3. KeptOf(e, k)
      BY DEF NothingDropped, KeptOf
    <3>4. /\ latest \in [Devices -> SomeSettings] /\ pending \in [Devices -> SomeSettings]
          /\ store \in [Devices -> Stores(Version)]
          /\ latest[d] \in SomeSettings /\ pending[d] \in SomeSettings
          /\ store[d] \in Stores(Version) /\ store[d].settings \in SomeSettings
      BY TypeToParts, DeviceTyped
    <3>. HIDE DEF n
    <3>5. CASE e = d /\ k = j
      <4>1. latest'[e][k] = n /\ pending'[e][k] = n /\ store'[e].settings[k] = n
        BY <3>1, <3>4, <3>5 DEF SomeSettings, Stores
      <4>. QED  BY <4>1 DEF KeptOf
    <3>6. CASE ~(e = d /\ k = j)
      <4>1. /\ latest'[e][k] = latest[e][k] /\ pending'[e][k] = pending[e][k]
            /\ store'[e].settings[k] = store[e].settings[k]
        BY <3>1, <3>4, <3>6 DEF SomeSettings, Stores
      <4>. QED  BY <1>0, <3>3, <4>1 DEF KeptOf
    <3>. QED  BY <3>5, <3>6
  <2>. QED  BY <2>1, <2>2, <2>3, <2>4, <2>5
<1>. QED  BY <1>1, <1>2

\* The last change a user made to a setting is pending and shown, until the centre
\* has had it (applyServerSettings merges pending changes on top, and only what
\* was sent is cleared).
THEOREM NothingIsDropped == Spec => []NothingDropped
<1>. DEFINE Inv == TypeOK /\ WritesTrue /\ SentTrue /\ NothingDropped
<1>1. Init => Inv
  BY TypeInit, WritesInit, DropInit
<1>2. Inv /\ [Next]_vars => Inv'
  BY TypeStep, WritesStep, SentStep, DropStep
<1>3. Inv => NothingDropped
  OBVIOUS
<1>. QED  BY <1>1, <1>2, <1>3, PTL DEF Spec

-----------------------------------------------------------------------------
(* A device at rest has nothing left to do.                                *)

\* NothingLeftAtRest, of one device.
RestTrue(d) ==
  /\ ~sync[d].invalidated => pending[d] = Nothing /\ waiter[d].state # "waits"
  /\ waiter[d].state = "told" => store[d].version >= waiter[d].since

\* A device that is not concerned by a step, but for newer settings.
LEMMA RestKept ==
  ASSUME TypeOK, TypeOK', NEW e \in Devices, RunTrue(e), RestTrue(e),
         Version' >= Version,
         sync'[e] = sync[e], run'[e] = run[e], pending'[e] = pending[e],
         waiter'[e] = waiter[e], store'[e].version >= store[e].version
  PROVE  RunTrue(e)' /\ RestTrue(e)'
<1>1. /\ waiter[e].since \in Nat /\ Version \in Nat /\ Version' \in Nat
      /\ store[e].version \in Nat /\ store'[e].version \in Nat
      /\ run[e].answer \in Nat
  <2>1. Version \in Nat /\ Version' \in Nat
    BY HistoryTyped, LenProperties DEF TypeOK, Version
  <2>2. store'[e].version \in 0..Version'
    BY DEF TypeOK
  <2>. QED  BY <2>1, <2>2, DeviceTyped
<1>. QED  BY <1>1 DEF RunTrue, RestTrue

LEMMA RestInit ==
  ASSUME Init
  PROVE  RunsTrue /\ NothingLeftAtRest
<1>1. Version = 0
  BY EmptySeq DEF Init, Version
<1>. QED  BY <1>1 DEF Init, RunsTrue, RunTrue, NothingLeftAtRest, AtSite, Idle

\* Newer settings are applied, and nothing else happens to the other devices.
LEMMA AppliedVersions ==
  ASSUME TypeOK, NEW d \in Devices, NEW v \in 0..Version, store' = Applied(d, v)
  PROVE  /\ \A e \in Devices : store'[e].version >= store[e].version
         /\ store'[d].version >= v
<1>1. store \in [Devices -> Stores(Version)]
      /\ \A e \in Devices : store[e].version \in Nat
  BY TypeToParts, DeviceTyped DEF Stores
<1>2. CASE store[d].version < v
  <2>1. store' = [store EXCEPT ![d] = [settings |-> OnTop(d, At(v)), version |-> v]]
    BY <1>2 DEF Applied
  <2>. QED  BY <1>1, <1>2, <2>1
<1>3. CASE ~(store[d].version < v)
  <2>1. store' = store
    BY <1>3 DEF Applied
  <2>. QED  BY <1>1, <1>3, <2>1
<1>. QED  BY <1>2, <1>3

\* Changing a setting, or coming to the foreground: there will be another run.
LEMMA InvalidatesRests ==
  ASSUME TypeOK, TypeOK', NEW d \in Devices, RunTrue(d), RestTrue(d), Invalidates(d),
         UNCHANGED <<written, waiter>>, store'[d].version = store[d].version
  PROVE  RunTrue(d)' /\ RestTrue(d)'
<1>1. Version' = Version
  BY HistoryKept
<1>2. /\ sync'[d].invalidated
      /\ \/ run'[d] = run[d] /\ run[d].at # "idle" /\ sync'[d].again
         \/ run'[d] = AtSite("start") /\ run[d].at = "idle"
  BY <1>1, InvalidatesTyped
<1>. QED  BY <1>1, <1>2 DEF RunTrue, RestTrue, AtSite

LEMMA ProgressRests ==
  ASSUME TypeOK, TypeOK', NEW d \in Devices, RunTrue(d), RestTrue(d), Progress(d),
         Version' >= Version
  PROVE  RunTrue(d)' /\ RestTrue(d)'
<1>0. /\ waiter[d].since \in Nat /\ Version \in Nat /\ Version' \in Nat
      /\ store[d].version \in Nat /\ run[d].answer \in 0..Version
      /\ run \in [Devices -> Runs(Version)]
  <2>1. Version \in Nat
    BY HistoryTyped
  <2>2. Version' \in Nat
    BY LenProperties DEF TypeOK, Version
  <2>3. store[d].version \in 0..Version /\ run[d].answer \in 0..Version
        /\ waiter[d].since \in Nat
    BY DeviceTyped
  <2>. QED  BY <2>1, <2>2, <2>3, TypeToParts
<1>v. store'[d].version \in Nat
  <2>1. store' \in [Devices -> [settings : SomeSettings, version : 0..Version']]
    BY DEF TypeOK
  <2>2. store'[d].version \in 0..Version'
    BY <2>1
  <2>. QED  BY <1>0, <2>2
<1>1. CASE Begins(d)
  <2>1. UNCHANGED <<store, pending, sync, waiter>>
    BY <1>1 DEF Begins
  <2>2. /\ run'[d] = Begun(d)
        /\ Begun(d).at \in {"post", "get"}
        /\ Begun(d).at = "post" => Begun(d).request.sent = pending[d]
        /\ Begun(d).at = "get" => pending[d] = Nothing
        /\ run[d].at = "start"
    <3>1. Snapshot(store[d], pending[d]).sent = pending[d]
      BY DEF Snapshot
    <3>. QED  BY <1>0, <1>1, <3>1, BegunTyped
  <2>3. waiter[d].since <= Version'
    BY <1>0 DEF RunTrue
  <2>. QED  BY <2>1, <2>2, <2>3 DEF RunTrue, RestTrue
<1>2. CASE LearnsAccepted(d)
  <2>1. /\ UNCHANGED <<store, sync, waiter>> /\ run'[d] = AtSite("get")
        /\ run[d].at = "accepted"
        /\ pending'[d] = StillPending(pending[d], run[d].request.sent)
    BY <1>0, <1>2, TypeToParts DEF LearnsAccepted
  <2>2. ~sync[d].again => pending'[d] = Nothing
    BY <2>1, DeviceTyped DEF RunTrue, StillPending, Nothing, Defaults, SomeSettings
  <2>3. waiter[d].since <= Version'
    BY <1>0 DEF RunTrue
  <2>4. sync[d].invalidated
    BY <2>1, TypeToParts
  <2>. QED  BY <2>1, <2>2, <2>3, <2>4 DEF RunTrue, RestTrue, AtSite
<1>3. CASE LearnsMismatch(d)
  <2>1. /\ UNCHANGED <<pending, sync, waiter>> /\ store' = Applied(d, run[d].answer)
        /\ run'[d] = Retried(d)
        /\ Retried(d).at \in {"post", "start"}
        /\ Retried(d).at = "post" => Retried(d).request.sent = pending[d]
    <3>1. UNCHANGED <<pending, sync, waiter>>
      BY <1>3 DEF LearnsMismatch
    <3>2. Snapshot(store'[d], pending[d]).sent = pending[d]
      BY DEF Snapshot
    <3>. QED  BY <1>0, <1>3, <3>1, <3>2, RetriedTyped
  <2>2. store'[d].version >= store[d].version /\ store'[d].version \in Nat
    <3>1. run[d].answer \in 0..Version
      BY DeviceTyped
    <3>2. store'[d].version >= store[d].version
      BY <2>1, <3>1, AppliedVersions
    <3>. QED  BY <1>v, <3>2
  <2>3. waiter[d].since <= Version'
    BY <1>0 DEF RunTrue
  <2>. QED  BY <1>0, <2>1, <2>2, <2>3 DEF RunTrue, RestTrue
<1>4. CASE Refreshes(d)
  <2>1. /\ UNCHANGED pending /\ store' = Applied(d, run[d].answer)
        /\ run[d].at = "got"
        /\ sync'[d] = Completed(sync[d])
        /\ run'[d] = AtSite(IF sync[d].again THEN "start" ELSE "idle")
        /\ sync[d].invalidated
    BY <1>0, <1>4, TypeToParts DEF Refreshes, RunsAgain
  <2>2. /\ store'[d].version >= store[d].version /\ store'[d].version >= run[d].answer
        /\ store'[d].version \in Nat
    <3>1. run[d].answer \in 0..Version
      BY DeviceTyped
    <3>2. /\ store'[d].version >= store[d].version
          /\ store'[d].version >= run[d].answer
      BY <2>1, <3>1, AppliedVersions
    <3>. QED  BY <1>v, <3>2
  <2>3. waiter[d].since <= Version'
    BY <1>0 DEF RunTrue
  <2>4. /\ waiter'[d].since = waiter[d].since
        /\ waiter'[d].state = IF ~sync[d].again /\ waiter[d].state = "waits"
                              THEN "told" ELSE waiter[d].state
    <3>1. waiter \in [Devices -> Waiters] /\ waiter[d] \in Waiters
      BY TypeToParts
    <3>2. CASE ~sync[d].again /\ waiter[d].state = "waits"
      <4>1. waiter' = [waiter EXCEPT ![d].state = "told"]
        BY <1>4, <3>2 DEF Refreshes, TellsWaiters
      <4>. QED  BY <3>1, <3>2, <4>1 DEF Waiters
    <3>3. CASE ~(~sync[d].again /\ waiter[d].state = "waits")
      <4>1. waiter' = waiter
        BY <1>4, <3>3 DEF Refreshes, TellsWaiters
      <4>. QED  BY <3>3, <4>1
    <3>. QED  BY <3>2, <3>3
  <2>5. CASE sync[d].again
    <3>1. run'[d].at = "start" /\ sync'[d].invalidated
      BY <2>1, <2>5, DeviceTyped, SyncTyped DEF AtSite
    <3>. QED  BY <1>0, <2>1, <2>2, <2>3, <2>4, <2>5, <3>1 DEF RunTrue, RestTrue
  <2>6. CASE ~sync[d].again
    <3>1. run'[d].at = "idle" /\ ~sync'[d].invalidated
      BY <2>1, <2>6, DeviceTyped, SyncTyped DEF AtSite
    <3>2. pending[d] = Nothing
      BY <2>1, <2>6 DEF RunTrue
    <3>3. waiter[d].state = "waits" => store'[d].version >= waiter[d].since
      BY <1>0, <2>1, <2>2 DEF RunTrue
    <3>. QED  BY <1>0, <2>1, <2>2, <2>3, <2>4, <2>6, <3>1, <3>2, <3>3 DEF RunTrue, RestTrue
  <2>. QED  BY <2>5, <2>6
<1>5. CASE PostServed(d)
  <2>1. /\ UNCHANGED <<store, pending, sync, waiter>>
        /\ run'[d] = Served(d) /\ run[d].at = "post"
        /\ Served(d).at \in {"accepted", "mismatch"}
        /\ Served(d).at = "accepted" => Served(d).request = run[d].request
    BY <1>0, <1>5, ServedTyped DEF PostServed
  <2>2. waiter[d].since <= Version'
    BY <1>0 DEF RunTrue
  <2>. QED  BY <2>1, <2>2 DEF RunTrue, RestTrue
<1>6. CASE GetServed(d)
  <2>1. /\ UNCHANGED <<store, pending, sync, waiter>>
        /\ run'[d] = Fetched(d) /\ run[d].at = "get"
        /\ Fetched(d).at = "got" /\ Fetched(d).answer = Version
    BY <1>0, <1>6, FetchedTyped DEF GetServed
  <2>2. waiter[d].since <= Version' /\ waiter[d].since <= Version
    BY <1>0 DEF RunTrue
  <2>. QED  BY <1>0, <2>1, <2>2 DEF RunTrue, RestTrue
<1>. QED  BY <1>1, <1>2, <1>3, <1>4, <1>5, <1>6 DEF Progress

LEMMA OtherStepsRest ==
  ASSUME TypeOK, TypeOK', NEW d \in Devices, RunTrue(d), RestTrue(d),
         RequestFails(d) \/ \E logsIn \in BOOLEAN : Restarts(d, logsIn)
  PROVE  RunTrue(d)' /\ RestTrue(d)'
<1>0. Version' = Version /\ Version \in Nat /\ UNCHANGED <<store, pending>>
  BY HistoryKept, HistoryTyped DEF RequestFails, Restarts
<1>1. run'[d] = AtSite("start")
  BY TypeToParts DEF RequestFails, Restarts
<1>2. CASE RequestFails(d)
  <2>1. UNCHANGED <<sync, waiter>> /\ sync[d].invalidated
    BY <1>2, TypeToParts DEF RequestFails
  <2>. QED  BY <1>0, <1>1, <2>1 DEF RunTrue, RestTrue, AtSite
<1>3. ASSUME NEW logsIn \in BOOLEAN, Restarts(d, logsIn)
      PROVE  RunTrue(d)' /\ RestTrue(d)'
  <2>1. sync'[d] = Invalidated(Idle) /\ Invalidated(Idle).invalidated
    <3>1. sync' = [sync EXCEPT ![d] = Invalidated(Idle)]
      BY <1>3 DEF Restarts
    <3>2. Idle \in SyncStates
      BY DEF Idle, SyncStates
    <3>. QED  BY <3>1, <3>2, TypeToParts, SyncTyped
  <2>2. waiter'[d] = [state |-> IF logsIn THEN "waits" ELSE "none", since |-> Version]
    BY <1>3, TypeToParts DEF Restarts
  <2>3. waiter'[d].state # "told" /\ waiter'[d].since = Version
    BY <2>2
  <2>. QED  BY <1>0, <1>1, <2>1, <2>3 DEF RunTrue, RestTrue, AtSite
<1>. QED  BY <1>2, <1>3

LEMMA RestStep ==
  ASSUME TypeOK, WritesTrue, RunsTrue, NothingLeftAtRest, [Next]_vars
  PROVE  RunsTrue' /\ NothingLeftAtRest'
<1>0. TypeOK' /\ Version' >= Version /\ Version \in Nat
  BY TypeStep, HistorySteps
<1>1. SUFFICES ASSUME NEW e \in Devices  PROVE RunTrue(e)' /\ RestTrue(e)'
  BY DEF RunsTrue, NothingLeftAtRest, RestTrue
<1>2. RunTrue(e) /\ RestTrue(e)
  BY DEF RunsTrue, NothingLeftAtRest, RestTrue
<1>3. \A f \in Devices : store[f].version \in Nat
  BY DeviceTyped
<1>4. CASE UNCHANGED vars
  BY <1>0, <1>2, <1>3, <1>4, RestKept DEF vars
<1>5. CASE Next
  <2>1. PICK d \in Devices :
          \/ Progress(d)
          \/ \E k \in Keys : Changes(d, k)
          \/ BecomesActive(d)
          \/ \E v \in 1..Version : PushArrives(d, v)
          \/ RequestFails(d)
          \/ \E logsIn \in BOOLEAN : Restarts(d, logsIn)
          \/ \E request \in stray[d] : StrayServed(d, request)
    BY <1>5 DEF Next
  <2>2. ASSUME NEW v \in 1..Version, PushArrives(d, v)
        PROVE  RunTrue(e)' /\ RestTrue(e)'
    <3>1. /\ UNCHANGED <<pending, sync, run, waiter>> /\ store' = Applied(d, v)
          /\ v \in 0..Version
      BY <1>0, <2>2 DEF PushArrives
    <3>. QED  BY <1>0, <1>2, <3>1, AppliedVersions, RestKept
  <2>3. ASSUME NEW r \in stray[d], StrayServed(d, r)
        PROVE  RunTrue(e)' /\ RestTrue(e)'
    <3>1. UNCHANGED <<store, pending, sync, run, waiter>>
      BY <2>3 DEF StrayServed
    <3>. QED  BY <1>0, <1>2, <1>3, <3>1, RestKept
  <2>4. ASSUME NEW k \in Keys, Changes(d, k)
        PROVE  RunTrue(e)' /\ RestTrue(e)'
    <3>1. UNCHANGED <<written, waiter>> /\ Invalidates(d) /\ Version' = Version
      BY <2>4, HistoryKept DEF Changes
    <3>2. store'[e].version = store[e].version /\ (e # d => pending'[e] = pending[e])
      <4>1. /\ store' = [store EXCEPT ![d].settings[k] = Len(changes) + 1]
            /\ pending' = [pending EXCEPT ![d][k] = Len(changes) + 1]
        BY <2>4 DEF Changes
      <4>2. store \in [Devices -> Stores(Version)] /\ pending \in [Devices -> SomeSettings]
            /\ store[d] \in Stores(Version)
        BY TypeToParts
      <4>. QED  BY <4>1, <4>2 DEF Stores
    <3>3. CASE e = d
      BY <1>0, <1>2, <3>1, <3>2, <3>3, InvalidatesRests
    <3>4. CASE e # d
      <4>1. sync'[e] = sync[e] /\ run'[e] = run[e]
        BY <3>1, <3>4, InvalidatesTyped
      <4>. QED  BY <1>0, <1>2, <1>3, <3>1, <3>2, <3>4, <4>1, RestKept
    <3>. QED  BY <3>3, <3>4
  <2>5. CASE BecomesActive(d)
    <3>1. /\ UNCHANGED <<written, store, pending, waiter>> /\ Invalidates(d)
          /\ Version' = Version
      BY <2>5, HistoryKept DEF BecomesActive
    <3>2. CASE e = d
      BY <1>0, <1>2, <3>1, <3>2, InvalidatesRests
    <3>3. CASE e # d
      <4>1. sync'[e] = sync[e] /\ run'[e] = run[e]
        BY <3>1, <3>3, InvalidatesTyped
      <4>. QED  BY <1>0, <1>2, <1>3, <3>1, <4>1, RestKept
    <3>. QED  BY <3>2, <3>3
  <2>6. CASE \/ Progress(d) \/ RequestFails(d)
             \/ \E logsIn \in BOOLEAN : Restarts(d, logsIn)
    <3>1. CASE e = d
      BY <1>0, <1>2, <2>6, <3>1, ProgressRests, OtherStepsRest
    <3>2. CASE e # d
      <4>1. /\ sync'[e] = sync[e] /\ run'[e] = run[e] /\ pending'[e] = pending[e]
            /\ waiter'[e] = waiter[e]
        <5>1. CASE PostServed(d)
          BY <3>2, <5>1, ServedTyped, TypeToParts DEF PostServed
        <5>2. CASE GetServed(d)
          BY <3>2, <5>2, FetchedTyped, TypeToParts DEF GetServed
        <5>3. CASE Begins(d)
          BY <3>2, <5>3, BegunTyped, TypeToParts DEF Begins
        <5>4. CASE LearnsMismatch(d)
          <6>1. UNCHANGED <<pending, sync, waiter>>
            BY <5>4 DEF LearnsMismatch
          <6>. QED  BY <3>2, <5>4, <6>1, RetriedTyped, TypeToParts
        <5>5. CASE LearnsAccepted(d)
          BY <3>2, <5>5, TypeToParts DEF LearnsAccepted
        <5>6. CASE Refreshes(d)
          BY <3>2, <5>6, TypeToParts DEF Refreshes
        <5>7. CASE RequestFails(d)
          BY <3>2, <5>7, TypeToParts DEF RequestFails
        <5>8. CASE \E logsIn \in BOOLEAN : Restarts(d, logsIn)
          BY <3>2, <5>8, TypeToParts DEF Restarts
        <5>. QED  BY <2>6, <5>1, <5>2, <5>3, <5>4, <5>5, <5>6, <5>7, <5>8 DEF Progress
      <4>2. store'[e].version >= store[e].version
        <5>1. \/ UNCHANGED store
              \/ store' = Applied(d, run[d].answer) /\ run[d].answer \in 0..Version
          BY <2>6, DeviceTyped DEF Progress, Begins, LearnsAccepted, LearnsMismatch,
             Refreshes, PostServed, GetServed, RequestFails, Restarts
        <5>. QED  BY <1>3, <5>1, AppliedVersions
      <4>. QED  BY <1>0, <1>2, <4>1, <4>2, RestKept
    <3>. QED  BY <3>1, <3>2
  <2>. QED  BY <2>1, <2>2, <2>3, <2>4, <2>5, <2>6
<1>. QED  BY <1>4, <1>5

\* A device at rest has nothing left to send and nobody waits there, and who
\* awaited fresh settings after a log-in is told only once the device shows what
\* the centre had then, or newer (InvalidateSync, settingsSync.awaitQueue).
THEOREM RestCorrect == Spec => []NothingLeftAtRest
<1>. DEFINE Inv == TypeOK /\ WritesTrue /\ RunsTrue /\ NothingLeftAtRest
<1>1. Init => Inv
  BY TypeInit, WritesInit, RestInit
<1>2. Inv /\ [Next]_vars => Inv'
  BY TypeStep, WritesStep, RestStep
<1>3. Inv => NothingLeftAtRest
  OBVIOUS
<1>. QED  BY <1>1, <1>2, <1>3, PTL DEF Spec

\* All of it together is an inductive invariant of the settings.
THEOREM SafetyCorrect == Spec => []SafetyInv
<1>1. Init => SafetyInv
  BY TypeInit, WritesInit, DropInit, RestInit DEF SafetyInv
<1>2. SafetyInv /\ [Next]_vars => SafetyInv'
  BY TypeStep, WritesStep, SentStep, DropStep, RestStep DEF SafetyInv
<1>. QED  BY <1>1, <1>2, PTL DEF Spec
=============================================================================
