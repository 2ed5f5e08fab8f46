----------------------------- MODULE SessionLog -----------------------------
(***************************************************************************)
(* The numbered message log of one session: clients that write to it from  *)
(* an outbox over HTTP (v3SessionRoutes.ts, apiSession.ts), older clients   *)
(* that write over a socket (sessionUpdateHandler.ts), and the process     *)
(* that works on the session and reads the log with a cursor, from pages   *)
(* and from live updates (apiSession.ts).                                  *)
(*                                                                         *)
(* One action is the code between two awaits.  A message is the number of  *)
(* its localId; what it says plays no part.                                *)
(***************************************************************************)
EXTENDS Naturals, Sequences, FiniteSets

CONSTANTS
  NumMessages,   \* bound on the messages written
  Writers,       \* clients with an outbox
  Self,          \* the writer that is also the reader
  Sockets,       \* sockets of older clients
  BatchSize,     \* MAX_OUTBOX_BATCH_SIZE
  PageSize,      \* the limit of a page
  Faults,        \* which of AllFaults may happen
  MaxFaults      \* bound on their number

AllFaults ==
  {"post", "announce", "socket", "centre", "get", "drop", "hold", "handover",
   "restart"}

ASSUME ConstantsAssumption ==
  /\ NumMessages \in Nat
  /\ Self \in Writers
  /\ BatchSize \in Nat \ {0}
  /\ PageSize \in Nat \ {0}
  /\ Faults \subseteq AllFaults
  /\ MaxFaults \in Nat

Messages == 1..NumMessages

VARIABLES
  written,   \* how many messages have been written so far
  seq,       \* the session's counter
  seqOf,     \* the number a stored message has, 0 while it is not stored
  outbox,    \* of each writer: messages not confirmed stored
  requests,  \* POST requests the centre has or will have
  handler,   \* of each socket: the message its handler is storing
  wire,      \* updates under way to the reader
  reader,    \* the reading process
  routed,    \* history: the messages routed to the engine, in order
  skipped,   \* history: the messages stepped over after a restart
  ended,     \* history: the messages that ended in the outbox of a process
  restarted, \* history: how many were routed before the last restart
  faults     \* how many faults have happened

centre == <<seq, seqOf, requests, handler>>
history == <<routed, skipped, ended, restarted>>
vars == <<written, centre, outbox, wire, reader, history, faults>>

Stages == {"sent", "read", "stored"}

\* "known" are the messages found stored, "news" those still to be announced.
\* A request whose client gave up runs on, but nobody awaits its response.
Requests ==
  [by : Writers, start : Nat, batch : Seq(Messages), stage : Stages,
   known : SUBSET Messages, news : Seq(Messages), awaited : BOOLEAN]

Handlers == [msg : 0..NumMessages, at : Nat, inserted : BOOLEAN]
Idle == [msg |-> 0, at |-> 0, inserted |-> FALSE]

Phases == {"idle", "asking", "answered", "recovering", "backoff"}

Readers ==
  [connected : BOOLEAN, cursor : Nat, paused : BOOLEAN, held : Nat,
   skip : BOOLEAN,
   phase : Phases, again : BOOLEAN, after : Nat, skipping : BOOLEAN,
   page : Seq(Nat), more : BOOLEAN, recover : BOOLEAN]

\* A process that has read up to "cursor" and has not connected yet.
Fresh(cursor, skip) ==
  [connected |-> FALSE, cursor |-> cursor, paused |-> FALSE,
   held |-> 0, skip |-> skip,
   phase |-> "idle", again |-> FALSE, after |-> 0, skipping |-> FALSE,
   page |-> <<>>, more |-> FALSE, recover |-> TRUE]

Init ==
  /\ written = 0
  /\ seq = 0
  /\ seqOf = [m \in Messages |-> 0]
  /\ outbox = [w \in Writers |-> <<>>]
  /\ requests = {}
  /\ handler = [s \in Sockets |-> Idle]
  /\ wire = <<>>
  /\ reader = Fresh(0, FALSE)
  /\ routed = <<>>
  /\ skipped = {} /\ ended = {} /\ restarted = 0
  /\ faults = 0

Elements(s) == {s[i] : i \in DOMAIN s}
Stored == {m \in Messages : seqOf[m] # 0}
MessageAt(n) == CHOOSE m \in Messages : seqOf[m] = n

\* The numbers of a set in ascending order.
Ascending(S) ==
  [i \in 1..Cardinality(S) |-> CHOOSE n \in S : Cardinality({k \in S : k <= n}) = i]

\* What a sequence has at these positions.
Picked(s, positions) ==
  [i \in 1..Cardinality(positions) |-> s[Ascending(positions)[i]]]

Fault(kind) ==
  /\ kind \in Faults
  /\ faults < MaxFaults
  /\ faults' = faults + 1

(***************************************************************************)
(* The reader's background synchronisation: one fetch at a time, and one   *)
(* more if it was asked for meanwhile.                                     *)
(***************************************************************************)

\* fetchMessages up to its first await: the wish to skip is taken and forgotten.
Asking(r) ==
  [r EXCEPT !.phase = "asking", !.after = r.cursor,
            !.skipping = r.skip, !.skip = FALSE]

\* Mutant: an invalidation while a fetch runs is taken to be covered by it.
InvalidatedOnce(r) ==
  IF r.phase = "idle" THEN Asking([r EXCEPT !.again = FALSE]) ELSE r

Invalidated(r) ==
  IF r.phase = "idle" THEN Asking([r EXCEPT !.again = FALSE])
                      ELSE [r EXCEPT !.again = TRUE]

Fetched(r) ==
  IF r.again THEN Asking([r EXCEPT !.again = FALSE])
             ELSE [r EXCEPT !.phase = "idle"]

\* An update reaches the reader only if it is connected when it is emitted.
Emit(n) == wire' = IF reader.connected THEN Append(wire, n) ELSE wire

(***************************************************************************)
(* Writing over HTTP.                                                      *)
(***************************************************************************)

\* enqueueMessage
Enqueue(w) ==
  /\ written < NumMessages
  /\ written' = written + 1
  /\ outbox' = [outbox EXCEPT ![w] = Append(@, written + 1)]
  /\ UNCHANGED <<centre, wire, reader, history, faults>>

Awaited(w) == \E r \in requests : r.by = w /\ r.awaited

\* flushOutbox: the newest messages first, in one request at a time.
BatchStart(w) ==
  IF Len(outbox[w]) > BatchSize THEN Len(outbox[w]) - BatchSize ELSE 0

Post(w) ==
  /\ outbox[w] # <<>>
  /\ ~Awaited(w)
  /\ LET start == BatchStart(w) IN
     requests' = requests \cup
       {[by |-> w, start |-> start,
         batch |-> SubSeq(outbox[w], start + 1, Len(outbox[w])),
         stage |-> "sent", known |-> {}, news |-> <<>>, awaited |-> TRUE]}
  /\ UNCHANGED <<written, seq, seqOf, handler, outbox, wire, reader, history,
                 faults>>

Replace(r, s) == requests' = (requests \ {r}) \cup {s}

\* The transaction looks for messages stored by an earlier attempt.
Lookup(r) ==
  /\ r.stage = "sent"
  /\ Replace(r, [r EXCEPT !.stage = "read",
                          !.known = Elements(r.batch) \cap Stored])
  /\ UNCHANGED <<written, seq, seqOf, handler, outbox, wire, reader, history,
                 faults>>

Missing(r) == Picked(r.batch, {i \in DOMAIN r.batch : r.batch[i] \notin r.known})

\* allocateSessionSeqBatch
EndSeq(count) == seq + count
\* Mutant: the first number is one too high.
StartSeqHigh(count) == EndSeq(count) - count + 2
StartSeq(count) == EndSeq(count) - count + 1

\* The update of the counter locks the session's row until the commit, so that
\* numbering and inserting are one step for all who number in a transaction.
Commit(r) ==
  /\ r.stage = "read"
  /\ LET new == Missing(r) IN
     /\ Elements(new) \cap Stored = {}
     /\ seq' = EndSeq(Len(new))
     /\ seqOf' = [m \in Messages |->
          IF m \in Elements(new)
          THEN StartSeq(Len(new)) + (CHOOSE i \in DOMAIN new : new[i] = m) - 1
          ELSE seqOf[m]]
     /\ Replace(r, [r EXCEPT !.stage = "stored", !.news = new])
  /\ UNCHANGED <<written, handler, outbox, wire, reader, history, faults>>

\* Another attempt has stored one of them since: the unique constraint on
\* session and localId aborts the transaction, and the client tries again.
Clash(r) ==
  /\ r.stage = "read"
  /\ Elements(Missing(r)) \cap Stored # {}
  /\ requests' = requests \ {r}
  /\ UNCHANGED <<written, seq, seqOf, handler, outbox, wire, reader, history,
                 faults>>

\* Each new message is announced after a number for the update was awaited.
Announce(r) ==
  /\ r.stage = "stored"
  /\ r.news # <<>>
  /\ Emit(seqOf[Head(r.news)])
  /\ Replace(r, [r EXCEPT !.news = Tail(@)])
  /\ UNCHANGED <<written, seq, seqOf, handler, outbox, reader, history, faults>>

\* The number for the update could not be had: the request fails although its
\* messages are stored, and the rest of them is not announced.
AnnounceFails(r) ==
  /\ r.stage = "stored"
  /\ r.news # <<>>
  /\ Fault("announce")
  /\ requests' = requests \ {r}
  /\ UNCHANGED <<written, seq, seqOf, handler, outbox, wire, reader, history>>

\* Mutant: the batch is cut off at the front, where it was not taken.
KeptBehind(box, r) == SubSeq(box, Len(r.batch) + 1, Len(box))

\* Mutant: the outbox is emptied.
KeptNothing(box, r) == <<>>

\* What the outbox keeps of its messages once a batch is confirmed; messages
\* written since are behind the batch.
Kept(box, r) ==
  SubSeq(box, 1, r.start) \o SubSeq(box, r.start + Len(r.batch) + 1, Len(box))

\* Mutant: the reader's cursor follows the numbers of its own messages.
CursorAfterOwnPost(r) ==
  LET n == seqOf[r.batch[Len(r.batch)]]
  IN  IF r.by = Self /\ n > reader.cursor THEN n ELSE reader.cursor

\* The reader's cursor is not moved onto the numbers of its own messages.
CursorAfterPost(r) == reader.cursor

Respond(r) ==
  /\ r.stage = "stored"
  /\ r.news = <<>>
  /\ requests' = requests \ {r}
  /\ outbox' = IF r.awaited THEN [outbox EXCEPT ![r.by] = Kept(@, r)] ELSE outbox
  /\ reader' = [reader EXCEPT !.cursor = CursorAfterPost(r)]
  /\ UNCHANGED <<written, seq, seqOf, handler, wire, history, faults>>

\* The client sees its request fail, which may have reached the centre or not.
PostFails(r) ==
  /\ r.awaited
  /\ Fault("post")
  /\ \/ requests' = requests \ {r} /\ r.stage = "sent"
     \/ Replace(r, [r EXCEPT !.awaited = FALSE])
  /\ UNCHANGED <<written, seq, seqOf, handler, outbox, wire, reader, history>>

(***************************************************************************)
(* Writing over a socket: the number is taken before the message is        *)
(* inserted, and neither in a transaction.                                 *)
(***************************************************************************)

SocketAllocate(s) ==
  /\ written < NumMessages
  /\ handler[s] = Idle
  /\ written' = written + 1
  /\ seq' = seq + 1
  /\ handler' = [handler EXCEPT ![s] =
                   [msg |-> written + 1, at |-> seq + 1, inserted |-> FALSE]]
  /\ UNCHANGED <<seqOf, requests, outbox, wire, reader, history, faults>>

SocketInsert(s) ==
  /\ handler[s] # Idle
  /\ ~handler[s].inserted
  /\ seqOf' = [seqOf EXCEPT ![handler[s].msg] = handler[s].at]
  /\ handler' = [handler EXCEPT ![s].inserted = TRUE]
  /\ UNCHANGED <<written, seq, requests, outbox, wire, reader, history, faults>>

SocketAnnounce(s) ==
  /\ handler[s].inserted
  /\ Emit(handler[s].at)
  /\ handler' = [handler EXCEPT ![s] = Idle]
  /\ UNCHANGED <<written, seq, seqOf, requests, outbox, reader, history, faults>>

\* The handler throws: its number is never used, or its message not announced.
SocketFails(s) ==
  /\ handler[s] # Idle
  /\ Fault("socket")
  /\ handler' = [handler EXCEPT ![s] = Idle]
  /\ UNCHANGED <<written, seq, seqOf, requests, outbox, wire, reader, history>>

\* The centre restarts: what it was doing ends where it is.
CentreRestarts ==
  /\ Fault("centre")
  /\ requests' = {}
  /\ handler' = [s \in Sockets |-> Idle]
  /\ reader' = [reader EXCEPT !.connected = FALSE]
  /\ wire' = <<>>
  /\ UNCHANGED <<written, seq, seqOf, outbox, history>>

(***************************************************************************)
(* Reading.                                                                *)
(***************************************************************************)

Connect ==
  /\ ~reader.connected
  /\ reader' = Invalidated([reader EXCEPT !.connected = TRUE])
  /\ UNCHANGED <<written, centre, outbox, wire, history, faults>>

Drop ==
  /\ reader.connected
  /\ Fault("drop")
  /\ reader' = [reader EXCEPT !.connected = FALSE]
  /\ wire' = <<>>
  /\ UNCHANGED <<written, centre, outbox, history>>

\* Mutant: whatever is newer is taken.
Newer(n) == n > reader.cursor

\* An update is taken as it is only if it is the next one.
Contiguous(n) == n = reader.cursor + 1

Live ==
  /\ wire # <<>>
  /\ wire' = Tail(wire)
  /\ LET n == Head(wire) IN
     IF reader.paused
     THEN UNCHANGED <<reader, routed>>
     ELSE IF Contiguous(n)
     THEN /\ reader' = [reader EXCEPT !.cursor = n]
          /\ routed' = Append(routed, MessageAt(n))
     ELSE /\ reader' = Invalidated(reader)
          /\ UNCHANGED routed
  /\ UNCHANGED <<written, centre, outbox, skipped, ended, restarted, faults>>

\* GET: a page of what is visible now, and whether there is more.
Serve ==
  /\ reader.phase = "asking"
  /\ LET visible == Ascending({seqOf[m] : m \in Stored} \cap (reader.after + 1)..seq)
     IN reader' = [reader EXCEPT
          !.phase = "answered",
          !.page = SubSeq(visible, 1, IF Len(visible) > PageSize
                                      THEN PageSize ELSE Len(visible)),
          !.more = Len(visible) > PageSize]
  /\ UNCHANGED <<written, centre, outbox, wire, history, faults>>

\* Mutant: a page is routed as it comes.
WholePage(r) == r.page

\* Live updates may have moved the cursor while the page was under way.
Unclaimed(r) == Picked(r.page, {i \in DOMAIN r.page : r.page[i] > r.cursor})

LastOf(s, default) == IF s = <<>> THEN default ELSE s[Len(s)]

\* After a page comes the next one, or the commands left pending, or the end.
AfterPage(r) ==
  LET next == [r EXCEPT !.cursor = LastOf(Unclaimed(r), r.cursor),
                        !.after = LastOf(r.page, r.after), !.page = <<>>]
  IN  IF r.more THEN [next EXCEPT !.phase = "asking"]
      ELSE IF r.recover THEN [next EXCEPT !.phase = "recovering"]
      ELSE Fetched(next)

Receive ==
  /\ reader.phase = "answered"
  /\ LET new == Unclaimed(reader)
         msgs == [i \in DOMAIN new |-> MessageAt(new[i])]
     IN
     IF reader.paused
     THEN /\ reader' = Fetched([reader EXCEPT !.page = <<>>])
          /\ UNCHANGED history
     ELSE /\ reader' = AfterPage(reader)
          /\ IF reader.skipping
             THEN skipped' = skipped \cup Elements(msgs) /\ UNCHANGED routed
             ELSE routed' = routed \o msgs /\ UNCHANGED skipped
          /\ UNCHANGED <<ended, restarted>>
  /\ UNCHANGED <<written, centre, outbox, wire, faults>>

\* The commands left pending are not messages of the log (commandRoutes.ts).
Recover ==
  /\ reader.phase = "recovering"
  /\ reader' = Fetched([reader EXCEPT !.recover = FALSE])
  /\ UNCHANGED <<written, centre, outbox, wire, history, faults>>

GetFails ==
  /\ reader.phase \in {"asking", "answered", "recovering"}
  /\ Fault("get")
  /\ reader' = [reader EXCEPT !.phase = "backoff", !.page = <<>>]
  /\ UNCHANGED <<written, centre, outbox, wire, history>>

\* backoff calls fetchMessages again, from its beginning.
Retry ==
  /\ reader.phase = "backoff"
  /\ reader' = Asking(reader)
  /\ UNCHANGED <<written, centre, outbox, wire, history, faults>>

\* A refresh holds the cursor, ...
Hold ==
  /\ ~reader.paused
  /\ Fault("hold")
  /\ reader' = [reader EXCEPT !.paused = TRUE, !.held = reader.cursor]
  /\ UNCHANGED <<written, centre, outbox, wire, history>>

\* ... and is called off, or fails, ...
Release ==
  /\ reader.paused
  /\ reader' = Invalidated([reader EXCEPT !.paused = FALSE, !.skip = FALSE,
                                          !.cursor = reader.held])
  /\ UNCHANGED <<written, centre, outbox, wire, history, faults>>

\* The requests of a process that has ended run on without it.
Abandoned(w) ==
  {IF r.by = w THEN [r EXCEPT !.awaited = FALSE] ELSE r : r \in requests}

Ends ==
  /\ ended' = ended \cup Elements(outbox[Self])
  /\ outbox' = [outbox EXCEPT ![Self] = <<>>]
  /\ requests' = Abandoned(Self)
  /\ wire' = <<>>

\* Mutant: the new process is not told the cursor.
SuccessorFromScratch(r) == Fresh(0, FALSE)

Successor(r) == Fresh(r.held, FALSE)

\* ... or a new process takes over where the cursor was held.
Handover ==
  /\ reader.paused
  /\ Fault("handover")
  /\ Ends
  /\ reader' = Invalidated(Successor(reader))
  /\ UNCHANGED <<written, seq, seqOf, handler, routed, skipped, restarted>>

\* A process that ended otherwise is started again without a cursor: what the
\* log holds by then was dealt with before, and is to be skipped.
Restart ==
  /\ Fault("restart")
  /\ Ends
  /\ reader' = Fresh(0, TRUE)
  /\ restarted' = Len(routed)
  /\ UNCHANGED <<written, seq, seqOf, handler, routed, skipped>>

-----------------------------------------------------------------------------

WriterStep(w) == Enqueue(w) \/ Post(w)

RequestStep(r) ==
  Lookup(r) \/ Commit(r) \/ Clash(r) \/ Announce(r) \/ Respond(r)

SocketStep(s) == SocketInsert(s) \/ SocketAnnounce(s)

ReaderStep ==
  Connect \/ Live \/ Serve \/ Receive \/ Recover \/ Retry \/ Release

Disturbance ==
  \/ \E r \in requests : PostFails(r) \/ AnnounceFails(r)
  \/ \E s \in Sockets : SocketFails(s)
  \/ CentreRestarts \/ Drop \/ GetFails \/ Hold \/ Handover \/ Restart


Next ==
  \/ \E w \in Writers : WriterStep(w)
  \/ \E r \in requests : RequestStep(r)
  \/ \E s \in Sockets : SocketAllocate(s) \/ SocketStep(s)
  \/ ReaderStep
  \/ Disturbance

Spec == Init /\ [][Next]_vars

\* Awaits end, backoff never gives up, a refresh ends one way or the other and
\* sockets reconnect; nothing makes a client write.
FairSpec ==
  /\ Spec
  /\ \A w \in Writers : WF_vars(Post(w))
  /\ WF_vars(\E r \in requests : RequestStep(r))
  /\ \A s \in Sockets : WF_vars(SocketStep(s))
  /\ WF_vars(Connect) /\ WF_vars(Live) /\ WF_vars(Release)
  /\ WF_vars(Serve \/ Receive \/ Recover \/ Retry)

-----------------------------------------------------------------------------

\* Every variable holds what the code can put there.
TypeOK ==
  /\ written \in 0..NumMessages
  /\ seq \in Nat
  /\ seqOf \in [Messages -> 0..seq]
  /\ outbox \in [Writers -> Seq(Messages)]
  /\ requests \subseteq Requests
  /\ handler \in [Sockets -> Handlers]
  /\ wire \in Seq(1..seq)
  /\ reader \in Readers
  /\ routed \in Seq(Messages)
  /\ skipped \subseteq Messages /\ ended \subseteq Messages
  /\ restarted \in 0..Len(routed)
  /\ faults \in 0..MaxFaults

\* A message leaves the outbox of a running process only once it is stored,
\* although batches are taken from the end of an outbox that grows meanwhile,
\* although requests are repeated, and although their earlier attempts may
\* still be running.
OutboxKept ==
  \A m \in 1..written :
    m \in Stored \cup ended \/ \E w \in Writers : m \in Elements(outbox[w])

\* The cursor moves over a message only when the message is routed, or skipped
\* after a restart: whatever else moves it loses the message for good, since
\* pages start behind it and live updates are taken only right behind it.
NothingSteppedOver ==
  \A m \in Stored :
    seqOf[m] <= reader.cursor => m \in Elements(routed) \cup skipped

\* Whoever writes, and however pages and live updates overlap, what a process and
\* those that take over from it route is routed once and in the order of the
\* numbers, also when numbers become visible out of order.
RoutedInOrder ==
  \A i, j \in DOMAIN routed :
    restarted < i /\ i < j => seqOf[routed[i]] < seqOf[routed[j]]

\* A fetch never routes what was routed before, by this process or an earlier
\* one that it takes the place of ("On reconnect, skip processing existing
\* messages").
FetchRoutesOnce ==
  [][Receive => \A i \in Len(routed) + 1 .. Len(routed') :
                  routed'[i] \notin Elements(routed)]_vars

\* With HTTP writers alone the log is a sequence, and the process is given a
\* prefix of it: every message once, in order, whatever is lost or repeated and
\* whoever takes over.
Promise ==
  INSTANCE LogPromise WITH log <- [n \in 1..Cardinality(Stored) |-> MessageAt(n)]
PromiseKept == Promise!Spec

\* What was written over HTTP is stored and dealt with, whatever was lost and
\* whatever is written over sockets meanwhile: it is routed by a live update, by
\* the fetch a gap asks for, or by the fetch after a reconnect, unless a new
\* process was told to skip it, or its writer ended before it was confirmed stored.
EveryMessageArrives ==
  \A m \in Messages :
    (\E w \in Writers : m \in Elements(outbox[w]))
      ~> m \in Elements(routed) \cup skipped \cup ended
=============================================================================
