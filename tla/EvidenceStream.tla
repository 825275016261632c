--------------------------- MODULE EvidenceStream ---------------------------
(***************************************************************************)
(* The in-memory evidence log served over gRPC                             *)
(* (aios-evidence/src/service/impl_inmemory.rs): writers append receipts   *)
(* and seal segments, subscribers replay the open chain and then follow    *)
(* the broadcast channel.                                                  *)
(*                                                                         *)
(* Each critical section of the code is one action.  Three of the handlers *)
(* have two: append leaves the lock before it broadcasts, seal leaves the  *)
(* lock before it pushes into the sealed-segment store, and subscribe      *)
(* leaves the lock between its replay and its attachment to the channel.   *)
(*                                                                         *)
(* Receipts are numbered in the order the lock admits them, segments in    *)
(* the order they are sealed; a segment's terminal SEGMENT_SEALED receipt  *)
(* never enters the open chain or the channel and is left out.  Subject,   *)
(* type and privacy filters are left out: the subscribers are the ones     *)
(* whose filters admit everything.                                         *)
(***************************************************************************)
EXTENDS Integers, Sequences, FiniteSets, Functions, ChainOrder

CONSTANTS Writers,      \* tasks serving Append and seal_current_segment
          Subscribers,  \* clients of Subscribe
          Capacity,     \* DEFAULT_SUBSCRIBE_BROADCAST_CAPACITY
          MaxReceipts,  \* bound on the receipts appended
          MaxSegments,  \* bound on the segments sealed
          MaxCalls      \* bound on the Subscribe calls of one subscriber

ASSUME StreamBounds ==
  /\ Capacity \in Nat \ {0}
  /\ {MaxReceipts, MaxSegments, MaxCalls} \subseteq Nat

VARIABLES chain,   \* State.chain: the open chain
          link,    \* State.previous_segment_link: 0 for None
          store,   \* SealedStore.sealed
          channel, \* live_tx: everything ever sent
          writer,  \* what each writer still has to do after its lock
          sub,     \* what each subscriber is doing and has received
          count    \* receipts appended so far

vars == <<chain, link, store, channel, writer, sub, count>>

Receipts == 1 .. MaxReceipts
Segment == [id : 1 .. MaxSegments, prev : 0 .. MaxSegments, receipts : Seq(Receipts)]
Free == [op |-> "free"]

(* A connection: bookmark it asked for, receipts it replayed up to, the    *)
(* count when it attached to the channel, its position there.              *)
Closed == [pc |-> "closed", calls |-> 0, bookmark |-> 0, upto |-> 0,
           since |-> 0, next |-> 1, got |-> << >>]

(* Everything sealed so far, pushed into the store or still on its way. *)
Sealed == Range(store) \cup {writer[w].seg : w \in {v \in Writers : writer[v].op = "push"}}

(* Receipts appended whose broadcast has not happened yet. *)
Unsent == {writer[w].receipt : w \in {v \in Writers : writer[v].op = "send"}}

Init ==
  /\ chain = << >> /\ link = 0 /\ store = << >> /\ channel = << >>
  /\ writer = [w \in Writers |-> Free]
  /\ sub = [s \in Subscribers |-> Closed]
  /\ count = 0

-----------------------------------------------------------------------------
(* append (and emit_approval_required): the part under the write lock. *)
Append_(w) ==
  /\ writer[w] = Free /\ count < MaxReceipts
  /\ count' = count + 1
  /\ chain' = Append(chain, count')
  /\ writer' = [writer EXCEPT ![w] = [op |-> "send", receipt |-> count']]
  /\ UNCHANGED <<link, store, channel, sub>>

\* Mutant of Send: the receipt is never broadcast.
SendNothing(w) ==
  /\ writer[w].op = "send"
  /\ writer' = [writer EXCEPT ![w] = Free]
  /\ UNCHANGED <<chain, link, store, channel, sub, count>>

(* live_tx.send, after the guard is dropped. *)
Send(w) ==
  /\ writer[w].op = "send"
  /\ channel' = Append(channel, writer[w].receipt)
  /\ writer' = [writer EXCEPT ![w] = Free]
  /\ UNCHANGED <<chain, link, store, sub, count>>

\* Mutant of SealCurrentSegment: the open chain is not reset.
SealKeepsChain(w) ==
  /\ writer[w] = Free /\ link < MaxSegments
  /\ chain # << >>
  /\ link' = link + 1
  /\ writer' = [writer EXCEPT ![w] =
                  [op |-> "push",
                   seg |-> [id |-> link', prev |-> link, receipts |-> chain]]]
  /\ UNCHANGED <<chain, store, channel, sub, count>>

(* seal_current_segment up to drop(guard): an empty chain is an error. *)
SealCurrentSegment(w) ==
  /\ writer[w] = Free /\ link < MaxSegments
  /\ chain # << >>
  /\ link' = link + 1
  /\ chain' = << >>
  /\ writer' = [writer EXCEPT ![w] =
                  [op |-> "push",
                   seg |-> [id |-> link', prev |-> link, receipts |-> chain]]]
  /\ UNCHANGED <<store, channel, sub, count>>

(* The rest of seal_current_segment, under the store's own mutex. *)
PushSealed(w) ==
  /\ writer[w].op = "push"
  /\ store' = Append(store, writer[w].seg)
  /\ writer' = [writer EXCEPT ![w] = Free]
  /\ UNCHANGED <<chain, link, channel, sub, count>>

-----------------------------------------------------------------------------
(* Receipts of the open chain after the bookmark; all of them when it is   *)
(* blank, none when it is not there.                                       *)
ReplayFrom(b) ==
  IF b = 0 THEN chain
  ELSE IF b \in Range(chain)
    THEN SubSeq(chain, (CHOOSE i \in DOMAIN chain : chain[i] = b) + 1, Len(chain))
    ELSE << >>

(* subscribe up to drop(guard).  A client that reconnects may resume from  *)
(* any receipt it has received, or from none.                              *)
Replay(s) ==
  /\ sub[s].pc = "closed" /\ sub[s].calls < MaxCalls
  /\ \E b \in Range(sub[s].got) \cup {0} :
       sub' = [sub EXCEPT ![s] =
                 [pc |-> "replayed", calls |-> sub[s].calls + 1, bookmark |-> b,
                  upto |-> count, since |-> count, next |-> 1, got |-> ReplayFrom(b)]]
  /\ UNCHANGED <<chain, link, store, channel, writer, count>>

(* live_tx.subscribe(): the receiver starts at the channel's tail. *)
Attach(s) ==
  /\ sub[s].pc = "replayed"
  /\ sub' = [sub EXCEPT ![s].pc = "live", ![s].since = count,
                        ![s].next = Len(channel) + 1]
  /\ UNCHANGED <<chain, link, store, channel, writer, count>>

(* First channel position the ring buffer still holds. *)
Oldest == IF Len(channel) > Capacity THEN Len(channel) - Capacity + 1 ELSE 1

(* The live stream yields one receipt.  A receiver that lags skips, without *)
(* a word, to the oldest one the buffer still holds (item.ok()).            *)
Receive(s) ==
  /\ sub[s].pc = "live" /\ sub[s].next <= Len(channel)
  /\ LET p == IF sub[s].next < Oldest THEN Oldest ELSE sub[s].next
     IN  sub' = [sub EXCEPT ![s].next = p + 1, ![s].got = Append(@, channel[p])]
  /\ UNCHANGED <<chain, link, store, channel, writer, count>>

(* The client goes away; it remembers what it received. *)
Disconnect(s) ==
  /\ sub[s].pc = "live"
  /\ sub' = [sub EXCEPT ![s].pc = "closed"]
  /\ UNCHANGED <<chain, link, store, channel, writer, count>>

Write == \E w \in Writers : Append_(w) \/ Send(w) \/ SealCurrentSegment(w) \/ PushSealed(w)
Follow == \E s \in Subscribers : Replay(s) \/ Attach(s) \/ Receive(s) \/ Disconnect(s)

Next == Write \/ Follow
Spec == Init /\ [][Next]_vars

(* Sends happen and attached streams are polled: tokio's scheduler. *)
Fairness ==
  /\ \A w \in Writers : WF_vars(Send(w) \/ PushSealed(w))
  /\ \A s \in Subscribers : WF_vars(Attach(s)) /\ WF_vars(Receive(s))
FairSpec == Spec /\ Fairness

-----------------------------------------------------------------------------
(* Every variable has its type: the open chain is the only place a receipt *)
(* enters, and a segment leaves a writer only complete.                    *)
TypeOK ==
  /\ chain \in Seq(Receipts) /\ channel \in Seq(Receipts)
  /\ link \in 0 .. MaxSegments /\ store \in Seq(Segment)
  /\ count \in 0 .. MaxReceipts
  /\ writer \in [Writers -> {Free} \cup [op : {"send"}, receipt : Receipts]
                                   \cup [op : {"push"}, seg : Segment]]
  /\ sub \in [Subscribers ->
       [pc : {"closed", "replayed", "live"}, calls : 0 .. MaxCalls,
        bookmark : 0 .. MaxReceipts, upto : 0 .. MaxReceipts, since : 0 .. MaxReceipts,
        next : 1 .. MaxReceipts + 1, got : Seq(Receipts)]]

(* A sealed segment, stored or still on its way, comes after the one it     *)
(* links to; the open chain comes after the last one sealed.                *)
Parts == Sealed \cup {[id |-> link + 1, prev |-> link, receipts |-> chain]}
Entries == UNION {EntriesAt(g.prev + 1, g.receipts) : g \in Parts}

Log == InOrder(Entries)

AppendOnly == INSTANCE AppendOnlyLog WITH log <- Log

(* The sealed segments joined by their links, then the open chain, form an  *)
(* append-only log: no interleaving of append and seal_current_segment      *)
(* loses, repeats or reorders a receipt.                                    *)
LogIsAppendOnly == AppendOnly!LogSpec

(* Channel positions of a receipt. *)
SentAt(r) == {p \in DOMAIN channel : channel[p] = r}

Occurrences(r, seq) == Cardinality({i \in DOMAIN seq : seq[i] = r})

(* A receipt appended after Subscribe attached to the channel reaches that  *)
(* connection exactly once, unless the ring buffer overwrote it: it is      *)
(* received, still ahead in the channel, still to be sent, or lost to lag.  *)
MissedOnlyByLag ==
  \A s \in Subscribers : sub[s].pc = "live" =>
    \A r \in sub[s].since + 1 .. count :
      \/ Occurrences(r, sub[s].got) = 1
      \/ Occurrences(r, sub[s].got) = 0 /\ r \in Unsent
      \/ Occurrences(r, sub[s].got) = 0
           /\ \E p \in SentAt(r) : p >= sub[s].next \/ p < Oldest

(* Writers that overtake each other between the locks leave only whole      *)
(* segments and a stream that misses receipts by lag alone.                 *)
StreamSound == TypeOK /\ MissedOnlyByLag

(* Under fair scheduling of the senders and of the stream, a receipt        *)
(* appended while a connection is attached is received by it, unless the    *)
(* client disconnects or lags a full buffer behind.                         *)
LiveDelivers ==
  \A s \in Subscribers, r \in Receipts :
    (sub[s].pc = "live" /\ r \in sub[s].since + 1 .. count)
      ~> (\/ r \in Range(sub[s].got)
          \/ sub[s].pc # "live"
          \/ \E p \in SentAt(r) : p < Oldest)

(* What the comment on SealedStore says: `sealed` preserves chain order.    *)
StoreInChainOrder == \A i, j \in DOMAIN store : i < j => store[i].id < store[j].id

(* What the design record says of Subscribe: it replays the records missed  *)
(* since the bookmark.                                                      *)
ResumeReplaysMissed ==
  \A s \in Subscribers : (sub[s].pc = "replayed" /\ sub[s].bookmark # 0) =>
    sub[s].bookmark + 1 .. sub[s].upto \subseteq Range(sub[s].got)

(* What the design record says of Subscribe: it replays, then streams live; *)
(* when nothing is left to send or to receive, nothing after the replay is  *)
(* missing.                                                                 *)
ReplayJoinsLive ==
  \A s \in Subscribers :
    (sub[s].pc = "live" /\ Unsent = {} /\ sub[s].next > Len(channel))
      => sub[s].upto + 1 .. count \subseteq Range(sub[s].got)

(* What the golden path says of the stream: receipts arrive in              *)
(* chronological order.                                                     *)
StreamChronological ==
  \A s \in Subscribers :
    \A i, j \in DOMAIN sub[s].got : i < j => sub[s].got[i] < sub[s].got[j]

(* What the protocol's comment on resume_from_receipt_id says: empty means  *)
(* subscribe from now.                                                      *)
BlankMeansFromNow ==
  \A s \in Subscribers : (sub[s].pc = "replayed" /\ sub[s].bookmark = 0) => sub[s].got = << >>
=============================================================================
