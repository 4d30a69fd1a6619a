-------------------------- MODULE IngestionProofs --------------------------
(***************************************************************************)
(* What the runner publishes is current, for any sources, markets, numbers *)
(* of retries and faults.                                                  *)
(***************************************************************************)
EXTENDS Ingestion, TLAPS

\* Quotes only move forward: what the tasks hold was collected in this cycle,
\* and what is in the stream before it.
QuotesInOrder ==
    \A k \in Markets :
        /\ opened[k] <= quote[k]
        /\ last[k].number <= quote[k]
        /\ phase = "cycle" => last[k].number <= opened[k]
        /\ taken[k] # 0 => opened[k] <= taken[k] /\ taken[k] <= quote[k]

IngestionInv == TypeOK /\ QuotesInOrder

\* Init establishes the invariant.
LEMMA InitInv == Init => IngestionInv
<1>. SUFFICES ASSUME Init PROVE IngestionInv
  OBVIOUS
<1>1. TypeOK
  <2>1. MaxMoves \in Nat /\ MaxRetries \in Nat /\ MaxFaults \in Nat
    BY IngestionAssumption
  <2>2. quote \in [Markets -> 1..(MaxMoves + 1)]
    BY <2>1 DEF Init
  <2>3. taken \in [Markets -> Nat] /\ opened \in [Markets -> Nat]
    BY DEF Init
  <2>4. attempt \in [Feeds -> 0..MaxRetries] /\ faults \in 0..MaxFaults
    BY <2>1 DEF Init
  <2>5. last \in [Markets -> Entry \cup {NoEntry}]
    BY DEF Init
  <2>6. /\ task \in [Feeds -> {"tickers", "funding", "done", "failed"}]
        /\ \A f \in Feeds : task[f] = "funding" => f \in FundingFeeds
    BY DEF Init
  <2>7. phase \in {"cycle", "sleep", "closed"} /\ rated \subseteq FundingFeeds
        /\ stopping \in BOOLEAN
    BY DEF Init
  <2> QED
    BY <2>2, <2>3, <2>4, <2>5, <2>6, <2>7 DEF TypeOK
<1>2. ASSUME NEW k \in Markets
      PROVE  /\ opened[k] <= quote[k]
             /\ last[k].number <= quote[k]
             /\ phase = "cycle" => last[k].number <= opened[k]
             /\ taken[k] # 0 => opened[k] <= taken[k] /\ taken[k] <= quote[k]
  <2>1. opened[k] = 1 /\ quote[k] = 1 /\ last[k].number = 0 /\ taken[k] = 0
    BY DEF Init, NoEntry
  <2> QED
    BY <2>1
<1> QED
  BY <1>1, <1>2 DEF IngestionInv, QuotesInOrder

\* The steps of one request keep it: only Tickers takes quotes.
LEMMA RequestInv ==
    ASSUME IngestionInv, NEW f \in Feeds, Request(f)
    PROVE  IngestionInv'
<1>. USE IngestionAssumption DEF IngestionInv
<1>1. CASE Tickers(f)
  <2>1. TypeOK'
    BY <1>1 DEF Tickers, Reported, Goto, TypeOK
  <2>2. QuotesInOrder'
    BY <1>1 DEF Tickers, Reported, TypeOK, QuotesInOrder
  <2> QED
    BY <2>1, <2>2
<1>2. CASE FundingRates(f)
  <2>1. TypeOK'
    BY <1>2 DEF FundingRates, Goto, TypeOK
  <2>2. QuotesInOrder'
    BY <1>2 DEF FundingRates, QuotesInOrder
  <2> QED
    BY <2>1, <2>2
<1>3. CASE Retried(f)
  <2>1. TypeOK'
    BY <1>3 DEF Retried, RequestFault, Fault, Exhausted, TypeOK
  <2>2. QuotesInOrder'
    BY <1>3 DEF Retried, QuotesInOrder
  <2> QED
    BY <2>1, <2>2
<1>4. CASE GivesUp(f)
  <2>1. TypeOK'
    BY <1>4 DEF GivesUp, RequestFault, Fault, Goto, TypeOK
  <2>2. QuotesInOrder'
    BY <1>4 DEF GivesUp, QuotesInOrder
  <2> QED
    BY <2>1, <2>2
<1> QED
  BY <1>1, <1>2, <1>3, <1>4 DEF Request

\* What is appended was collected in this cycle, and is no older than the last
\* entry of its market.
LEMMA AppendedIsCurrent ==
    ASSUME IngestionInv, phase = "cycle", Append
    PROVE  /\ last' \in [Markets -> Entry \cup {NoEntry}]
           /\ \A k \in Markets : last'[k].number <= quote[k]
           /\ \A k \in Markets : last'[k] # last[k] =>
                 last'[k].number >= opened[k] /\ last'[k].number >= last[k].number
<1>. USE IngestionAssumption DEF IngestionInv
<1>1. \A k \in Normalized : taken[k] \in Nat \ {0}
  BY DEF TypeOK, Normalized, Collected
<1>2. last' \in [Markets -> Entry \cup {NoEntry}]
  BY <1>1 DEF Append, TypeOK, Entry
<1>3. ASSUME NEW k \in Markets
      PROVE  /\ last'[k].number <= quote[k]
             /\ last'[k] # last[k] =>
                   last'[k].number >= opened[k] /\ last'[k].number >= last[k].number
  <2>1. opened[k] \in Nat /\ taken[k] \in Nat /\ last[k].number \in Nat
    BY DEF TypeOK, Entry, NoEntry
  <2>2. CASE k \in Normalized
    BY <2>1, <2>2, <1>1 DEF Append, QuotesInOrder
  <2>3. CASE k \notin Normalized
    BY <2>3 DEF Append, QuotesInOrder
  <2> QED
    BY <2>2, <2>3
<1> QED
  BY <1>2, <1>3

\* A publication keeps the invariant, whether it fails or not.
LEMMA PublishInv ==
    ASSUME IngestionInv, Publish \/ PublishFails
    PROVE  IngestionInv'
<1>. USE IngestionAssumption DEF IngestionInv
<1>1. phase = "cycle" /\ (Append \/ UNCHANGED last)
  BY DEF Publish, PublishFails, Gathered
<1>2. /\ last' \in [Markets -> Entry \cup {NoEntry}]
      /\ \A k \in Markets : last'[k].number <= quote[k]
  <2>1. CASE Append
    BY <1>1, <2>1, AppendedIsCurrent
  <2>2. CASE UNCHANGED last
    BY <2>2 DEF TypeOK, QuotesInOrder
  <2> QED
    BY <1>1, <2>1, <2>2
<1>3. TypeOK'
  BY <1>2 DEF Publish, PublishFails, Fault, tasks, TypeOK
<1>4. QuotesInOrder'
  BY <1>2 DEF Publish, PublishFails, tasks, QuotesInOrder
<1> QED
  BY <1>3, <1>4

\* The beginning of a cycle keeps it: nothing is held, and what is in the stream
\* is not ahead of the sources.
LEMMA BeginInv ==
    ASSUME IngestionInv, NextCycle \/ Restart
    PROVE  IngestionInv'
<1>. USE IngestionAssumption DEF IngestionInv
<1>1. TypeOK'
  BY DEF NextCycle, Restart, BeginCycle, ForgetTaken, Fault, TypeOK
<1>2. QuotesInOrder'
  BY DEF NextCycle, Restart, BeginCycle, ForgetTaken, TypeOK, QuotesInOrder
<1> QED
  BY <1>1, <1>2

\* Every step keeps the invariant.
LEMMA StepInv ==
    ASSUME IngestionInv, [Next]_vars
    PROVE  IngestionInv'
<1>. USE IngestionAssumption DEF IngestionInv
<1>1. CASE \E k \in Markets : Moves(k)
  <2>1. PICK k \in Markets : Moves(k)
    BY <1>1
  <2>2. TypeOK'
    BY <2>1 DEF Moves, tasks, TypeOK
  <2>3. \A l \in Markets : quote[l] <= quote'[l]
    BY <2>1 DEF Moves, TypeOK
  <2>4. QuotesInOrder'
    <3>1. ASSUME NEW l \in Markets
          PROVE  /\ opened[l] \in Nat /\ taken[l] \in Nat /\ last[l].number \in Nat
                 /\ quote[l] \in Nat /\ quote'[l] \in Nat
      BY <2>2 DEF TypeOK, Entry, NoEntry
    <3> QED
      BY <2>1, <2>3, <3>1 DEF Moves, tasks, QuotesInOrder
  <2> QED
    BY <2>2, <2>4
<1>2. CASE \E f \in Feeds : Request(f)
  BY <1>2, RequestInv
<1>3. CASE Publish \/ PublishFails
  BY <1>3, PublishInv
<1>4. CASE NextCycle \/ Restart
  BY <1>4, BeginInv
<1>5. CASE Stop \/ Close \/ UNCHANGED vars
  <2>1. TypeOK'
    BY <1>5 DEF Stop, Close, vars, tasks, TypeOK
  <2>2. QuotesInOrder'
    BY <1>5 DEF Stop, Close, vars, tasks, QuotesInOrder
  <2> QED
    BY <2>1, <2>2
<1> QED
  BY <1>1, <1>2, <1>3, <1>4, <1>5 DEF Next

\* The invariant always holds; in particular every variable has its type.
THEOREM IngestionTypes == Spec => []TypeOK
<1>1. Init => IngestionInv
  BY InitInv
<1>2. IngestionInv /\ [Next]_vars => IngestionInv'
  BY StepInv
<1>3. IngestionInv => TypeOK
  BY DEF IngestionInv
<1> QED
  BY <1>1, <1>2, <1>3, PTL DEF Spec

\* What enters the stream was the quote of its market at some time since the
\* cycle began, and markets do not go back in time (ingest_bulk_all and its
\* retries, failed publications and restarts).
THEOREM NothingStalePublished == Spec => PublishedIsCurrent
<1>1. Init => IngestionInv
  BY InitInv
<1>2. IngestionInv /\ [Next]_vars => IngestionInv'
  BY StepInv
<1>3. ASSUME IngestionInv, [Next]_vars
      PROVE  [\A k \in Markets : last'[k] # last[k] =>
                 last'[k].number >= opened[k] /\ last'[k].number >= last[k].number]_vars
  <2>1. CASE phase = "cycle" /\ Append
    BY <1>3, <2>1, AppendedIsCurrent
  <2>2. CASE ~(phase = "cycle" /\ Append)
    <3>1. UNCHANGED last
      BY <1>3, <2>2 DEF Next, Moves, Request, Tickers, FundingRates, Retried, GivesUp,
         Publish, PublishFails, Gathered, NextCycle, Stop, Close, Restart, vars
    <3> QED
      BY <3>1
  <2> QED
    BY <2>1, <2>2
<1> QED
  BY <1>1, <1>2, <1>3, PTL DEF Spec, PublishedIsCurrent
=============================================================================
