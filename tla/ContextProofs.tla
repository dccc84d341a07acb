---------------------------- MODULE ContextProofs ----------------------------
(***************************************************************************)
(* The stored conversation of a session is exact whatever write fails, and *)
(* the model is shown the whole of it: for any number of messages and of   *)
(* tool calls.  Numbers are given out again after a rewind, identities are *)
(* not; the invariant says that the summary of what was compacted never    *)
(* reaches into the numbers that are given out again, and that every cut   *)
(* keeps a tool result together with its call.                             *)
(*                                                                         *)
(* The settings read as they were last chosen, whatever processes rewrite  *)
(* the file and in whatever order, and a screen runs with the strongest of *)
(* its sources: for any texts, themes, profiles, layers and processes.     *)
(*                                                                         *)
(* The model is asked exactly: for any histories whose batches are         *)
(* answered in place, whatever their length, and any number of attempts.   *)
(* What is put on the wire is computed message by message; the lemmas say  *)
(* what it is worth after each of them.                                    *)
(***************************************************************************)
EXTENDS SessionContext, UserSettings, ModelCalls, WellFoundedInduction, TLAPS

\* A number is below the identity of its message, for both begin together and only numbers
\* go back; each names one message of the log.
Numbered ==
    /\ \A m \in log : m.seq < m.id /\ m.id < next
    /\ \A m, n \in log : m.seq = n.seq \/ m.id = n.id => m = n

\* Nothing but results stands between m and the message before it that it answers.
AnswerOf(k, m) ==
    /\ k.id = m.of /\ k.kind # "result" /\ k.seq < m.seq
    /\ \A n \in log : k.seq < n.seq /\ n.seq < m.seq => n.kind = "result"

ResultsFollow == \A m \in log : m.kind = "result" => \E k \in log : AnswerOf(k, m)

\* The copy of the session is that of the disk, and a torn file stands for no summary.
CacheFits ==
    /\ ~cache.loaded => cache = Empty
    /\ CacheIsFaithful
    /\ "summary" \in torn => summary = NoSummary

\* A summary ends at a message of the log, and not between a call and its results.
Summarised(s, records) ==
    /\ Covers(s, records)
    /\ s.valid => \E c \in records : c.seq = s.covered
    /\ ~s.valid => s = NoSummary
    /\ \A m \in records : m.kind = "result" /\ m.seq > s.covered =>
          \E k \in records : k.id = m.of /\ k.seq > s.covered

SummariesFit == Summarised(summary, log) /\ Summarised(cache.summary, cache.records)

\* The stages in which a run has its projection, and in which its tools are answered.
Projecting == Runs \ {"initialize"}
Answering == {"executing", "results", "committing"}

LoadedFits ==
    /\ run.pc \in Projecting \cup {"truncate"} => cache.loaded
    /\ run.pc = "truncate" => cache.summary.covered < run.target

\* The projection shows the whole log, each message once, and a result with its call.
ProjectionFits ==
    run.pc \in Projecting =>
        /\ run.plain \subseteq After(log, cache.summary.covered)
        /\ run.digest \cup IdsOf(run.plain) = IdsOf(log)
        /\ run.digest \cap IdsOf(run.plain) = {}
        /\ \A m \in run.plain : m.kind = "result" => m.of \in IdsOf(run.plain)

\* The call that is answered is shown, and only its results have followed.
CallFits ==
    run.pc \in Answering =>
        \E k \in run.plain :
            /\ k.id = run.call /\ k.kind # "result"
            /\ \A n \in log : n.seq > k.seq => n.kind = "result"

ContextInv ==
    /\ TypeOK /\ Numbered /\ ResultsFollow /\ CacheFits /\ SummariesFit
    /\ LoadedFits /\ ProjectionFits /\ CallFits

USE ContextAssumption

\* A set of numbers below a bound has a greatest one.
LEMMA GreatestExists ==
    ASSUME NEW S \in SUBSET Nat, S # {}, NEW b \in Nat, \A s \in S : s <= b
    PROVE  \E g \in S : \A s \in S : s <= g
<1>1. DEFINE T == {b - s : s \in S}
<1>2. T \subseteq Nat /\ T # {}
    <2>1. PICK x \in S : TRUE
        OBVIOUS
    <2>2. b - x \in T
        BY <2>1
    <2>3. \A s \in S : b - s \in Nat
        OBVIOUS
    <2> QED
        BY <2>2, <2>3
<1>3. PICK t \in T : \A u \in T : <<u, t>> \notin OpToRel(<, Nat)
    BY <1>2, NatLessThanWellFounded, WFMin
<1>4. PICK g \in S : t = b - g
    BY <1>3
<1>5. ASSUME NEW s \in S PROVE s <= g
    <2>1. b - s \in T
        OBVIOUS
    <2>2. ~(b - s < b - g)
        BY <2>1, <1>2, <1>3, <1>4 DEF OpToRel
    <2> QED
        BY <2>2
<1> QED
    BY <1>5

\* The number of the next record is new, above all others and below its identity.
LEMMA NextSeqIsNew ==
    ASSUME TypeOK, Numbered
    PROVE  NextSeq \in Nat /\ NextSeq < next /\ \A m \in log : m.seq < NextSeq
<1>1. CASE log = {}
    BY <1>1 DEF NextSeq, TypeOK
<1>2. CASE log # {}
    <2> DEFINE S == {m.seq : m \in log}
    <2>1. \A m \in log : m.seq \in Nat /\ m.id \in Nat /\ m.seq < next /\ m.seq + 1 < next
        BY DEF TypeOK, Records, Ids, Numbered
    <2>2. S \in SUBSET Nat /\ S # {} /\ next \in Nat /\ \A s \in S : s <= next
        BY <1>2, <2>1 DEF TypeOK
    <2>3. \E g \in S : \A s \in S : s <= g
        BY ONLY <2>2, GreatestExists
    <2>4. Max(S) \in S /\ \A s \in S : Max(S) >= s
        BY <2>3, <2>2 DEF Max
    <2>5. NextSeq = Max(S) + 1
        BY <1>2 DEF NextSeq
    <2> HIDE DEF S
    <2>6. NextSeq \in Nat /\ \A s \in S : s < NextSeq
        <3>1. Max(S) \in Nat
            BY <2>2, <2>4
        <3>2. \A s \in S : s \in Nat
            BY <2>2
        <3> HIDE DEF Max
        <3> QED
            BY <2>4, <2>5, <3>1, <3>2
    <2>7. Max(S) + 1 < next
        BY <2>1, <2>4 DEF S
    <2> QED
        BY <2>5, <2>6, <2>7 DEF S
<1> QED
    BY <1>1, <1>2

-----------------------------------------------------------------------------
(* The two halves of the state: what is stored, and the operation.            *)

StoreTypeOK ==
    /\ log \subseteq Records /\ torn \subseteq {"log", "summary"}
    /\ summary \in Summaries
    /\ cache \in [loaded : BOOLEAN, records : SUBSET Records, summary : Summaries]
    /\ next \in 1..(MaxMessages + 1)

RunTypes == [pc : PCs, plain : SUBSET Records, digest : SUBSET Ids,
             kind : {"user", "text", "call"}, call : Ids \cup {0}, cancelled : BOOLEAN,
             target : Nat, writeFailed : BOOLEAN]

StoreInv == StoreTypeOK /\ Numbered /\ ResultsFollow /\ CacheFits /\ SummariesFit

RunInv == run \in RunTypes /\ LoadedFits /\ ProjectionFits /\ CallFits

LEMMA TwoHalves ==
    (ContextInv <=> StoreInv /\ RunInv) /\ (ContextInv' <=> StoreInv' /\ RunInv')
BY DEF ContextInv, StoreInv, RunInv, TypeOK, StoreTypeOK, RunTypes

\* What the proofs use of the fields of the stored messages.
LEMMA LogFields ==
    ASSUME StoreTypeOK
    PROVE  \A m \in log : m.seq \in Nat /\ m.id \in Ids /\ m.id # 0
BY DEF StoreTypeOK, Records, Ids

LEMMA SummaryFields ==
    ASSUME StoreTypeOK
    PROVE  /\ summary.covered \in Int /\ cache.summary.covered \in Int
           /\ cache.records \in SUBSET Records /\ cache.summary \in Summaries
BY DEF StoreTypeOK, Summaries

\* Nothing of the store changes.
LEMMA StoreStands ==
    ASSUME StoreInv, UNCHANGED <<durable, cache, next>>
    PROVE  StoreInv'
<1> USE DEF durable
<1>1. StoreTypeOK'
    BY DEF StoreInv, StoreTypeOK
<1>2. Numbered' /\ ResultsFollow'
    BY DEF StoreInv, Numbered, ResultsFollow, AnswerOf
<1>3. CacheFits'
    BY DEF StoreInv, CacheFits, CacheIsFaithful
<1>4. SummariesFit'
    BY DEF StoreInv, SummariesFit, Summarised, Covers
<1> QED
    BY <1>1, <1>2, <1>3, <1>4 DEF StoreInv

\* A record more, above and after all others, keeps what was said of the log. A result answers
\* the call that only results have followed.
LEMMA AppendKeeps ==
    ASSUME StoreInv, RunInv, cache.loaded,
           NEW kind \in {"user", "text", "call", "result"}, NEW of \in Ids \cup {0},
           AppendMessage(NewRecord(kind, of)),
           kind = "result" =>
               \E k \in log : /\ k.id = of /\ k.kind # "result"
                              /\ k.seq > cache.summary.covered
                              /\ \A n \in log : n.seq > k.seq => n.kind = "result"
    PROVE  StoreInv'
<1> DEFINE m == NewRecord(kind, of)
<1>1. TypeOK /\ Numbered
    BY TwoHalves DEF ContextInv, StoreInv
<1>2. NextSeq \in Nat /\ NextSeq < next /\ \A n \in log : n.seq < NextSeq
    BY <1>1, NextSeqIsNew
<1>3. /\ m.seq = NextSeq /\ m.id = next /\ m.kind = kind /\ m.of = of
      /\ m \in Records /\ next \in Ids
    BY <1>1, <1>2 DEF NewRecord, Records, TypeOK, AppendMessage, Ids
<1>4. /\ log' = log \cup {m} /\ next' = next + 1
      /\ cache' = [cache EXCEPT !.records = @ \cup {m}]
      /\ UNCHANGED <<torn, summary>>
    BY DEF AppendMessage
<1> HIDE DEF m
<1>5. StoreTypeOK /\ \A n \in log : n.seq \in Nat /\ n.id \in Ids /\ n.id # 0
    BY LogFields DEF StoreInv
<1>6. cache.records = log
    BY DEF StoreInv, CacheFits, CacheIsFaithful
<1>7. /\ cache'.loaded = cache.loaded /\ cache'.summary = cache.summary
      /\ cache'.records = log'
    BY <1>4, <1>5, <1>6 DEF StoreTypeOK
<1>8. StoreTypeOK'
    <2>1. next' \in 1..(MaxMessages + 1)
        BY <1>3, <1>4 DEF Ids
    <2>2. cache' \in [loaded : BOOLEAN, records : SUBSET Records, summary : Summaries]
        BY <1>3, <1>4, <1>5 DEF StoreTypeOK
    <2> QED
        BY <2>1, <2>2, <1>3, <1>4, <1>5 DEF StoreTypeOK
<1>9. Numbered'
    <2>1. \A n \in log' : n.seq < n.id /\ n.id < next'
        BY <1>1, <1>2, <1>3, <1>4, <1>5 DEF Numbered, Ids
    <2>2. \A n, o \in log' : n.seq = o.seq \/ n.id = o.id => n = o
        BY <1>1, <1>2, <1>3, <1>4, <1>5 DEF Numbered, Ids
    <2> QED
        BY <2>1, <2>2 DEF Numbered
<1>10. ResultsFollow'
    <2> SUFFICES ASSUME NEW r \in log', r.kind = "result"
                 PROVE  \E k \in log' : AnswerOf(k, r)'
        BY DEF ResultsFollow
    <2>1. CASE r \in log
        <3>1. PICK k \in log : AnswerOf(k, r)
            BY <2>1 DEF StoreInv, ResultsFollow
        <3>2. AnswerOf(k, r)'
            BY <2>1, <3>1, <1>2, <1>3, <1>4, <1>5 DEF AnswerOf
        <3> QED
            BY <3>1, <3>2, <1>4
    <2>2. CASE r = m
        <3>1. PICK k \in log : /\ k.id = of /\ k.kind # "result"
                               /\ \A n \in log : n.seq > k.seq => n.kind = "result"
            BY <2>2, <1>3
        <3>2. AnswerOf(k, r)'
            BY <2>2, <3>1, <1>2, <1>3, <1>4, <1>5 DEF AnswerOf
        <3> QED
            BY <3>1, <3>2, <1>4
    <2> QED
        BY <2>1, <2>2, <1>4
<1>11. CacheFits'
    BY <1>4, <1>7 DEF StoreInv, CacheFits, CacheIsFaithful
<1>12. ASSUME NEW s \in Summaries, Summarised(s, log),
              kind = "result" => \E k \in log : k.id = of /\ k.seq > s.covered
       PROVE  Summarised(s, log')
    <2>1. s.covered < NextSeq /\ s.covered \in Int
        BY <1>2, <1>12, <1>5 DEF Summarised, Summaries, NoSummary
    <2>2. {n \in log' : n.seq <= s.covered} = {n \in log : n.seq <= s.covered}
        BY <2>1, <1>2, <1>3, <1>4
    <2>3. ASSUME NEW r \in log', r.kind = "result", r.seq > s.covered
          PROVE  \E k \in log' : k.id = r.of /\ k.seq > s.covered
        BY <2>3, <1>12, <1>3, <1>4 DEF Summarised
    <2> QED
        BY <2>2, <2>3, <1>12, <1>4 DEF Summarised, Covers
<1>13. SummariesFit'
    <2>1. Summarised(cache.summary, log')
        BY <1>12, <1>6, <1>5, SummaryFields DEF StoreInv, SummariesFit
    <2>2. summary.covered <= cache.summary.covered
        BY <1>5, SummaryFields
        DEF StoreInv, CacheFits, CacheIsFaithful, NoSummary, Summaries
    <2>3. Summarised(summary, log')
        BY <2>2, <1>12, <1>5, SummaryFields DEF StoreInv, SummariesFit, StoreTypeOK
    <2> QED
        BY <2>1, <2>3, <1>4, <1>7 DEF SummariesFit
<1> QED
    BY <1>8, <1>9, <1>10, <1>11, <1>13 DEF StoreInv

\* A summary of the log is saved, on disk and in the copy.
LEMMA SaveKeeps ==
    ASSUME StoreInv, cache.loaded, NEW s \in Summaries, Summarised(s, log), Save(s)
    PROVE  StoreInv'
<1>1. StoreTypeOK /\ cache.records = log
    BY DEF StoreInv, CacheFits, CacheIsFaithful
<1>2. /\ summary' = s /\ torn' = torn \ {"summary"} /\ UNCHANGED <<log, next>>
      /\ cache'.loaded /\ cache'.records = log' /\ cache'.summary = s
    BY <1>1 DEF Save, StoreTypeOK
<1>3. StoreTypeOK'
    BY <1>1, <1>2 DEF StoreTypeOK, Save
<1>4. Numbered' /\ ResultsFollow'
    BY <1>2 DEF StoreInv, Numbered, ResultsFollow, AnswerOf
<1>5. CacheFits'
    BY <1>2 DEF CacheFits, CacheIsFaithful
<1>6. SummariesFit'
    BY <1>2 DEF SummariesFit
<1> QED
    BY <1>3, <1>4, <1>5, <1>6 DEF StoreInv

LEMMA NoSummaryFits ==
    ASSUME StoreInv
    PROVE  NoSummary \in Summaries /\ Summarised(NoSummary, log)
<1>1. NoSummary \in Summaries /\ NoSummary.covered = -1 /\ NoSummary.of = {} /\ ~NoSummary.valid
    BY DEF NoSummary, Summaries
<1>2. \A m \in log : m.seq \in Nat /\ m.seq > NoSummary.covered
    BY <1>1, LogFields DEF StoreInv
<1>3. \A m \in log : m.kind = "result" => \E k \in log : k.id = m.of
    BY DEF StoreInv, ResultsFollow, AnswerOf
<1> QED
    BY <1>1, <1>2, <1>3 DEF Summarised, Covers, IdsOf

\* A write that fails leaves the store as it was, or the summary empty and torn.
LEMMA SaveFailsKeeps ==
    ASSUME StoreInv, SaveFails
    PROVE  StoreInv'
<1>1. StoreTypeOK /\ UNCHANGED <<log, cache, next>>
    BY DEF StoreInv, SaveFails
<1>2. CASE UNCHANGED <<torn, summary>>
    BY <1>1, <1>2, StoreStands DEF durable
<1>3. CASE torn' = torn \cup {"summary"} /\ summary' = NoSummary
    <2>1. StoreTypeOK'
        BY <1>1, <1>3, NoSummaryFits DEF StoreTypeOK
    <2>2. Numbered' /\ ResultsFollow'
        BY <1>1 DEF StoreInv, Numbered, ResultsFollow, AnswerOf
    <2>3. CacheFits'
        BY <1>1, <1>3 DEF StoreInv, CacheFits, CacheIsFaithful
    <2>4. SummariesFit'
        BY <1>1, <1>3, NoSummaryFits DEF StoreInv, SummariesFit
    <2> QED
        BY <2>1, <2>2, <2>3, <2>4 DEF StoreInv
<1> QED
    BY <1>2, <1>3 DEF SaveFails

LEMMA AppendFailsKeeps ==
    ASSUME StoreInv, AppendFails
    PROVE  StoreInv'
<1>1. StoreTypeOK /\ UNCHANGED <<log, summary, cache, next>>
    BY DEF StoreInv, AppendFails
<1>2. torn' \subseteq {"log", "summary"} /\ ("summary" \in torn' <=> "summary" \in torn)
    BY <1>1 DEF StoreTypeOK, AppendFails
<1>3. StoreTypeOK'
    BY <1>1, <1>2 DEF StoreTypeOK
<1>4. Numbered' /\ ResultsFollow'
    BY <1>1 DEF StoreInv, Numbered, ResultsFollow, AnswerOf
<1>5. CacheFits'
    BY <1>1, <1>2 DEF StoreInv, CacheFits, CacheIsFaithful
<1>6. SummariesFit'
    BY <1>1 DEF StoreInv, SummariesFit, Summarised, Covers
<1> QED
    BY <1>3, <1>4, <1>5, <1>6 DEF StoreInv

-----------------------------------------------------------------------------
(* Cuts and summaries.                                                        *)

\* A cut leaves a result behind it together with its call: the message after the cut is no
\* result, and only results stand between the two.
LEMMA CutKeepsCalls ==
    ASSUME StoreInv, NEW S \in SUBSET log, NEW c \in Cuts(S),
           NEW m \in log, m.kind = "result", m.seq > c.seq,
           m \in S \/ \A n \in S : n.seq <= m.seq,
           NEW k \in log, AnswerOf(k, m)
    PROVE  k.seq > c.seq
<1>1. StoreTypeOK /\ \A n \in log : n.seq \in Nat
    BY LogFields DEF StoreInv
<1>2. PICK n \in After(S, c.seq) :
          n.kind # "result" /\ \A o \in After(S, c.seq) : n.seq <= o.seq
    BY DEF Cuts
<1>3. n \in S /\ n.seq > c.seq /\ c \in S
    BY DEF After, Cuts
<1>4. n.seq <= m.seq
    BY <1>2, <1>3 DEF After
<1>5. n.seq < m.seq
    BY <1>1, <1>2, <1>3, <1>4 DEF StoreInv, Numbered
<1>6. ~(k.seq < n.seq)
    BY <1>2, <1>3, <1>5 DEF AnswerOf
<1> QED
    BY <1>1, <1>3, <1>6

\* The ids of the messages up to a later number are those up to an earlier one and those
\* between the two.
LEMMA IdsUpTo ==
    ASSUME StoreTypeOK, NEW a \in Int, NEW b \in Int, a <= b
    PROVE  IdsOf({m \in log : m.seq <= b}) =
             IdsOf({m \in log : m.seq <= a}) \cup IdsOf({m \in After(log, a) : m.seq <= b})
<1>1. \A m \in log : m.seq \in Nat
    BY LogFields
<1>2. {m \in log : m.seq <= b} =
          {m \in log : m.seq <= a} \cup {m \in After(log, a) : m.seq <= b}
    BY <1>1 DEF After
<1> QED
    BY <1>2 DEF IdsOf

\* Results behind c have their calls behind it.
CallsStayBehind(c) ==
    \A m, k \in log : m.kind = "result" /\ m.seq > c.seq /\ AnswerOf(k, m) => k.seq > c.seq

\* What a compaction saves is a summary of the log, if results behind it keep their calls.
LEMMA SummaryUntilFits ==
    ASSUME StoreInv, cache.loaded, NEW c \in log, cache.summary.covered <= c.seq, CallsStayBehind(c)
    PROVE  SummaryUntil(c) \in Summaries /\ Summarised(SummaryUntil(c), log)
<1> DEFINE s == SummaryUntil(c)
<1>1. /\ StoreTypeOK /\ cache.records = log
      /\ cache.summary \in Summaries /\ cache.summary.covered \in Int
    BY SummaryFields DEF StoreInv, CacheFits, CacheIsFaithful
<1>2. \A m \in log : m.seq \in Nat /\ m.id \in Ids
    BY <1>1, LogFields
<1>3. /\ s.valid = TRUE /\ s.covered = c.seq
      /\ s.of = cache.summary.of \cup
                IdsOf({m \in After(log, cache.summary.covered) : m.seq <= c.seq})
    BY <1>1 DEF SummaryUntil
<1>4. s = [valid |-> s.valid, covered |-> s.covered, of |-> s.of]
    BY DEF SummaryUntil
<1> HIDE DEF s
<1>5. s \in Summaries
    <2>1. IdsOf({m \in After(log, cache.summary.covered) : m.seq <= c.seq}) \subseteq Ids
        BY <1>2 DEF IdsOf, After
    <2>2. s.of \subseteq Ids /\ s.covered \in Nat
        BY <2>1, <1>1, <1>2, <1>3 DEF Summaries
    <2> QED
        BY <2>2, <1>3, <1>4 DEF Summaries
<1>6. cache.summary.of = IdsOf({m \in log : m.seq <= cache.summary.covered})
    BY <1>1 DEF StoreInv, SummariesFit, Summarised, Covers
<1>7. Covers(s, log)
    <2>1. c.seq \in Int
        BY <1>2
    <2>2. IdsOf({m \in log : m.seq <= c.seq}) =
              IdsOf({m \in log : m.seq <= cache.summary.covered}) \cup
              IdsOf({m \in After(log, cache.summary.covered) : m.seq <= c.seq})
        BY <2>1, <1>1, IdsUpTo
    <2> QED
        BY <2>2, <1>3, <1>6 DEF Covers
<1>8. ASSUME NEW m \in log, m.kind = "result", m.seq > s.covered
      PROVE  \E k \in log : k.id = m.of /\ k.seq > s.covered
    <2>1. PICK k \in log : AnswerOf(k, m)
        BY <1>8 DEF StoreInv, ResultsFollow
    <2>2. k.id = m.of /\ k.seq > c.seq
        BY <2>1, <1>3, <1>8 DEF AnswerOf, CallsStayBehind
    <2> QED
        BY <2>2, <1>3
<1>9. Summarised(s, log)
    BY <1>3, <1>7, <1>8 DEF Summarised
<1> QED
    BY <1>5, <1>9 DEF s

LEMMA CompactionFits ==
    ASSUME StoreInv, cache.loaded, NEW c \in Cuts(History)
    PROVE  SummaryUntil(c) \in Summaries /\ Summarised(SummaryUntil(c), log)
<1>1. StoreTypeOK /\ cache.records = log /\ cache.summary.covered \in Int
    BY SummaryFields DEF StoreInv, CacheFits, CacheIsFaithful
<1>2. \A m \in log : m.seq \in Nat
    BY <1>1, LogFields
<1>3. History \in SUBSET log /\ c \in History /\ c.seq > cache.summary.covered
    BY <1>1 DEF History, After, Cuts
<1>4. ASSUME NEW m \in log, NEW k \in log, m.kind = "result", m.seq > c.seq, AnswerOf(k, m)
      PROVE  k.seq > c.seq
    <2>1. m \in History \/ \A n \in History : n.seq <= m.seq
        BY <1>1, <1>2, <1>3, <1>4 DEF History, After
    <2> QED
        BY <1>3, <1>4, <2>1, CutKeepsCalls
<1>5. CallsStayBehind(c)
    BY <1>4 DEF CallsStayBehind
<1>6. c \in log /\ cache.summary.covered <= c.seq
    BY <1>1, <1>2, <1>3
<1> QED
    BY <1>5, <1>6, SummaryUntilFits

LEMMA ManualFits ==
    ASSUME StoreInv, cache.loaded, NEW c \in cache.records, After(cache.records, c.seq) = {}
    PROVE  SummaryUntil(c) \in Summaries /\ Summarised(SummaryUntil(c), log)
<1>1. /\ StoreTypeOK /\ cache.records = log /\ cache.summary.covered \in Int
      /\ cache.summary \in Summaries
    BY SummaryFields DEF StoreInv, CacheFits, CacheIsFaithful
<1>2. \A m \in log : m.seq \in Nat /\ m.seq <= c.seq
    BY <1>1, LogFields DEF After
<1>3. cache.summary.covered <= c.seq
    BY <1>1, <1>2 DEF StoreInv, SummariesFit, Summarised, NoSummary
<1>4. CallsStayBehind(c)
    BY <1>1, <1>2 DEF CallsStayBehind
<1> QED
    BY <1>1, <1>3, <1>4, SummaryUntilFits

-----------------------------------------------------------------------------
(* The operation.                                                             *)

LEMMA NothingShown ==
    ASSUME run' \in RunTypes, run'.pc \in {"idle", "initialize", "compact", "rewind"}
    PROVE  RunInv'
BY DEF RunInv, LoadedFits, ProjectionFits, CallFits, Projecting, Answering, Runs, PCs

LEMMA Aborted ==
    ASSUME RunInv, Abort \/ AbortWrite
    PROVE  RunInv'
<1>1. run' \in RunTypes /\ run'.pc = "idle"
    BY DEF RunInv, RunTypes, Abort, AbortWrite, PCs
<1> QED
    BY <1>1, NothingShown

\* The run goes on with the projection it has.
LEMMA ProjectionStands ==
    ASSUME RunInv, UNCHANGED <<log, cache>>, run.pc \in Projecting,
           run' \in RunTypes, run'.pc \in Projecting,
           run'.plain = run.plain, run'.digest = run.digest, run'.call = run.call,
           run'.pc \in Answering => run.pc \in Answering
    PROVE  RunInv'
<1>1. LoadedFits'
    BY DEF RunInv, LoadedFits, Projecting, Runs
<1>2. ProjectionFits'
    BY DEF RunInv, ProjectionFits
<1>3. CallFits'
    BY DEF RunInv, CallFits
<1> QED
    BY <1>1, <1>2, <1>3 DEF RunInv

\* The projection is made anew from what is stored.
LEMMA ProjectedFits ==
    ASSUME StoreInv', cache'.loaded, run' \in RunTypes, run'.pc \in Projecting \ Answering,
           run'.plain = After(log', cache'.summary.covered), run'.digest = cache'.summary.of
    PROVE  RunInv'
<1>1. StoreTypeOK' /\ cache'.records = log' /\ cache'.summary.covered \in Int
    BY DEF StoreInv, CacheFits, CacheIsFaithful, StoreTypeOK, Summaries
<1>2. \A m \in log' : m.seq \in Nat
    BY <1>1 DEF StoreTypeOK, Records
<1>3. run'.digest = IdsOf({m \in log' : m.seq <= cache'.summary.covered})
    BY <1>1 DEF StoreInv, SummariesFit, Summarised, Covers
<1>4. log' = {m \in log' : m.seq <= cache'.summary.covered} \cup run'.plain
    BY <1>1, <1>2 DEF After
<1>5. run'.digest \cup IdsOf(run'.plain) = IdsOf(log')
    BY <1>3, <1>4 DEF IdsOf
<1>6. run'.digest \cap IdsOf(run'.plain) = {}
    BY <1>1, <1>2, <1>3 DEF IdsOf, After, StoreInv, Numbered
<1>7. ASSUME NEW m \in run'.plain, m.kind = "result"
      PROVE  m.of \in IdsOf(run'.plain)
    <2>1. m \in log' /\ m.seq > cache'.summary.covered
        BY <1>7 DEF After
    <2>2. PICK k \in log' : k.id = m.of /\ k.seq > cache'.summary.covered
        BY <2>1, <1>1, <1>7 DEF StoreInv, SummariesFit, Summarised
    <2> QED
        BY <2>2 DEF After, IdsOf
<1>8. ProjectionFits'
    BY <1>5, <1>6, <1>7 DEF ProjectionFits
<1>9. LoadedFits' /\ CallFits'
    BY DEF LoadedFits, CallFits, Projecting, Runs
<1> QED
    BY <1>8, <1>9 DEF RunInv

\* doCompact moves messages of the projection into its digest.
LEMMA LocalCompactFits ==
    ASSUME StoreInv, RunInv, run.pc \in Projecting, UNCHANGED <<log, cache>>,
           NEW label \in {"invoke", "retry"}, LocalCompact(label)
    PROVE  RunInv'
<1>1. PICK c \in Cuts(run.plain), anchor \in SUBSET FirstUser(run.plain) :
          LET old == {m \in run.plain : m.seq <= c.seq} \ anchor
          IN  run' = [run EXCEPT !.pc = label, !.plain = @ \ old,
                                 !.digest = @ \cup IdsOf(old)]
    BY DEF LocalCompact
<1> DEFINE old == {m \in run.plain : m.seq <= c.seq} \ anchor
<1>2. StoreTypeOK /\ run.plain \subseteq log /\ run \in RunTypes
    BY DEF StoreInv, RunInv, ProjectionFits, After
<1>3. \A m \in log : m.seq \in Nat /\ m.id \in Ids
    BY <1>2, LogFields
<1>4. /\ run'.pc = label /\ run'.plain = run.plain \ old
      /\ run'.digest = run.digest \cup IdsOf(old)
    BY <1>1, <1>2 DEF RunTypes
<1>5. old \subseteq run.plain /\ c \in run.plain
    BY DEF Cuts
<1>6. run' \in RunTypes
    <2>1. IdsOf(old) \subseteq Ids
        BY <1>2, <1>3, <1>5 DEF IdsOf
    <2>2. label \in PCs
        BY DEF PCs
    <2> HIDE DEF old
    <2>3. run' = [run EXCEPT !.pc = label, !.plain = @ \ old, !.digest = @ \cup IdsOf(old)]
        BY <1>1 DEF old
    <2> QED
        BY <2>1, <2>2, <2>3, <1>2 DEF RunTypes
<1>7. run'.digest \cup IdsOf(run'.plain) = IdsOf(log')
    <2>1. IdsOf(run.plain) = IdsOf(old) \cup IdsOf(run.plain \ old)
        BY <1>5 DEF IdsOf
    <2> HIDE DEF old
    <2> QED
        BY <2>1, <1>4 DEF RunInv, ProjectionFits
<1>8. run'.digest \cap IdsOf(run'.plain) = {}
    <2>1. IdsOf(old) \cap IdsOf(run.plain \ old) = {}
        BY <1>2, <1>5 DEF IdsOf, StoreInv, Numbered
    <2>2. IdsOf(run.plain \ old) \subseteq IdsOf(run.plain)
        BY DEF IdsOf
    <2> HIDE DEF old
    <2> QED
        BY <2>1, <2>2, <1>4 DEF RunInv, ProjectionFits
<1>9. ASSUME NEW m \in run'.plain, m.kind = "result"
      PROVE  m.of \in IdsOf(run'.plain)
    <2>1. m \in run.plain /\ m \in log /\ m.seq > c.seq
        BY <1>2, <1>3, <1>4, <1>5, <1>9 DEF FirstUser
    <2>2. PICK k \in log : AnswerOf(k, m)
        BY <2>1, <1>9 DEF StoreInv, ResultsFollow
    <2>3. k.seq > c.seq
        BY <2>1, <2>2, <1>2, <1>9, CutKeepsCalls
    <2>4. k \in run.plain
        <3>1. m.of \in IdsOf(run.plain)
            BY <2>1, <1>9 DEF RunInv, ProjectionFits
        <3>2. PICK o \in run.plain : o.id = m.of
            BY <3>1 DEF IdsOf
        <3> QED
            BY <3>2, <2>2, <1>2 DEF AnswerOf, StoreInv, Numbered
    <2>5. k \in run'.plain
        BY <2>3, <2>4, <1>2, <1>3, <1>4, <1>5
    <2> QED
        BY <2>2, <2>5 DEF AnswerOf, IdsOf
<1>10. ProjectionFits'
    <2>1. run'.plain \subseteq After(log', cache'.summary.covered)
        BY <1>4 DEF RunInv, ProjectionFits
    <2> QED
        BY <2>1, <1>7, <1>8, <1>9 DEF ProjectionFits
<1>11. LoadedFits' /\ CallFits'
    BY <1>4 DEF RunInv, LoadedFits, CallFits, Projecting, Runs, Answering
<1> QED
    BY <1>6, <1>10, <1>11 DEF RunInv

-----------------------------------------------------------------------------
(* The actions.                                                               *)

LEMMA InitContext == ASSUME Init PROVE ContextInv
<1>1. NoSummary \in Summaries /\ Empty.summary = NoSummary /\ Empty.records = {}
      /\ Empty \in [loaded : BOOLEAN, records : SUBSET Records, summary : Summaries]
    BY DEF NoSummary, Summaries, Empty
<1>2. StoreTypeOK
    BY <1>1 DEF Init, StoreTypeOK
<1>3. Numbered /\ ResultsFollow /\ CacheFits
    BY DEF Init, Numbered, ResultsFollow, CacheFits, CacheIsFaithful, Empty
<1>4. SummariesFit
    BY <1>1 DEF Init, SummariesFit, Summarised, Covers, IdsOf, NoSummary
<1>5. StoreInv
    BY <1>2, <1>3, <1>4 DEF StoreInv
<1>6. run \in RunTypes /\ run.pc = "idle"
    BY DEF Init, Idle, RunTypes, PCs
<1>7. RunInv
    BY <1>6 DEF RunInv, LoadedFits, ProjectionFits, CallFits, Projecting, Answering, Runs
<1> QED
    BY <1>5, <1>7, TwoHalves

LEMMA LoadPreserves == ASSUME StoreInv, RunInv, Load PROVE StoreInv' /\ RunInv'
<1>1. /\ StoreTypeOK /\ run \in RunTypes
      /\ log' = log /\ torn' = {} /\ torn = {} /\ summary' = summary
      /\ run' = run /\ next' = next
      /\ cache' = [loaded |-> TRUE, records |-> log, summary |-> summary]
    BY DEF Load, StoreInv, RunInv, durable
<1>2. StoreTypeOK'
    BY <1>1 DEF StoreTypeOK
<1>3. Numbered' /\ ResultsFollow'
    BY <1>1 DEF StoreInv, Numbered, ResultsFollow, AnswerOf
<1>4. CacheFits' /\ SummariesFit'
    BY <1>1 DEF StoreInv, CacheFits, CacheIsFaithful, SummariesFit, Summarised, Covers
<1>5. RunInv'
    BY <1>1, NothingShown DEF Load
<1> QED
    BY <1>2, <1>3, <1>4, <1>5 DEF StoreInv

LEMMA CrashPreserves == ASSUME StoreInv, RunInv, Crash PROVE StoreInv' /\ RunInv'
<1>1. /\ StoreTypeOK
      /\ log' = log /\ torn' = torn /\ summary' = summary /\ next' = next
      /\ run' = Idle /\ cache' = Empty
    BY DEF Crash, StoreInv, durable
<1>2. NoSummary \in Summaries /\ Empty.summary = NoSummary /\ Empty.records = {}
      /\ Empty \in [loaded : BOOLEAN, records : SUBSET Records, summary : Summaries]
    BY DEF NoSummary, Summaries, Empty
<1>3. StoreTypeOK'
    BY <1>1, <1>2 DEF StoreTypeOK
<1>4. Numbered' /\ ResultsFollow'
    BY <1>1 DEF StoreInv, Numbered, ResultsFollow, AnswerOf
<1>5. CacheFits'
    BY <1>1 DEF StoreInv, CacheFits, CacheIsFaithful, Empty
<1>6. Summarised(NoSummary, {})
    BY DEF Summarised, Covers, IdsOf, NoSummary
<1>7. SummariesFit'
    BY <1>1, <1>2, <1>6 DEF StoreInv, SummariesFit, Summarised, Covers
<1>8. run' \in RunTypes /\ run'.pc = "idle"
    BY <1>1 DEF Idle, RunTypes, PCs
<1> QED
    BY <1>3, <1>4, <1>5, <1>7, <1>8, NothingShown DEF StoreInv

\* Beginnings and failures that leave the store alone.
LEMMA QuietPreserves ==
    ASSUME StoreInv, RunInv,
           \/ LoadFails \/ BeginRun \/ RunFails \/ BeginCompact \/ BeginRewind \/ TruncateFails
    PROVE  StoreInv' /\ RunInv'
<1>1. UNCHANGED <<durable, cache, next>>
    BY DEF LoadFails, BeginRun, RunFails, BeginCompact, BeginRewind, TruncateFails
<1>2. StoreInv'
    BY <1>1, StoreStands
<1>3. CASE Abort
    BY <1>2, <1>3, Aborted
<1>4. CASE run' \in {[Idle EXCEPT !.pc = "initialize"], [Idle EXCEPT !.pc = "compact"]}
    <2>1. PICK label \in {"initialize", "compact"} : run' = [Idle EXCEPT !.pc = label]
        BY <1>4
    <2>2. run' \in RunTypes /\ run'.pc = label
        BY <2>1 DEF Idle, RunTypes, PCs
    <2> QED
        BY <2>2, <1>2, NothingShown
<1>5. CASE \E m \in log : run' = [Idle EXCEPT !.pc = "rewind", !.target = m.seq]
    <2>1. PICK m \in log : run' = [Idle EXCEPT !.pc = "rewind", !.target = m.seq]
        BY <1>5
    <2>2. m.seq \in Nat
        BY LogFields DEF StoreInv
    <2>3. run' \in RunTypes /\ run'.pc = "rewind"
        BY <2>1, <2>2 DEF Idle, RunTypes, PCs
    <2> QED
        BY <2>3, <1>2, NothingShown
<1> QED
    BY <1>3, <1>4, <1>5 DEF LoadFails, BeginRun, RunFails, BeginCompact, BeginRewind, TruncateFails

\* The steps of a run that neither write nor compact.
LEMMA StagePreserves ==
    ASSUME StoreInv, RunInv,
           \/ KeepHistory \/ (\E kind \in {"text", "call"} : ModelAnswers(kind))
           \/ Answered \/ ExecuteTools \/ RequestResults
    PROVE  StoreInv' /\ RunInv'
<1>1. UNCHANGED <<durable, cache, next>> /\ log' = log /\ cache' = cache
    BY DEF KeepHistory, ModelAnswers, Answered, ExecuteTools, RequestResults, durable
<1>2. StoreInv'
    BY <1>1, StoreStands
<1>3. CASE Abort \/ Goto("idle")
    BY <1>2, <1>3, Aborted DEF Abort, Goto
<1>4. CASE run.pc \in {"history", "answered"} /\ Goto("preturn")
    <2>1. run' \in RunTypes /\ run'.pc = "preturn" /\ run'.plain = run.plain
          /\ run'.digest = run.digest /\ run'.call = run.call
        BY <1>4 DEF Goto, RunInv, RunTypes, PCs
    <2> QED
        BY <2>1, <1>1, <1>2, <1>4, ProjectionStands DEF Projecting, Answering, Runs, PCs
<1>5. CASE \/ run.pc = "executing" /\ Goto("results")
           \/ run.pc = "results" /\ Goto("committing")
    <2>1. run' \in RunTypes /\ run'.pc \in {"results", "committing"} /\ run'.plain = run.plain
          /\ run'.digest = run.digest /\ run'.call = run.call
        BY <1>5 DEF Goto, RunInv, RunTypes, PCs
    <2> QED
        BY <2>1, <1>1, <1>2, <1>5, ProjectionStands DEF Projecting, Answering, Runs, PCs
<1>6. ASSUME NEW kind \in {"text", "call"}, ModelAnswers(kind)
      PROVE  RunInv'
    <2>1. run' \in RunTypes /\ run'.pc = "commit" /\ run'.plain = run.plain
          /\ run'.digest = run.digest /\ run'.call = run.call
        BY <1>6 DEF ModelAnswers, RunInv, RunTypes, PCs
    <2> QED
        BY <2>1, <1>1, <1>6, ProjectionStands
        DEF ModelAnswers, Projecting, Answering, Runs, PCs
<1>7. CASE RequestResults
    BY <1>2, <1>3, <1>5, <1>7 DEF RequestResults
<1>8. CASE KeepHistory
    BY <1>2, <1>4, <1>8 DEF KeepHistory
<1>9. CASE Answered
    BY <1>2, <1>3, <1>4, <1>9 DEF Answered
<1>10. CASE ExecuteTools
    BY <1>2, <1>5, <1>10 DEF ExecuteTools
<1> QED
    BY <1>2, <1>6, <1>7, <1>8, <1>9, <1>10

LEMMA CancelPreserves == ASSUME StoreInv, RunInv, Cancel PROVE StoreInv' /\ RunInv'
<1>1. UNCHANGED <<durable, cache, next>> /\ log' = log /\ cache' = cache
    BY DEF Cancel, durable
<1>2. run' \in RunTypes /\ run'.pc = run.pc /\ run'.plain = run.plain
      /\ run'.digest = run.digest /\ run'.call = run.call
    BY DEF Cancel, RunInv, RunTypes
<1>3. CASE run.pc \in Projecting
    BY <1>1, <1>2, <1>3, StoreStands, ProjectionStands
<1>4. CASE run.pc = "initialize"
    BY <1>1, <1>2, <1>4, StoreStands, NothingShown
<1> QED
    BY <1>3, <1>4 DEF Cancel, Projecting

LEMMA TurnPreserves ==
    ASSUME StoreInv, RunInv, PreTurn \/ PromptTooLong
    PROVE  StoreInv' /\ RunInv'
<1>1. UNCHANGED <<durable, cache, next>> /\ log' = log /\ cache' = cache
      /\ run.pc \in Projecting
    BY DEF PreTurn, PromptTooLong, durable, Projecting, Runs, PCs
<1>2. StoreInv'
    BY <1>1, StoreStands
<1>3. CASE LocalCompact("invoke") \/ LocalCompact("retry")
    BY <1>1, <1>2, <1>3, LocalCompactFits
<1>4. CASE Goto("invoke")
    <2>1. run' \in RunTypes /\ run'.pc = "invoke" /\ run'.plain = run.plain
          /\ run'.digest = run.digest /\ run'.call = run.call
        BY <1>4 DEF Goto, RunInv, RunTypes, PCs
    <2> QED
        BY <2>1, <1>1, <1>2, ProjectionStands DEF Projecting, Answering, Runs, PCs
<1> QED
    BY <1>3, <1>4 DEF PreTurn, PromptTooLong

\* A write that fails ends the operation.
LEMMA FailurePreserves ==
    ASSUME StoreInv, RunInv, WriteFails \/ CompactHistoryFails \/ RewindSummaryFails
    PROVE  StoreInv' /\ RunInv'
<1>1. CASE AppendFails
    <2>1. AbortWrite
        BY <1>1 DEF AppendFails
    <2> QED
        BY <2>1, <1>1, AppendFailsKeeps, Aborted
<1>2. CASE SaveFails
    <2>1. AbortWrite
        BY <1>2 DEF SaveFails
    <2> QED
        BY <2>1, <1>2, SaveFailsKeeps, Aborted
<1> QED
    BY <1>1, <1>2 DEF WriteFails, CompactHistoryFails, RewindSummaryFails

LEMMA InitializePreserves == ASSUME StoreInv, RunInv, Initialize PROVE StoreInv' /\ RunInv'
<1> DEFINE m == NewRecord("user", 0)
<1>1. cache.loaded /\ AppendMessage(m)
      /\ run' = [Projected(cache.records \cup {m}, cache.summary) EXCEPT !.pc = "history"]
    BY DEF Initialize
<1>2. StoreInv'
    BY <1>1, AppendKeeps
<1>3. StoreTypeOK /\ cache.records = log /\ run \in RunTypes /\ StoreTypeOK'
    BY <1>1, <1>2 DEF StoreInv, RunInv, CacheFits, CacheIsFaithful
<1>4. log' = log \cup {m} /\ cache'.summary = cache.summary /\ cache'.loaded
    BY <1>1, <1>3 DEF AppendMessage, StoreTypeOK
<1> HIDE DEF m
<1>5. /\ run'.pc = "history" /\ run'.plain = After(log', cache'.summary.covered)
      /\ run'.digest = cache'.summary.of
    BY <1>1, <1>3, <1>4 DEF Projected, RunTypes
<1>6. run' \in RunTypes
    <2>1. After(log', cache'.summary.covered) \subseteq Records /\ cache'.summary.of \subseteq Ids
        BY <1>3 DEF StoreTypeOK, After, Summaries
    <2>2. run' = [run EXCEPT !.plain = After(log', cache'.summary.covered),
                             !.digest = cache'.summary.of, !.pc = "history"]
        BY <1>1, <1>3, <1>4 DEF Projected
    <2> QED
        BY <2>1, <2>2, <1>3 DEF RunTypes, PCs
<1>7. run'.pc \in Projecting \ Answering
    BY <1>5 DEF Projecting, Answering, Runs, PCs
<1> QED
    BY <1>2, <1>4, <1>5, <1>6, <1>7, ProjectedFits

LEMMA CompactHistoryPreserves ==
    ASSUME StoreInv, RunInv, NEW c \in Cuts(History), CompactHistory(c)
    PROVE  StoreInv' /\ RunInv'
<1> DEFINE s == SummaryUntil(c)
<1>1. cache.loaded
    BY DEF CompactHistory, RunInv, LoadedFits, Projecting, Runs, PCs
<1>2. s \in Summaries /\ Summarised(s, log)
    BY <1>1, CompactionFits
<1>3. Save(s) /\ run' = [Projected(cache.records, s) EXCEPT !.pc = "preturn"]
    BY DEF CompactHistory
<1> HIDE DEF s
<1>4. StoreInv'
    BY <1>1, <1>2, <1>3, SaveKeeps
<1>5. StoreTypeOK /\ cache.records = log /\ run \in RunTypes /\ StoreTypeOK'
    BY <1>1, <1>4 DEF StoreInv, RunInv, CacheFits, CacheIsFaithful
<1>6. log' = log /\ cache'.summary = s /\ cache'.loaded
    BY <1>1, <1>3, <1>5 DEF Save, StoreTypeOK
<1>7. /\ run'.pc = "preturn" /\ run'.plain = After(log', cache'.summary.covered)
      /\ run'.digest = cache'.summary.of
    BY <1>3, <1>5, <1>6 DEF Projected, RunTypes
<1>8. run' \in RunTypes
    <2>1. After(log', cache'.summary.covered) \subseteq Records /\ cache'.summary.of \subseteq Ids
        BY <1>5 DEF StoreTypeOK, After, Summaries
    <2>2. run' = [run EXCEPT !.plain = After(log', cache'.summary.covered),
                             !.digest = cache'.summary.of, !.pc = "preturn"]
        BY <1>3, <1>5, <1>6 DEF Projected
    <2> QED
        BY <2>1, <2>2, <1>5 DEF RunTypes, PCs
<1>9. run'.pc \in Projecting \ Answering
    BY <1>7 DEF Projecting, Answering, Runs, PCs
<1> QED
    BY <1>4, <1>6, <1>7, <1>8, <1>9, ProjectedFits

\* m is new, above the summary and above all other messages, and was added to them.
Appended(m) ==
    /\ m \in Records /\ m.id = next /\ next \in Ids
    /\ m.seq > cache.summary.covered
    /\ \A n \in log : n.seq < m.seq /\ n.id # m.id
    /\ log' = log \cup {m}
    /\ cache'.loaded = cache.loaded /\ cache'.summary = cache.summary

LEMMA AppendedIsNew ==
    ASSUME StoreInv, RunInv, cache.loaded,
           NEW kind \in {"user", "text", "call", "result"}, NEW of \in Ids \cup {0},
           NEW m, m = NewRecord(kind, of), AppendMessage(m)
    PROVE  Appended(m) /\ m.kind = kind /\ m.of = of
<1>1. TypeOK /\ Numbered /\ StoreTypeOK /\ cache.records = log
    BY TwoHalves DEF ContextInv, StoreInv, CacheFits, CacheIsFaithful
<1>2. NextSeq \in Nat /\ NextSeq < next /\ \A n \in log : n.seq < NextSeq
    BY <1>1, NextSeqIsNew
<1>3. /\ m.seq = NextSeq /\ m.id = next /\ m.kind = kind /\ m.of = of
      /\ m \in Records /\ next \in Ids
    BY <1>1, <1>2 DEF NewRecord, Records, TypeOK, AppendMessage, Ids
<1>4. /\ log' = log \cup {m} /\ cache'.loaded = cache.loaded
      /\ cache'.summary = cache.summary
    BY <1>1 DEF AppendMessage, StoreTypeOK
<1>5. \A n \in log : n.seq < m.seq /\ n.id # m.id
    BY <1>1, <1>2, <1>3, LogFields DEF Numbered, Ids
<1>6. m.seq > cache.summary.covered
    <2>1. cache.summary.covered \in Int /\ cache.summary \in Summaries
        BY <1>1, SummaryFields
    <2>2. \A n \in log : n.seq \in Nat
        BY <1>1, LogFields
    <2> QED
        BY <1>1, <1>2, <1>3, <2>1, <2>2
        DEF StoreInv, SummariesFit, Summarised, NoSummary, Summaries
<1> QED
    BY <1>3, <1>4, <1>5, <1>6 DEF Appended

\* The projection with the appended record.
LEMMA ProjectionGrows ==
    ASSUME StoreInv, RunInv, cache.loaded, run.pc \in Projecting,
           NEW kind \in {"user", "text", "call", "result"}, NEW of \in Ids \cup {0},
           NEW m, m = NewRecord(kind, of), AppendMessage(m),
           kind = "result" => of \in IdsOf(run.plain),
           run' \in RunTypes, run'.plain = run.plain \cup {m}, run'.digest = run.digest
    PROVE  ProjectionFits'
<1>1. /\ m \in Records /\ m.id = next /\ m.kind = kind /\ m.of = of /\ next \in Ids
      /\ m.seq > cache.summary.covered
      /\ \A n \in log : n.seq < m.seq /\ n.id # m.id
      /\ log' = log \cup {m}
      /\ cache'.loaded = cache.loaded /\ cache'.summary = cache.summary
    <2>1. Appended(m)
        BY AppendedIsNew
    <2> QED
        BY <2>1 DEF Appended, NewRecord
<1>2. run'.plain = run.plain \cup {m} /\ run'.digest = run.digest
    OBVIOUS
<1>3. run.plain \subseteq After(log, cache.summary.covered)
      /\ run.digest \cup IdsOf(run.plain) = IdsOf(log)
      /\ run.digest \cap IdsOf(run.plain) = {}
      /\ \A n \in run.plain : n.kind = "result" => n.of \in IdsOf(run.plain)
    BY DEF RunInv, ProjectionFits
<1>4. /\ IdsOf(run'.plain) = IdsOf(run.plain) \cup {m.id} /\ IdsOf(log') = IdsOf(log) \cup {m.id}
      /\ m.id \notin IdsOf(log)
    <2>1. \A n : n \in run'.plain <=> n \in run.plain \/ n = m
        BY <1>2
    <2>2. \A n : n \in log' <=> n \in log \/ n = m
        BY <1>1
    <2> QED
        BY <2>1, <2>2, <1>1 DEF IdsOf
<1>5. run'.plain \subseteq After(log', cache'.summary.covered)
    BY <1>1, <1>2, <1>3 DEF After
<1>6. run'.digest \cup IdsOf(run'.plain) = IdsOf(log') /\ run'.digest \cap IdsOf(run'.plain) = {}
    <2>1. ASSUME NEW D, NEW P, NEW L, NEW x, D \cup P = L, D \cap P = {}, x \notin L
          PROVE  D \cup (P \cup {x}) = L \cup {x} /\ D \cap (P \cup {x}) = {}
        BY <2>1
    <2>2. m.id \notin IdsOf(log)
        BY <1>4
    <2>3. /\ run.digest \cup (IdsOf(run.plain) \cup {m.id}) = IdsOf(log) \cup {m.id}
          /\ run.digest \cap (IdsOf(run.plain) \cup {m.id}) = {}
        BY <2>1, <2>2, <1>3
    <2> QED
        BY <2>3, <1>2, <1>4
<1>7. \A n \in run'.plain : n.kind = "result" => n.of \in IdsOf(run'.plain)
    BY <1>1, <1>2, <1>3, <1>4
<1> QED
    BY <1>5, <1>6, <1>7 DEF ProjectionFits

LEMMA CommitPreserves == ASSUME StoreInv, RunInv, Commit PROVE StoreInv' /\ RunInv'
<1> PICK m : m = NewRecord(run.kind, 0)
    OBVIOUS
<1>1. /\ run.pc = "commit" /\ AppendMessage(m) /\ run \in RunTypes
      /\ run' = [run EXCEPT !.pc = IF run.kind = "call" THEN "executing" ELSE "answered",
                            !.plain = @ \cup {m}, !.call = IF run.kind = "call" THEN next ELSE 0]
    BY DEF Commit, RunInv
<1>2. cache.loaded /\ run.pc \in Projecting /\ run.kind \in {"user", "text", "call"}
    BY <1>1 DEF RunInv, LoadedFits, Projecting, Runs, PCs, RunTypes
<1>3. StoreInv'
    BY <1>1, <1>2, AppendKeeps
<1>4. /\ m \in Records /\ m.id = next /\ m.kind = run.kind /\ m.of = 0 /\ next \in Ids
      /\ \A n \in log : n.seq < m.seq
      /\ log' = log \cup {m} /\ cache'.loaded
    <2>1. 0 \in Ids \cup {0} /\ run.kind \in {"user", "text", "call", "result"}
        BY <1>2
    <2>2. Appended(m)
        BY <2>1, <1>1, <1>2, AppendedIsNew
    <2> QED
        BY <2>2, <1>2 DEF Appended, NewRecord
<1>5. /\ run'.pc = IF run.kind = "call" THEN "executing" ELSE "answered"
      /\ run'.call = IF run.kind = "call" THEN next ELSE 0
      /\ run'.plain = run.plain \cup {m} /\ run'.digest = run.digest
    BY <1>1 DEF RunTypes
<1>6. run' \in RunTypes
    <2>1. run.plain \cup {m} \in SUBSET Records
        BY <1>1, <1>4 DEF RunTypes
    <2>2. PICK label \in PCs, call \in Ids \cup {0} :
              run' = [run EXCEPT !.pc = label, !.plain = run.plain \cup {m}, !.call = call]
        BY <1>1, <1>4 DEF PCs
    <2> QED
        BY <2>1, <2>2, <1>1 DEF RunTypes
<1>7. ProjectionFits'
    BY <1>1, <1>2, <1>5, <1>6, ProjectionGrows
<1>8. LoadedFits'
    BY <1>4, <1>5 DEF LoadedFits
<1>9. CallFits'
    <2> SUFFICES ASSUME run'.pc \in Answering
                 PROVE  /\ m \in run'.plain /\ m.id = run'.call /\ m.kind # "result"
                        /\ \A n \in log' : n.seq > m.seq => n.kind = "result"
        BY DEF CallFits
    <2>1. run.kind = "call"
        BY <1>5 DEF Answering
    <2>2. m.seq \in Nat /\ \A n \in log : n.seq \in Nat
        BY <1>4, LogFields DEF Records, StoreInv
    <2>3. \A n \in log' : ~(n.seq > m.seq)
        BY <1>4, <2>2
    <2> QED
        BY <1>4, <1>5, <2>1, <2>3
<1> QED
    BY <1>3, <1>6, <1>7, <1>8, <1>9 DEF RunInv

LEMMA CommitResultPreserves ==
    ASSUME StoreInv, RunInv, CommitResult PROVE StoreInv' /\ RunInv'
<1> PICK m : m = NewRecord("result", run.call)
    OBVIOUS
<1> DEFINE label == IF Cardinality(Answers(run.call, run.plain)) = Calls - 1
                    THEN "preturn" ELSE run.pc
<1>1. /\ run.pc = "committing" /\ AppendMessage(m) /\ run \in RunTypes
      /\ run' = [run EXCEPT !.pc = label, !.plain = @ \cup {m}]
    BY DEF CommitResult, RunInv
<1>2. label \in {"preturn", "committing"}
    BY <1>1
<1> HIDE DEF label
<1>3. cache.loaded /\ run.pc \in Projecting /\ run.pc \in Answering /\ run.call \in Ids \cup {0}
    BY <1>1 DEF RunInv, LoadedFits, Projecting, Runs, PCs, RunTypes, Answering
<1>4. PICK k \in run.plain : /\ k.id = run.call /\ k.kind # "result"
                             /\ \A n \in log : n.seq > k.seq => n.kind = "result"
    BY <1>3 DEF RunInv, CallFits
<1>5. k \in log /\ k.seq > cache.summary.covered /\ run.call \in IdsOf(run.plain)
    BY <1>3, <1>4 DEF RunInv, ProjectionFits, After, IdsOf
<1>6. StoreInv'
    BY <1>1, <1>3, <1>4, <1>5, AppendKeeps
<1>7. /\ m \in Records /\ m.kind = "result"
      /\ log' = log \cup {m} /\ cache'.loaded
    <2>1. Appended(m)
        BY <1>1, <1>3, AppendedIsNew
    <2> QED
        BY <2>1, <1>3 DEF Appended, NewRecord
<1>8. /\ run'.pc = label /\ run'.call = run.call
      /\ run'.plain = run.plain \cup {m} /\ run'.digest = run.digest
    BY <1>1 DEF RunTypes
<1>9. run' \in RunTypes
    <2>1. run.plain \cup {m} \in SUBSET Records /\ label \in PCs
        BY <1>1, <1>2, <1>7 DEF RunTypes, PCs
    <2> QED
        BY <2>1, <1>1 DEF RunTypes
<1>10. ProjectionFits'
    BY <1>1, <1>3, <1>5, <1>8, <1>9, ProjectionGrows
<1>11. LoadedFits' /\ CallFits'
    BY <1>2, <1>4, <1>7, <1>8 DEF LoadedFits, CallFits
<1> QED
    BY <1>6, <1>9, <1>10, <1>11 DEF RunInv

LEMMA CompactContextPreserves ==
    ASSUME StoreInv, RunInv, CompactContext PROVE StoreInv' /\ RunInv'
<1>1. cache.loaded
    BY DEF CompactContext
<1>2. ASSUME NEW c \in cache.records, After(cache.records, c.seq) = {}, Save(SummaryUntil(c))
      PROVE  StoreInv'
    BY <1>1, <1>2, ManualFits, SaveKeeps
<1>3. CASE Abort /\ UNCHANGED <<durable, cache, next>>
    BY <1>3, StoreStands, Aborted
<1>4. CASE SaveFails
    BY <1>4, SaveFailsKeeps, Aborted DEF SaveFails
<1>5. CASE /\ Abort
           /\ \E c \in cache.records : After(cache.records, c.seq) = {} /\ Save(SummaryUntil(c))
    BY <1>2, <1>5, Aborted
<1> QED
    BY <1>3, <1>4, <1>5 DEF CompactContext

LEMMA RewindSummaryPreserves ==
    ASSUME StoreInv, RunInv, RewindSummary PROVE StoreInv' /\ RunInv'
<1>1. cache.loaded /\ run \in RunTypes /\ StoreTypeOK /\ run.target \in Nat
      /\ run' = [run EXCEPT !.pc = "truncate"]
    BY DEF RewindSummary, RunInv, StoreInv, Goto, RunTypes
<1>2. run' \in RunTypes /\ run'.pc = "truncate" /\ run'.target = run.target
    BY <1>1 DEF RunTypes, PCs
<1>3. StoreInv' /\ cache'.loaded /\ cache'.summary.covered < run.target
    <2>1. CASE cache.summary.valid /\ run.target <= cache.summary.covered
        <3>1. Save(NoSummary)
            BY <2>1 DEF RewindSummary
        <3>2. StoreInv'
            BY <3>1, <1>1, NoSummaryFits, SaveKeeps
        <3>3. cache'.loaded /\ cache'.summary.covered = -1
            BY <3>1, <1>1 DEF Save, StoreTypeOK, NoSummary
        <3> QED
            BY <3>2, <3>3, <1>1
    <2>2. CASE ~(cache.summary.valid /\ run.target <= cache.summary.covered)
        <3>1. UNCHANGED <<durable, cache, next>>
            BY <2>2 DEF RewindSummary
        <3>2. cache.summary.covered \in Int
            BY <1>1, SummaryFields
        <3>3. ~cache.summary.valid => cache.summary.covered = -1
            BY DEF StoreInv, SummariesFit, Summarised, NoSummary
        <3> QED
            BY <3>1, <3>2, <3>3, <2>2, <1>1, StoreStands
    <2> QED
        BY <2>1, <2>2
<1>4. RunInv'
    BY <1>2, <1>3 DEF RunInv, LoadedFits, ProjectionFits, CallFits, Projecting, Runs, Answering
<1> QED
    BY <1>3, <1>4

\* What the summary covers is not cut off, and a kept result keeps its call before it.
LEMMA TruncatePreserves == ASSUME StoreInv, RunInv, Truncate PROVE StoreInv' /\ RunInv'
<1>1. /\ cache.loaded /\ StoreTypeOK /\ run \in RunTypes /\ run.target \in Nat
      /\ cache.summary.covered < run.target
    BY DEF Truncate, RunInv, StoreInv, LoadedFits, RunTypes
<1>2. cache.records = log /\ (cache.summary = summary \/ summary = NoSummary)
    BY <1>1 DEF StoreInv, CacheFits, CacheIsFaithful
<1>3. /\ log' = Kept(log) /\ UNCHANGED <<torn, summary, next>>
      /\ cache'.loaded = cache.loaded /\ cache'.records = log' /\ cache'.summary = cache.summary
    BY <1>1, <1>2 DEF Truncate, StoreTypeOK
<1>4. \A m \in log : m.seq \in Nat
    BY <1>1, LogFields
<1>5. log' \subseteq log /\ \A m \in log : m \in log' <=> m.seq < run.target
    BY <1>3 DEF Kept
<1>6. StoreTypeOK'
    BY <1>1, <1>2, <1>3, <1>5 DEF StoreTypeOK, Truncate
<1>7. Numbered'
    BY <1>3, <1>5 DEF StoreInv, Numbered
<1>8. ResultsFollow'
    <2> SUFFICES ASSUME NEW m \in log', m.kind = "result"
                 PROVE  \E k \in log' : AnswerOf(k, m)'
        BY DEF ResultsFollow
    <2>1. PICK k \in log : AnswerOf(k, m)
        BY <1>5 DEF StoreInv, ResultsFollow
    <2>2. k \in log'
        BY <2>1, <1>1, <1>4, <1>5 DEF AnswerOf
    <2>3. AnswerOf(k, m)'
        BY <2>1, <1>5 DEF AnswerOf
    <2> QED
        BY <2>2, <2>3
<1>9. CacheFits'
    BY <1>1, <1>3 DEF StoreInv, CacheFits, CacheIsFaithful
<1>10. ASSUME NEW s \in Summaries, Summarised(s, log), s.covered < run.target
       PROVE  Summarised(s, log')
    <2>1. {m \in log' : m.seq <= s.covered} = {m \in log : m.seq <= s.covered}
        BY <1>1, <1>4, <1>5, <1>10 DEF Summaries
    <2>2. s.valid => \E c \in log' : c.seq = s.covered
        BY <1>5, <1>10 DEF Summarised
    <2>3. ASSUME NEW m \in log', m.kind = "result", m.seq > s.covered
          PROVE  \E k \in log' : k.id = m.of /\ k.seq > s.covered
        <3>1. PICK k \in log : k.id = m.of /\ k.seq > s.covered
            BY <2>3, <1>5, <1>10 DEF Summarised
        <3>2. PICK l \in log' : AnswerOf(l, m)'
            BY <2>3, <1>8 DEF ResultsFollow
        <3>3. l = k
            BY <3>1, <3>2, <1>5 DEF AnswerOf, StoreInv, Numbered
        <3> QED
            BY <3>1, <3>2, <3>3
    <2> QED
        BY <2>1, <2>2, <2>3, <1>10 DEF Summarised, Covers
<1>11. SummariesFit'
    <2>1. Summarised(cache.summary, log')
        BY <1>1, <1>2, <1>10, SummaryFields DEF StoreInv, SummariesFit
    <2>2. summary.covered < run.target
        BY <1>1, <1>2 DEF NoSummary
    <2>3. Summarised(summary, log')
        BY <1>1, <1>10, <2>2 DEF StoreInv, SummariesFit, StoreTypeOK
    <2> QED
        BY <2>1, <2>3, <1>3 DEF SummariesFit
<1>12. StoreInv'
    BY <1>6, <1>7, <1>8, <1>9, <1>11 DEF StoreInv
<1> QED
    BY <1>12, Aborted DEF Truncate

-----------------------------------------------------------------------------
(* The theorems.                                                              *)

LEMMA ContextNext == ASSUME ContextInv, [Next]_vars PROVE ContextInv'
<1>1. StoreInv /\ RunInv
    BY TwoHalves
<1>2. CASE UNCHANGED vars
    <2>1. UNCHANGED <<durable, cache, next>> /\ log' = log /\ cache' = cache /\ run' = run
        BY <1>2 DEF vars, durable
    <2>2. RunInv'
        BY <2>1, <1>1 DEF RunInv, LoadedFits, ProjectionFits, CallFits
    <2> QED
        BY <2>1, <2>2, <1>1, StoreStands, TwoHalves
<1>3. CASE Next
    BY <1>1, <1>3, TwoHalves, LoadPreserves, CrashPreserves, QuietPreserves, StagePreserves,
       CancelPreserves, TurnPreserves, FailurePreserves, InitializePreserves,
       CompactHistoryPreserves, CommitPreserves, CommitResultPreserves,
       CompactContextPreserves, RewindSummaryPreserves, TruncatePreserves
    DEF Next
<1> QED
    BY <1>2, <1>3

THEOREM ContextInvariance == Spec => []ContextInv
BY InitContext, ContextNext, PTL DEF Spec

\* The log, the compaction state and the operation keep their shapes: records have numbers
\* and identities of their own, and identities stay below the next one.
THEOREM ContextTypeCorrect == Spec => []TypeOK
<1>1. ContextInv => TypeOK
    BY DEF ContextInv
<1> QED
    BY <1>1, ContextInvariance, PTL

\* StoredStateIsExact, for any number of messages and calls: a summary stands for exactly
\* the messages it was made from, whatever failed, was rewound or crashed, and the copy of
\* the session is what is stored.
THEOREM StoredStateStaysExact == Spec => []StoredStateIsExact
<1>1. ContextInv => StoredStateIsExact
    BY DEF ContextInv, SummariesFit, Summarised, CacheFits, StoredStateIsExact, SummaryIsExact
<1> QED
    BY <1>1, ContextInvariance, PTL

\* ProjectionIsWhole, for any number of messages and calls: the model is shown the whole
\* stored conversation, each message once, and no result without its call.
THEOREM ProjectionStaysWhole == Spec => []ProjectionIsWhole
<1>1. ContextInv => ProjectionIsWhole
    BY DEF ContextInv, ProjectionFits, Projecting, Runs, PCs, ProjectionIsWhole,
           ModelSeesConversation, NoOrphanResult
<1> QED
    BY <1>1, ContextInvariance, PTL

-----------------------------------------------------------------------------
(* The user's settings.                                                       *)

ThemeSet == {Themes[i] : i \in DOMAIN Themes}
StatuslineSet == {Statuslines[i] : i \in DOMAIN Statuslines}
ModeSet == {"ask", "approve", "full_access"}

ChangeKinds == {"none", "theme", "statusline", "mode", "effort", "model", "profile", "default"}
ChangeSet == [kind : ChangeKinds, field : {""} \cup ProviderIds, value : Texts, extra : BOOLEAN, profile : ProfileSet]
ProcSet == [pc : {"off", "idle", "saving"}, since : Nat, theme : Texts, statusline : Texts, mode : Texts,
            ack : {"", "yes", "no"}, saved : {""} \cup ProviderIds, protocol : {""} \cup Protocols,
            change : ChangeSet, file : Files, seen : Nat]

SettingsTypeOK ==
    /\ settingsFile \in Files
    /\ proc \in [SettingsProcesses -> ProcSet]
    /\ wanted \in [SettingsFields -> [value : Texts, at : Nat, by : SettingsProcesses]]
    /\ excused \subseteq SettingsFields
    /\ saves \in Nat

\* Times lie in the past.
TimesArePast ==
    /\ \A p \in SettingsProcesses : proc[p].since <= saves /\ proc[p].seen <= saves
    /\ \A f \in SettingsFields : wanted[f].at <= saves

\* A screen shows what may be chosen; what is being saved is a change its process makes.
ScreensShowChoices ==
    \A p \in Screens : proc[p].pc # "off" =>
        /\ proc[p].theme \in ThemeSet /\ proc[p].statusline \in Texts \ {""} /\ proc[p].mode \in ModeSet
        /\ proc[p].protocol \in Protocols

SavingIsAllowed ==
    \A p \in SettingsProcesses : proc[p].pc = "saving" =>
        /\ proc[p].change \in IF p = Wizard THEN WizardChanges ELSE ScreenChanges
        /\ proc[p].change.kind = "model" => proc[p].saved # ""

\* What a process read was as it had been chosen until then.
ReadsAreExact ==
    \A p \in SettingsProcesses : proc[p].pc = "saving" =>
        \A f \in SettingsFields \ excused :
            wanted[f].at <= proc[p].seen /\ proc[p].file.form = "ok" =>
                Meaning(Parse(proc[p].file), f) = wanted[f].value

\* What a screen remembers of a field of its look.
Shown(q, f) ==
    CASE f[1] = "theme" -> q.theme
      [] f[1] = "statusline" -> q.statusline
      [] f[1] = "mode" -> q.mode
      [] f[1] = "ack" -> IF q.ack = "yes" THEN "yes" ELSE "no"

\* It is what was chosen before the screen started, or by the screen.
ScreensRemember ==
    \A p \in Screens : proc[p].pc # "off" =>
        \A f \in ScreenFields \ excused :
            wanted[f].by = p \/ wanted[f].at <= proc[p].since => Shown(proc[p], f) = wanted[f].value

\* While there are no settings nobody holds any, unless the user broke the file.
Ack == <<"ack", "">>
NothingIsHeld ==
    settingsFile.form # "ok" /\ Ack \notin excused =>
        \A p \in SettingsProcesses : proc[p].pc = "saving" => proc[p].file.form # "ok"

\* A screen that started without settings meets no older form of the acknowledgement.
NoOlderAck ==
    \A p \in Screens : proc[p].pc # "off" /\ proc[p].ack = "" /\ Ack \notin excused =>
        \/ wanted[Ack].at > proc[p].since
        \/ /\ settingsFile.doc.oldAck # "yes"
           /\ \A r \in SettingsProcesses : proc[r].pc = "saving" => proc[r].file.doc.oldAck # "yes"

\* The acknowledgement is only ever given.
AckIsGiven == wanted[Ack].at > 0 => wanted[Ack].value = "yes"

SettingsInv ==
    /\ SettingsTypeOK
    /\ TimesArePast
    /\ ScreensShowChoices
    /\ SavingIsAllowed
    /\ ChoicesAreKept
    /\ ReadsAreExact
    /\ ScreensRemember
    /\ NothingIsHeld
    /\ NoOlderAck
    /\ AckIsGiven
    /\ RunsAsConfigured

-----------------------------------------------------------------------------
(* What a file says, and what a save makes of it.                             *)

LEMMA FilesRead ==
  ASSUME NEW file \in Files
  PROVE  /\ file.form \in {"none", "broken", "ok"} /\ file.doc \in Docs
         /\ file.form # "ok" => file.doc = EmptyDoc /\ Parse(file) = EmptyDoc
         /\ (IF file.form = "ok" THEN file.doc ELSE EmptyDoc) = file.doc
<1>1. file.form \in {"none", "broken", "ok"} /\ file.doc \in Docs /\ (file.form # "ok" => file.doc = EmptyDoc)
    BY DEF Files
<1> QED
    BY <1>1 DEF Parse

\* Parse, field by field.
Parsed(r, e) ==
    /\ e.default = r.default /\ e.profiles = r.profiles /\ e.effort = r.effort
    /\ e.theme = (IF r.theme = "wrong type" THEN "" ELSE r.theme)
    /\ e.statusline = r.statusline
    /\ e.mode = (IF r.mode = "" THEN r.oldMode ELSE r.mode)
    /\ e.ack = (IF r.ack # "" THEN r.ack ELSE IF r.oldAck = "yes" THEN "yes" ELSE "no")
    /\ e.other = r.other

LEMMA ParsesWell ==
  ASSUME NEW file \in Files, file.form = "ok"
  PROVE  Parse(file) \in Docs /\ Parsed(file.doc, Parse(file))
<1>1. PICK r \in Docs : r = file.doc
    BY FilesRead
<1>2. PICK th, mo, ak :
         /\ th = (IF r.theme = "wrong type" THEN "" ELSE r.theme)
         /\ mo = (IF r.mode = "" THEN r.oldMode ELSE r.mode)
         /\ ak = (IF r.ack # "" THEN r.ack ELSE IF r.oldAck = "yes" THEN "yes" ELSE "no")
    OBVIOUS
<1>3. Parse(file) = [r EXCEPT !.theme = th, !.mode = mo, !.ack = ak]
    BY <1>1, <1>2 DEF Parse
<1>4. /\ r.theme \in Texts /\ r.mode \in Texts /\ r.oldMode \in Texts
      /\ r.ack \in {"", "yes", "no"} /\ r.oldAck \in {"", "yes", "no"}
    BY DEF Docs
<1>5. th \in Texts /\ mo \in Texts
    BY <1>2, <1>4, SettingsAssumption
<1>6. ak = (IF r.ack # "" THEN r.ack ELSE IF r.oldAck = "yes" THEN "yes" ELSE "no") /\ ak \in {"", "yes", "no"}
  <2>1. CASE r.ack # ""
    BY <2>1, <1>2, <1>4
  <2>2. CASE r.ack = "" /\ r.oldAck = "yes"
    BY <2>2, <1>2
  <2>3. CASE r.ack = "" /\ r.oldAck # "yes"
    BY <2>3, <1>2
  <2> QED
    BY <2>1, <2>2, <2>3
<1>7. Parse(file) \in Docs
    BY <1>3, <1>5, <1>6 DEF Docs
<1> QED
    BY <1>1, <1>2, <1>3, <1>6, <1>7 DEF Parsed, Docs

LEMMA ParseIsDoc == \A file \in Files : Parse(file) \in Docs
<1> QED
    BY ParsesWell, FilesRead

\* MergeRaw, field by field.
Merges(r, d, n) ==
    /\ n.default = Patched(r.default, d.default)
    /\ \A id \in ProviderIds : n.profiles[id] = MergeProfile(r.profiles[id], d.profiles[id])
    /\ n.effort = d.effort
    /\ n.theme = Patched(r.theme, d.theme)
    /\ n.statusline = Patched(r.statusline, d.statusline)
    /\ n.mode = Patched(r.mode, d.mode)
    /\ n.ack = (IF HasPermissions(d) /\ (d.ack = "yes" \/ r.ack # "") THEN d.ack ELSE r.ack)
    /\ n.oldMode = r.oldMode /\ n.oldAck = r.oldAck /\ n.other = r.other

LEMMA MergesWell ==
  ASSUME NEW file \in Files, NEW d \in Docs
  PROVE  /\ MergeRaw(file, d) \in Docs
         /\ Merges(file.doc, d, MergeRaw(file, d))
         /\ [form |-> "ok", doc |-> MergeRaw(file, d)] \in Files
<1>1. PICK r \in Docs : r = file.doc
    BY FilesRead
<1>2. PICK ps, df : /\ ps = [id \in ProviderIds |-> MergeProfile(r.profiles[id], d.profiles[id])]
                    /\ df = Patched(r.default, d.default)
    OBVIOUS
<1>3. df \in {""} \cup ProviderIds
    BY <1>2 DEF Docs, Patched
<1>4. ps \in [ProviderIds -> ProfileSet]
  <2> SUFFICES ASSUME NEW id \in ProviderIds PROVE MergeProfile(r.profiles[id], d.profiles[id]) \in ProfileSet
    BY <1>2
  <2>1. r.profiles[id] \in ProfileSet /\ d.profiles[id] \in ProfileSet
    BY DEF Docs
  <2> QED
    BY <2>1 DEF MergeProfile, Patched, ProfileSet
<1>5. PICK llm : llm = [r EXCEPT !.default = df, !.profiles = ps, !.effort = d.effort]
    OBVIOUS
<1>6. llm \in Docs
    BY <1>3, <1>4, <1>5 DEF Docs
<1>7. /\ llm.default = df /\ llm.profiles = ps /\ llm.effort = d.effort
      /\ llm.theme = r.theme /\ llm.statusline = r.statusline /\ llm.mode = r.mode /\ llm.ack = r.ack
      /\ llm.oldMode = r.oldMode /\ llm.oldAck = r.oldAck /\ llm.other = r.other
    BY <1>5 DEF Docs
<1>8. MergeRaw(file, d) = MergeTUI(llm, d)
  <2>1. (IF file.form = "ok" THEN file.doc ELSE EmptyDoc) = r
    BY <1>1, FilesRead
  <2>2. llm = [r EXCEPT !.default = Patched(@, d.default),
                        !.profiles = [id \in ProviderIds |-> MergeProfile(r.profiles[id], d.profiles[id])],
                        !.effort = MergeEffort(r.effort, d.effort)]
    BY <1>2, <1>5 DEF MergeEffort
  <2> QED
    BY <2>1, <2>2 DEF MergeRaw
<1>9. PICK n : n = MergeTUI(llm, d)
    OBVIOUS
<1>10. n \in Docs /\ Merges(r, d, n)
  <2>1. CASE ~HasTUI(d)
    <3>1. n = llm
      BY <2>1, <1>9 DEF MergeTUI
    <3>2. d.theme = "" /\ d.statusline = "" /\ d.mode = "" /\ ~HasPermissions(d)
      BY <2>1 DEF HasTUI, HasPermissions
    <3> QED
      BY <1>2, <1>6, <1>7, <3>1, <3>2 DEF Merges, Patched
  <2>2. CASE HasTUI(d)
    <3>1. PICK th, st, mo, ak :
             /\ th = Patched(llm.theme, d.theme) /\ st = Patched(llm.statusline, d.statusline)
             /\ mo = (IF HasPermissions(d) THEN Patched(llm.mode, d.mode) ELSE llm.mode)
             /\ ak = (IF HasPermissions(d) /\ (d.ack = "yes" \/ llm.ack # "") THEN d.ack ELSE llm.ack)
      OBVIOUS
    <3>2. n = [llm EXCEPT !.theme = th, !.statusline = st, !.mode = mo, !.ack = ak]
      BY <2>2, <1>9, <3>1 DEF MergeTUI
    <3>3. th \in Texts /\ st \in Texts /\ mo \in Texts /\ ak \in {"", "yes", "no"}
      BY <3>1, <1>6 DEF Docs, Patched
    <3>4. mo = Patched(r.mode, d.mode)
      BY <3>1, <1>7 DEF HasPermissions, Patched
    <3>5. n \in Docs
      BY <1>6, <3>2, <3>3 DEF Docs
    <3>6. /\ n.default = df /\ n.profiles = ps /\ n.effort = d.effort
          /\ n.theme = th /\ n.statusline = st /\ n.mode = mo /\ n.ack = ak
          /\ n.oldMode = r.oldMode /\ n.oldAck = r.oldAck /\ n.other = r.other
      BY <1>6, <1>7, <3>2 DEF Docs
    <3> QED
      BY <1>2, <1>7, <3>1, <3>4, <3>5, <3>6 DEF Merges
  <2> QED
    BY <2>1, <2>2
<1>11. [form |-> "ok", doc |-> n] \in Files
    BY <1>10 DEF Files
<1> QED
    BY <1>1, <1>8, <1>9, <1>10, <1>11

\* Meaning, field by field.
LEMMA Meanings ==
  ASSUME NEW d
  PROVE  /\ Meaning(d, <<"default", "">>) = d.default
         /\ Meaning(d, <<"theme", "">>) = ThemeOf(d.theme)
         /\ Meaning(d, <<"statusline", "">>) = StatuslineOf(d.statusline)
         /\ Meaning(d, <<"mode", "">>) = ModeOf(d.mode)
         /\ Meaning(d, Ack) = (IF d.ack = "yes" THEN "yes" ELSE "no")
         /\ Meaning(d, <<"other", "">>) = (IF d.other THEN "kept" ELSE "")
         /\ \A q : Meaning(d, <<"effort", q>>) = EffortOf(d.effort[q])
         /\ \A id : Meaning(d, <<"model", id>>) = d.profiles[id].model
         /\ \A id : Meaning(d, <<"key", id>>) = KeySource(d.profiles[id])
<1> QED
    BY DEF Meaning, Ack

LEMMA FieldsAre ==
  ASSUME NEW f \in SettingsFields
  PROVE  \/ f \in {<<"default", "">>, <<"theme", "">>, <<"statusline", "">>, <<"mode", "">>, Ack, <<"other", "">>}
         \/ \E q \in Protocols : f = <<"effort", q>>
         \/ \E id \in ProviderIds : f = <<"model", id>>
         \/ \E id \in ProviderIds : f = <<"key", id>>
<1> QED
    BY DEF SettingsFields, Ack

\* The fields of an effort, a profile's model or its key.
Agrees(e, d, f) ==
    /\ f = <<"default", "">> => d.default = e.default
    /\ f = <<"theme", "">> => d.theme = e.theme
    /\ f = <<"statusline", "">> => d.statusline = e.statusline
    /\ f = <<"mode", "">> => d.mode = e.mode
    /\ f = Ack => d.ack = e.ack
    /\ \A q \in Protocols : f = <<"effort", q>> => d.effort[q] = e.effort[q]
    /\ \A id \in ProviderIds : f = <<"model", id>> => d.profiles[id].model = e.profiles[id].model
    /\ \A id \in ProviderIds : f = <<"key", id>> =>
          /\ d.profiles[id].auth = e.profiles[id].auth /\ d.profiles[id].key = e.profiles[id].key
          /\ d.profiles[id].env = e.profiles[id].env

LEMMA DefaultTheme ==
    /\ ThemeOf("") = ThemeOf("wrong type") /\ Themes[1] \in ThemeSet
    /\ ThemeSet \subseteq Texts \ {"", "wrong type"}
    /\ \A t \in ThemeSet : ThemeOf(t) = t
<1>1. PICK names : names = Texts \ {"", "wrong type"}
    OBVIOUS
<1>2. Themes \in Seq(names) /\ Themes # <<>>
    BY <1>1, SettingsAssumption
<1>3. 1 \in DOMAIN Themes /\ \A i \in DOMAIN Themes : Themes[i] \in names
    BY <1>2
<1> QED
    BY <1>1, <1>3 DEF ThemeOf, InSeq, ThemeSet

\* A save leaves a field as it reads if the settings it saves have it as it was read.
LEMMA Untouched ==
  ASSUME NEW file \in Files, file.form = "ok", NEW d \in Docs, NEW f \in SettingsFields,
         Agrees(Parse(file), d, f),
         NEW out, out = [form |-> "ok", doc |-> MergeRaw(file, d)]
  PROVE  Meaning(Parse(out), f) = Meaning(Parse(file), f)
<1>1. PICK r \in Docs : r = file.doc
    BY FilesRead
<1>2. PICK n \in Docs : n = MergeRaw(file, d)
    BY MergesWell
<1>3. PICK e \in Docs : e = Parse(file) /\ Parsed(r, e)
    BY <1>1, ParsesWell
<1>4. Merges(r, d, n) /\ out \in Files /\ out.form = "ok" /\ out.doc = n
    BY <1>1, <1>2, MergesWell
<1>5. PICK g \in Docs : g = Parse(out) /\ Parsed(n, g)
    BY <1>4, ParsesWell
<1>6. Agrees(e, d, f)
    BY <1>3
<1>7. CASE f = <<"default", "">>
  <2>1. g.default = e.default
    BY <1>3, <1>4, <1>5, <1>6, <1>7 DEF Parsed, Merges, Agrees, Patched
  <2> QED
    BY <2>1, <1>3, <1>5, <1>7, Meanings
<1>8. CASE f = <<"theme", "">>
  <2>1. e.theme = g.theme
    <3>1. g.theme = (IF Patched(r.theme, e.theme) = "wrong type" THEN "" ELSE Patched(r.theme, e.theme))
      <4>1. n.theme = Patched(r.theme, d.theme)
        BY <1>4 DEF Merges
      <4>2. d.theme = e.theme
        BY <1>6, <1>8 DEF Agrees
      <4>3. g.theme = (IF n.theme = "wrong type" THEN "" ELSE n.theme)
        BY <1>5 DEF Parsed
      <4>4. n.oldMode = r.oldMode
        BY <1>4 DEF Merges
      <4> QED
        BY <4>1, <4>2, <4>3, <4>4
    <3>2. e.theme = (IF r.theme = "wrong type" THEN "" ELSE r.theme)
      BY <1>3 DEF Parsed
    <3> QED
      BY <3>1, <3>2 DEF Patched
  <2> QED
    BY <2>1, <1>3, <1>5, <1>8, Meanings
<1>9. CASE f = <<"statusline", "">>
  <2>1. e.statusline = g.statusline
    BY <1>3, <1>4, <1>5, <1>6, <1>9 DEF Parsed, Merges, Agrees, Patched
  <2> QED
    BY <2>1, <1>3, <1>5, <1>9, Meanings
<1>10. CASE f = <<"mode", "">>
  <2>1. e.mode = g.mode
    <3>1. g.mode = (IF Patched(r.mode, e.mode) = "" THEN r.oldMode ELSE Patched(r.mode, e.mode))
      <4>1. n.mode = Patched(r.mode, d.mode)
        BY <1>4 DEF Merges
      <4>2. d.mode = e.mode
        BY <1>6, <1>10 DEF Agrees
      <4>3. g.mode = (IF n.mode = "" THEN n.oldMode ELSE n.mode)
        BY <1>5 DEF Parsed
      <4>4. n.oldMode = r.oldMode
        BY <1>4 DEF Merges
      <4> QED
        BY <4>1, <4>2, <4>3, <4>4
    <3>2. e.mode = (IF r.mode = "" THEN r.oldMode ELSE r.mode)
      BY <1>3 DEF Parsed
    <3> QED
      BY <3>1, <3>2 DEF Patched
  <2> QED
    BY <2>1, <1>3, <1>5, <1>10, Meanings
<1>11. CASE f = Ack
  <2>1. (e.ack = "yes") <=> (g.ack = "yes")
    <3>1. /\ n.ack = (IF HasPermissions(d) /\ (e.ack = "yes" \/ r.ack # "") THEN e.ack ELSE r.ack)
          /\ e.ack = "yes" => HasPermissions(d)
          /\ n.oldAck = r.oldAck
      BY <1>4, <1>6, <1>11 DEF Merges, Agrees, HasPermissions
    <3>2. e.ack = (IF r.ack # "" THEN r.ack ELSE IF r.oldAck = "yes" THEN "yes" ELSE "no")
      BY <1>3 DEF Parsed
    <3>3. g.ack = (IF n.ack # "" THEN n.ack ELSE IF n.oldAck = "yes" THEN "yes" ELSE "no")
      BY <1>5 DEF Parsed
    <3> QED
      BY <3>1, <3>2, <3>3
  <2> QED
    BY <2>1, <1>3, <1>5, <1>11, Meanings
<1>12. CASE f = <<"other", "">>
  <2>1. e.other = g.other
    BY <1>3, <1>4, <1>5 DEF Parsed, Merges
  <2> QED
    BY <2>1, <1>3, <1>5, <1>12, Meanings
<1>13. ASSUME NEW q \in Protocols, f = <<"effort", q>> PROVE Meaning(Parse(out), f) = Meaning(Parse(file), f)
  <2>1. e.effort[q] = g.effort[q]
    <3>1. n.effort = d.effort /\ g.effort = n.effort
      BY <1>4, <1>5 DEF Parsed, Merges
    <3>2. d.effort[q] = e.effort[q]
      BY <1>6, <1>13 DEF Agrees
    <3> QED
      BY <3>1, <3>2
  <2>2. Meaning(g, <<"effort", q>>) = EffortOf(g.effort[q])
    BY Meanings
  <2>3. Meaning(e, <<"effort", q>>) = EffortOf(e.effort[q])
    BY Meanings
  <2> QED
    BY <2>1, <2>2, <2>3, <1>3, <1>5, <1>13
<1>14. ASSUME NEW id \in ProviderIds, f = <<"model", id>> PROVE Meaning(Parse(out), f) = Meaning(Parse(file), f)
  <2>1. d.profiles[id].model = e.profiles[id].model /\ r.profiles = e.profiles /\ n.profiles = g.profiles
    BY <1>3, <1>5, <1>6, <1>14 DEF Parsed, Agrees
  <2>2. n.profiles[id] = MergeProfile(r.profiles[id], d.profiles[id])
    BY <1>4 DEF Merges
  <2>3. g.profiles[id].model = e.profiles[id].model
    <3>1. n.profiles[id].model = Patched(r.profiles[id].model, d.profiles[id].model)
      BY <2>2 DEF MergeProfile
    <3> QED
      BY <2>1, <3>1 DEF Patched
  <2>4. Meaning(g, <<"model", id>>) = g.profiles[id].model
    BY Meanings
  <2>5. Meaning(e, <<"model", id>>) = e.profiles[id].model
    BY Meanings
  <2> QED
    BY <2>3, <2>4, <2>5, <1>3, <1>5, <1>14
<1>15. ASSUME NEW id \in ProviderIds, f = <<"key", id>> PROVE Meaning(Parse(out), f) = Meaning(Parse(file), f)
  <2>1. /\ d.profiles[id].auth = e.profiles[id].auth /\ d.profiles[id].key = e.profiles[id].key
        /\ d.profiles[id].env = e.profiles[id].env /\ r.profiles = e.profiles /\ n.profiles = g.profiles
    BY <1>3, <1>5, <1>6, <1>15 DEF Parsed, Agrees
  <2>2. n.profiles[id] = MergeProfile(r.profiles[id], d.profiles[id])
    BY <1>4 DEF Merges
  <2>3. /\ g.profiles[id].auth = e.profiles[id].auth /\ g.profiles[id].key = e.profiles[id].key
        /\ g.profiles[id].env = e.profiles[id].env
    <3>1. /\ n.profiles[id].auth = Patched(r.profiles[id].auth, d.profiles[id].auth)
          /\ n.profiles[id].key = Patched(r.profiles[id].key, d.profiles[id].key)
          /\ n.profiles[id].env = Patched(r.profiles[id].env, d.profiles[id].env)
      BY <2>2 DEF MergeProfile
    <3> QED
      BY <2>1, <3>1 DEF Patched
  <2>4. KeySource(g.profiles[id]) = KeySource(e.profiles[id])
    BY <2>3 DEF KeySource
  <2>5. Meaning(g, <<"key", id>>) = KeySource(g.profiles[id])
    BY Meanings
  <2>6. Meaning(e, <<"key", id>>) = KeySource(e.profiles[id])
    BY Meanings
  <2> QED
    BY <2>4, <2>5, <2>6, <1>3, <1>5, <1>15
<1> QED
    BY <1>7, <1>8, <1>9, <1>10, <1>11, <1>12, <1>13, <1>14, <1>15, FieldsAre

\* A save writes what the settings it saves say, where they say something: of the screen ...
WritesLook(file, d, out) ==
    /\ d.theme \in ThemeSet => Meaning(Parse(out), <<"theme", "">>) = d.theme
    /\ d.statusline # "" => Meaning(Parse(out), <<"statusline", "">>) = d.statusline
    /\ d.mode \in ModeSet => Meaning(Parse(out), <<"mode", "">>) = d.mode
    /\ d.ack = "yes" => Meaning(Parse(out), Ack) = "yes"
    /\ /\ d.mode # "" /\ d.ack # "yes" /\ Meaning(Parse(file), Ack) = "no" /\ file.form = "ok"
       /\ d.ack = "" => file.doc.oldAck # "yes"
       => Meaning(Parse(out), Ack) = "no"

\* ... and of the model.
WritesLLM(file, d, out) ==
    /\ d.default # "" => Meaning(Parse(out), <<"default", "">>) = Meaning(d, <<"default", "">>)
    /\ \A q \in Protocols : Meaning(Parse(out), <<"effort", q>>) = Meaning(d, <<"effort", q>>)
    /\ \A id \in ProviderIds :
          d.profiles[id].model # "" \/ file.doc.profiles[id].model = "" =>
              Meaning(Parse(out), <<"model", id>>) = Meaning(d, <<"model", id>>)
    /\ \A id \in ProviderIds :
          /\ d.profiles[id].auth # ""
          /\ \/ d.profiles[id].key # ""
             \/ /\ file.doc.profiles[id].key = ""
                /\ d.profiles[id].env # "" \/ file.doc.profiles[id].env = ""
          => Meaning(Parse(out), <<"key", id>>) = Meaning(d, <<"key", id>>)

LEMMA Written ==
  ASSUME NEW file \in Files, NEW d \in Docs,
         NEW out, out = [form |-> "ok", doc |-> MergeRaw(file, d)]
  PROVE  WritesLook(file, d, out) /\ WritesLLM(file, d, out)
<1>1. PICK r \in Docs : r = file.doc
    BY FilesRead
<1>2. PICK n \in Docs : n = MergeRaw(file, d)
    BY MergesWell
<1>3. Merges(r, d, n) /\ out \in Files /\ out.form = "ok" /\ out.doc = n
    BY <1>1, <1>2, MergesWell
<1>4. PICK g \in Docs : g = Parse(out) /\ Parsed(n, g)
    BY <1>3, ParsesWell
<1>5. d.default # "" => Meaning(Parse(out), <<"default", "">>) = Meaning(d, <<"default", "">>)
  <2>1. d.default # "" => g.default = d.default
    BY <1>3, <1>4 DEF Parsed, Merges, Patched
  <2> QED
    BY <2>1, <1>4, Meanings
<1>6. ASSUME d.theme \in ThemeSet PROVE Meaning(Parse(out), <<"theme", "">>) = d.theme
  <2>1. d.theme # "" /\ d.theme # "wrong type" /\ ThemeOf(d.theme) = d.theme
    BY <1>6, DefaultTheme
  <2>2. g.theme = d.theme
    BY <2>1, <1>3, <1>4 DEF Parsed, Merges, Patched
  <2> QED
    BY <2>1, <2>2, <1>4, Meanings
<1>7. ASSUME d.statusline # "" PROVE Meaning(Parse(out), <<"statusline", "">>) = d.statusline
  <2>1. g.statusline = d.statusline
    BY <1>7, <1>3, <1>4 DEF Parsed, Merges, Patched
  <2> QED
    BY <2>1, <1>4, <1>7, Meanings DEF StatuslineOf
<1>8. ASSUME d.mode \in ModeSet PROVE Meaning(Parse(out), <<"mode", "">>) = d.mode
  <2>1. g.mode = d.mode
    BY <1>8, <1>3, <1>4 DEF Parsed, Merges, ModeSet, Patched
  <2> QED
    BY <2>1, <1>4, <1>8, Meanings DEF ModeOf, ModeSet
<1>9. ASSUME d.ack = "yes" PROVE Meaning(Parse(out), Ack) = "yes"
  <2>1. g.ack = "yes"
    BY <1>9, <1>3, <1>4 DEF Parsed, Merges, HasPermissions
  <2> QED
    BY <2>1, <1>4, Meanings
<1>10. ASSUME d.mode # "", d.ack # "yes", Meaning(Parse(file), Ack) = "no", file.form = "ok",
              d.ack = "" => file.doc.oldAck # "yes"
       PROVE  Meaning(Parse(out), Ack) = "no"
  <2>1. PICK e \in Docs : e = Parse(file) /\ Parsed(r, e)
    BY <1>1, <1>10, ParsesWell
  <2>2. e.ack # "yes"
    BY <1>10, <2>1, Meanings
  <2>3. d.ack \in {"", "no"} /\ r.ack \in {"", "yes", "no"}
    BY <1>10 DEF Docs
  <2>4. g.ack # "yes"
    <3>1. CASE r.ack = ""
      <4>1. n.ack = "" /\ n.oldAck = r.oldAck /\ r.oldAck # "yes"
        BY <3>1, <1>3, <1>10, <2>1, <2>2 DEF Merges, Parsed
      <4> QED
        BY <4>1, <1>4 DEF Parsed
    <3>2. CASE r.ack # ""
      <4>1. n.ack = d.ack /\ n.oldAck = r.oldAck
        BY <3>2, <1>3, <1>10 DEF Merges, HasPermissions
      <4> QED
        BY <4>1, <1>1, <1>4, <1>10, <2>3 DEF Parsed
    <3> QED
      BY <3>1, <3>2
  <2> QED
    BY <2>4, <1>4, Meanings
<1>11. \A q \in Protocols : Meaning(Parse(out), <<"effort", q>>) = Meaning(d, <<"effort", q>>)
  <2>1. g.effort = d.effort
    BY <1>3, <1>4 DEF Parsed, Merges
  <2> SUFFICES ASSUME NEW q \in Protocols PROVE Meaning(g, <<"effort", q>>) = Meaning(d, <<"effort", q>>)
    BY <1>4
  <2>2. Meaning(g, <<"effort", q>>) = EffortOf(g.effort[q])
    BY Meanings
  <2>3. Meaning(d, <<"effort", q>>) = EffortOf(d.effort[q])
    BY Meanings
  <2>4. g.effort[q] = d.effort[q]
    BY <2>1
  <2> QED
    BY <2>2, <2>3, <2>4
<1>12. ASSUME NEW id \in ProviderIds, d.profiles[id].model # "" \/ file.doc.profiles[id].model = ""
       PROVE  Meaning(Parse(out), <<"model", id>>) = Meaning(d, <<"model", id>>)
  <2>1. n.profiles[id] = MergeProfile(r.profiles[id], d.profiles[id]) /\ g.profiles = n.profiles
    BY <1>3, <1>4 DEF Merges, Parsed
  <2>2. g.profiles[id].model = d.profiles[id].model
    <3>1. n.profiles[id].model = Patched(r.profiles[id].model, d.profiles[id].model)
      BY <2>1 DEF MergeProfile
    <3> QED
      BY <1>1, <1>12, <2>1, <3>1 DEF Patched
  <2>3. Meaning(g, <<"model", id>>) = g.profiles[id].model
    BY Meanings
  <2>4. Meaning(d, <<"model", id>>) = d.profiles[id].model
    BY Meanings
  <2> QED
    BY <2>2, <2>3, <2>4, <1>4
<1>13. ASSUME NEW id \in ProviderIds, d.profiles[id].auth # "",
              \/ d.profiles[id].key # ""
              \/ /\ file.doc.profiles[id].key = ""
                 /\ d.profiles[id].env # "" \/ file.doc.profiles[id].env = ""
       PROVE  Meaning(Parse(out), <<"key", id>>) = Meaning(d, <<"key", id>>)
  <2>1. n.profiles[id] = MergeProfile(r.profiles[id], d.profiles[id]) /\ g.profiles = n.profiles
    BY <1>3, <1>4 DEF Merges, Parsed
  <2>2. /\ g.profiles[id].auth = d.profiles[id].auth /\ g.profiles[id].key = d.profiles[id].key
        /\ d.profiles[id].key = "" => g.profiles[id].env = d.profiles[id].env
    <3>1. /\ n.profiles[id].auth = Patched(r.profiles[id].auth, d.profiles[id].auth)
          /\ n.profiles[id].key = Patched(r.profiles[id].key, d.profiles[id].key)
          /\ n.profiles[id].env = Patched(r.profiles[id].env, d.profiles[id].env)
      BY <2>1 DEF MergeProfile
    <3> QED
      BY <1>1, <1>13, <2>1, <3>1 DEF Patched
  <2>3. KeySource(g.profiles[id]) = KeySource(d.profiles[id])
    BY <2>2 DEF KeySource
  <2>4. Meaning(g, <<"key", id>>) = KeySource(g.profiles[id])
    BY Meanings
  <2>5. Meaning(d, <<"key", id>>) = KeySource(d.profiles[id])
    BY Meanings
  <2> QED
    BY <2>3, <2>4, <2>5, <1>4
<1>14. WritesLook(file, d, out)
    BY <1>6, <1>7, <1>8, <1>9, <1>10, Zenon DEF WritesLook
<1>15. WritesLLM(file, d, out)
    BY <1>5, <1>11, <1>12, <1>13, Zenon DEF WritesLLM
<1> QED
    BY <1>14, <1>15

-----------------------------------------------------------------------------
(* What the changes save.                                                     *)

LEMMA StatuslinesAreTexts == StatuslineSet \subseteq Texts \ {""} /\ Statuslines[1] \in StatuslineSet
<1>1. PICK names : names = Texts \ {""}
    OBVIOUS
<1>2. Statuslines \in Seq(names) /\ Statuslines # <<>>
    BY <1>1, SettingsAssumption
<1>3. 1 \in DOMAIN Statuslines /\ \A i \in DOMAIN Statuslines : Statuslines[i] \in names
    BY <1>2
<1> QED
    BY <1>1, <1>3 DEF StatuslineSet

LEMMA NothingIsTyped == NoProfile \in ProfileSet /\ NoChange \in ChangeSet
<1>1. "" \in Texts
    BY SettingsAssumption
<1>2. NoProfile \in ProfileSet
    BY <1>1 DEF NoProfile, ProfileSet
<1> QED
    BY <1>1, <1>2 DEF NoChange, ChangeSet, ChangeKinds

LEMMA ScreenKinds ==
  ASSUME NEW c \in ScreenChanges
  PROVE  /\ c \in ChangeSet
         /\ \/ c.kind = "theme" /\ c.value \in ThemeSet
            \/ c.kind = "statusline" /\ c.value \in Texts \ {""}
            \/ c.kind = "mode" /\ c.value \in ModeSet
            \/ c.kind = "effort" /\ c.value \in {"auto", "high"}
            \/ c.kind = "model" /\ c.value = "m9"
<1>1. ThemeSet \subseteq Texts /\ StatuslineSet \subseteq Texts \ {""} /\ ModeSet \subseteq Texts
      /\ {"auto", "high", "m9"} \subseteq Texts
    BY DefaultTheme, StatuslinesAreTexts, SettingsAssumption DEF ModeSet
<1>2. \/ \E t \in ThemeSet : c = [NoChange EXCEPT !.kind = "theme", !.value = t]
      \/ \E t \in StatuslineSet : c = [NoChange EXCEPT !.kind = "statusline", !.value = t]
      \/ \E m \in ModeSet : c = [NoChange EXCEPT !.kind = "mode", !.value = m]
      \/ c = [NoChange EXCEPT !.kind = "mode", !.value = "full_access", !.extra = TRUE]
      \/ \E v \in {"auto", "high"} : c = [NoChange EXCEPT !.kind = "effort", !.value = v]
      \/ c = [NoChange EXCEPT !.kind = "model", !.value = "m9"]
    BY DEF ScreenChanges, ThemeSet, StatuslineSet, ModeSet
<1>3. ASSUME NEW k \in ChangeKinds, NEW v \in Texts, c = [NoChange EXCEPT !.kind = k, !.value = v]
      PROVE  c \in ChangeSet /\ c.kind = k /\ c.value = v
    BY <1>3, NothingIsTyped DEF ChangeSet
<1>4. CASE \E t \in ThemeSet : c = [NoChange EXCEPT !.kind = "theme", !.value = t]
    BY <1>1, <1>3, <1>4 DEF ChangeKinds
<1>5. CASE \E t \in StatuslineSet : c = [NoChange EXCEPT !.kind = "statusline", !.value = t]
    BY <1>1, <1>3, <1>5 DEF ChangeKinds
<1>6. CASE \E m \in ModeSet : c = [NoChange EXCEPT !.kind = "mode", !.value = m]
    BY <1>1, <1>3, <1>6 DEF ChangeKinds
<1>7. CASE c = [NoChange EXCEPT !.kind = "mode", !.value = "full_access", !.extra = TRUE]
    BY <1>1, <1>7, NothingIsTyped DEF ChangeSet, ChangeKinds, ModeSet
<1>8. CASE \E v \in {"auto", "high"} : c = [NoChange EXCEPT !.kind = "effort", !.value = v]
    BY <1>1, <1>3, <1>8 DEF ChangeKinds
<1>9. CASE c = [NoChange EXCEPT !.kind = "model", !.value = "m9"]
    BY <1>1, <1>3, <1>9 DEF ChangeKinds
<1> QED
    BY <1>2, <1>4, <1>5, <1>6, <1>7, <1>8, <1>9

LEMMA WizardKinds ==
  ASSUME NEW c \in WizardChanges
  PROVE  /\ c \in ChangeSet /\ c.field \in ProviderIds
         /\ \/ c.kind = "profile" /\ c.profile.auth # ""
            \/ c.kind = "default"
<1>1. \/ \E id \in ProviderIds, entered \in Profiles, b \in BOOLEAN : c = ProfileChange(id, entered, b)
      \/ \E id \in ProviderIds : c = DefaultChange(id)
  <2>1. CASE c \in {ProfileChange(id, entered, b) : id \in ProviderIds, entered \in Profiles, b \in BOOLEAN}
    BY <2>1
  <2>2. CASE c \in {DefaultChange(id) : id \in ProviderIds}
    BY <2>2
  <2> QED
    BY <2>1, <2>2 DEF WizardChanges
<1>2. ASSUME NEW id \in ProviderIds, NEW entered \in Profiles, NEW b \in BOOLEAN, c = ProfileChange(id, entered, b)
      PROVE  c \in ChangeSet /\ c.field \in ProviderIds /\ c.kind = "profile" /\ c.profile.auth # ""
  <2>1. entered \in ProfileSet /\ entered.auth # ""
    BY SettingsAssumption
  <2> QED
    BY <1>2, <2>1, NothingIsTyped DEF ProfileChange, ChangeSet, ChangeKinds
<1>3. ASSUME NEW id \in ProviderIds, c = DefaultChange(id)
      PROVE  c \in ChangeSet /\ c.field \in ProviderIds /\ c.kind = "default"
    BY <1>3, NothingIsTyped DEF DefaultChange, ChangeSet, ChangeKinds
<1> QED
    BY <1>1, <1>2, <1>3

\* The fields of a screen's look that a change saves along.
Looks(c) ==
    IF c.kind \in {"theme", "statusline"} THEN ScreenFields ELSE IF c.kind = "mode" THEN {Ack} ELSE {}

\* The fields that an entered profile leaves as they are in the file.
Left(c, file) == IF c.kind = "profile" THEN LeftAsItWas(c.profile, file.doc.profiles) ELSE {}

\* The acknowledgement a screen remembers is the file's, and the file has no older one.
AckKept(q, file) ==
    /\ file.form = "ok" /\ Meaning(Parse(file), Ack) = Shown(q, Ack)
    /\ q.ack = "" => file.doc.oldAck # "yes"

\* A save writes what was chosen, leaves what it is not about, and puts what the screen shows.
SavesWell(q, c, file, d, out, own) ==
    /\ d \in Docs /\ own \subseteq SettingsFields
    /\ \A f \in own : f \notin Left(c, file) => Meaning(Parse(out), f) = Meaning(d, f)
    /\ \A f \in SettingsFields \ own :
          /\ f \notin Looks(c) /\ file.form = "ok" => Meaning(Parse(out), f) = Meaning(Parse(file), f)
          /\ f \in Looks(c) /\ (f = Ack => AckKept(q, file)) => Meaning(Parse(out), f) = Shown(q, f)

LEMMA AckIsWritten ==
  ASSUME NEW file, NEW d, NEW q, NEW out, WritesLook(file, d, out),
         d.mode \in ModeSet, d.ack = q.ack, AckKept(q, file)
  PROVE  Meaning(Parse(out), Ack) = Shown(q, Ack)
<1>1. Shown(q, Ack) = IF q.ack = "yes" THEN "yes" ELSE "no"
    BY DEF Shown, Ack
<1>2. CASE d.ack = "yes"
    BY <1>1, <1>2, Zenon DEF WritesLook
<1>3. CASE d.ack # "yes"
  <2>1. Shown(q, Ack) = "no" /\ d.mode # "" /\ Meaning(Parse(file), Ack) = "no" /\ file.form = "ok"
        /\ (d.ack = "" => file.doc.oldAck # "yes")
    BY <1>1, <1>3 DEF AckKept, ModeSet
  <2> QED
    BY <1>3, <2>1, Zenon DEF WritesLook
<1> QED
    BY <1>2, <1>3

\* The settings that are saved have the fields that were loaded, but for the change's.
SameLook(e, d) == d.theme = e.theme /\ d.statusline = e.statusline /\ d.mode = e.mode /\ d.ack = e.ack
SameLLM(e, d) == d.default = e.default /\ d.effort = e.effort /\ d.profiles = e.profiles

LEMMA LookIsSaved ==
  ASSUME NEW p, NEW file \in Files, NEW e \in Docs, e = Parse(file), NEW c \in ChangeSet, NEW q \in ProcSet, q = proc[p],
         q.theme \in ThemeSet, q.statusline \in Texts \ {""}, q.mode \in ModeSet,
         \/ c.kind = "theme" /\ c.value \in ThemeSet
         \/ c.kind = "statusline" /\ c.value \in Texts \ {""},
         NEW d, d = Changed(p, e, c),
         NEW out, out = [form |-> "ok", doc |-> MergeRaw(file, d)]
  PROVE  SavesWell(q, c, file, d, out, Chosen(p, c))
<1>1. PICK shown : shown = [e EXCEPT !.theme = q.theme, !.statusline = q.statusline, !.mode = q.mode, !.ack = q.ack]
    OBVIOUS
<1>2. q.ack \in {"", "yes", "no"} /\ q.mode \in Texts /\ q.theme \in Texts
    BY DEF ProcSet
<1>3. /\ shown \in Docs /\ shown.theme = q.theme /\ shown.statusline = q.statusline /\ shown.mode = q.mode
      /\ shown.ack = q.ack /\ SameLLM(e, shown)
    BY <1>1, <1>2 DEF Docs, SameLLM
<1>4. \/ c.kind = "theme" /\ d = [shown EXCEPT !.theme = c.value]
      \/ c.kind = "statusline" /\ d = [shown EXCEPT !.statusline = c.value]
    BY <1>1 DEF Changed
<1>5. c.value \in Texts
    BY DEF ChangeSet
<1>6. /\ d \in Docs /\ d.mode = q.mode /\ d.ack = q.ack /\ SameLLM(e, d)
      /\ c.kind = "theme" => d.theme = c.value /\ d.statusline = q.statusline
      /\ c.kind = "statusline" => d.statusline = c.value /\ d.theme = q.theme
  <2>1. CASE c.kind = "theme"
    <3>1. d = [shown EXCEPT !.theme = c.value]
      BY <1>4, <2>1
    <3>2. d \in Docs
      BY <3>1, <1>3, <1>5 DEF Docs
    <3>3. /\ d.theme = c.value /\ d.statusline = shown.statusline /\ d.mode = shown.mode /\ d.ack = shown.ack
          /\ d.default = shown.default /\ d.effort = shown.effort /\ d.profiles = shown.profiles
      BY <3>1, <1>3 DEF Docs
    <3> QED
      BY <1>3, <2>1, <3>2, <3>3 DEF SameLLM
  <2>2. CASE c.kind = "statusline"
    <3>1. d = [shown EXCEPT !.statusline = c.value]
      BY <1>4, <2>2
    <3>2. d \in Docs
      BY <3>1, <1>3, <1>5 DEF Docs
    <3>3. /\ d.statusline = c.value /\ d.theme = shown.theme /\ d.mode = shown.mode /\ d.ack = shown.ack
          /\ d.default = shown.default /\ d.effort = shown.effort /\ d.profiles = shown.profiles
      BY <3>1, <1>3 DEF Docs
    <3> QED
      BY <1>3, <2>2, <3>2, <3>3 DEF SameLLM
  <2> QED
    BY <1>4, <2>1, <2>2
<1>7. Chosen(p, c) = {<<c.kind, "">>} /\ Looks(c) = ScreenFields /\ Left(c, file) = {}
    BY DEF Chosen, Looks, Left
<1>8. <<c.kind, "">> \in SettingsFields /\ <<c.kind, "">> \in ScreenFields
    BY DEF SettingsFields, ScreenFields
<1>9. d.theme \in ThemeSet /\ d.statusline # "" /\ d.mode \in ModeSet
    BY <1>6
<1>10. /\ Meaning(Parse(out), <<"theme", "">>) = d.theme
       /\ Meaning(Parse(out), <<"statusline", "">>) = d.statusline
       /\ Meaning(Parse(out), <<"mode", "">>) = d.mode
  <2>1. WritesLook(file, d, out)
    BY <1>6, Written
  <2> QED
    BY <1>9, <2>1, Zenon DEF WritesLook
<1>11. Meaning(d, <<"theme", "">>) = d.theme /\ Meaning(d, <<"statusline", "">>) = d.statusline
  <2>1. Meaning(d, <<"theme", "">>) = ThemeOf(d.theme)
    BY Meanings
  <2>2. Meaning(d, <<"statusline", "">>) = StatuslineOf(d.statusline)
    BY Meanings
  <2> QED
    BY <1>9, <2>1, <2>2, DefaultTheme DEF StatuslineOf
<1>12. Meaning(Parse(out), <<c.kind, "">>) = Meaning(d, <<c.kind, "">>)
    BY <1>10, <1>11
<1>13. ASSUME NEW f \in SettingsFields, f \notin ScreenFields, file.form = "ok"
       PROVE  Meaning(Parse(out), f) = Meaning(Parse(file), f)
  <2>1. Agrees(e, d, f)
    BY <1>6, <1>13 DEF Agrees, SameLLM, ScreenFields, Ack
  <2> QED
    BY <1>6, <1>13, <2>1, Untouched
<1>14. ASSUME NEW f \in ScreenFields, f # <<c.kind, "">>, f = Ack => AckKept(q, file)
       PROVE  Meaning(Parse(out), f) = Shown(q, f)
  <2>1. CASE f = <<"theme", "">>
    BY <1>6, <1>10, <1>14, <2>1 DEF Shown
  <2>2. CASE f = <<"statusline", "">>
    BY <1>6, <1>10, <1>14, <2>2 DEF Shown
  <2>3. CASE f = <<"mode", "">>
    BY <1>6, <1>10, <1>14, <2>3 DEF Shown
  <2>4. CASE f = Ack
    <3>1. AckKept(q, file)
      BY <1>14, <2>4
    <3>2. d.mode \in ModeSet /\ d.ack = q.ack
      BY <1>6
    <3>3. WritesLook(file, d, out)
      BY <1>6, Written
    <3>4. Meaning(Parse(out), Ack) = Shown(q, Ack)
      BY <3>1, <3>2, <3>3, AckIsWritten
    <3> QED
      BY <2>4, <3>4
  <2> QED
    BY <2>1, <2>2, <2>3, <2>4 DEF ScreenFields, Ack
<1> QED
    BY <1>6, <1>7, <1>8, <1>12, <1>13, <1>14 DEF SavesWell

LEMMA ModeIsSaved ==
  ASSUME NEW p, NEW file \in Files, NEW e \in Docs, e = Parse(file), NEW c \in ChangeSet, NEW q \in ProcSet, q = proc[p],
         c.kind = "mode", c.value \in ModeSet,
         NEW d, d = Changed(p, e, c),
         NEW out, out = [form |-> "ok", doc |-> MergeRaw(file, d)]
  PROVE  SavesWell(q, c, file, d, out, Chosen(p, c))
<1>1. PICK ak : ak = IF c.extra THEN "yes" ELSE q.ack
    OBVIOUS
<1>2. ak \in {"", "yes", "no"} /\ c.value \in Texts
    BY <1>1 DEF ProcSet, ChangeSet
<1>3. d = [e EXCEPT !.mode = c.value, !.ack = ak]
    BY <1>1 DEF Changed
<1>4. /\ d \in Docs /\ d.mode = c.value /\ d.ack = ak /\ d.theme = e.theme /\ d.statusline = e.statusline
      /\ SameLLM(e, d)
    BY <1>2, <1>3 DEF Docs, SameLLM
<1>5. Chosen(p, c) = {<<"mode", "">>} \cup (IF c.extra THEN {Ack} ELSE {}) /\ Looks(c) = {Ack} /\ Left(c, file) = {}
    BY DEF Chosen, Looks, Left, Ack
<1>6. <<"mode", "">> \in SettingsFields /\ Ack \in SettingsFields /\ Ack # <<"mode", "">>
    BY DEF SettingsFields, Ack
<1>7. Meaning(Parse(out), <<"mode", "">>) = Meaning(d, <<"mode", "">>)
  <2>1. WritesLook(file, d, out)
    BY <1>4, Written
  <2>2. Meaning(Parse(out), <<"mode", "">>) = d.mode
    BY <1>4, <2>1, Zenon DEF WritesLook
  <2>3. Meaning(d, <<"mode", "">>) = ModeOf(d.mode)
    BY Meanings
  <2> QED
    BY <2>2, <2>3, <1>4 DEF ModeOf, ModeSet
<1>8. c.extra => Meaning(Parse(out), Ack) = Meaning(d, Ack)
  <2> SUFFICES ASSUME c.extra PROVE Meaning(Parse(out), Ack) = Meaning(d, Ack)
    OBVIOUS
  <2>1. d.ack = "yes"
    BY <1>1, <1>4
  <2>2. Meaning(Parse(out), Ack) = "yes"
    <3>1. WritesLook(file, d, out)
      BY <1>4, Written
    <3> QED
      BY <2>1, <3>1, Zenon DEF WritesLook
  <2>3. Meaning(d, Ack) = (IF d.ack = "yes" THEN "yes" ELSE "no")
    BY Meanings
  <2> QED
    BY <2>1, <2>2, <2>3
<1>9. ~c.extra /\ AckKept(q, file) => Meaning(Parse(out), Ack) = Shown(q, Ack)
  <2>1. WritesLook(file, d, out)
    BY <1>4, Written
  <2>2. d.mode \in ModeSet /\ (~c.extra => d.ack = q.ack)
    BY <1>1, <1>4
  <2> QED
    BY <2>1, <2>2, AckIsWritten
<1>10. ASSUME NEW f \in SettingsFields, f # <<"mode", "">>, f # Ack, file.form = "ok"
       PROVE  Meaning(Parse(out), f) = Meaning(Parse(file), f)
  <2>1. Agrees(e, d, f)
    BY <1>4, <1>10 DEF Agrees, SameLLM
  <2> QED
    BY <1>4, <1>10, <2>1, Untouched
<1>11. PICK own : own = Chosen(p, c)
    OBVIOUS
<1>12. own \subseteq SettingsFields /\ own \subseteq {<<"mode", "">>, Ack} /\ <<"mode", "">> \in own /\ (Ack \in own <=> c.extra)
    BY <1>5, <1>6, <1>11
<1>13. \A f \in own : Meaning(Parse(out), f) = Meaning(d, f)
    BY <1>7, <1>8, <1>12
<1>14. ASSUME NEW f \in SettingsFields \ own
       PROVE  /\ f \notin Looks(c) /\ file.form = "ok" => Meaning(Parse(out), f) = Meaning(Parse(file), f)
              /\ f \in Looks(c) /\ (f = Ack => AckKept(q, file)) => Meaning(Parse(out), f) = Shown(q, f)
  <2>1. CASE f = Ack
    BY <2>1, <1>5, <1>9, <1>12
  <2>2. CASE f # Ack
    BY <2>2, <1>5, <1>10, <1>12
  <2> QED
    BY <2>1, <2>2
<1> QED
    BY <1>4, <1>11, <1>12, <1>13, <1>14 DEF SavesWell

LEMMA DefaultIsWritten ==
  ASSUME NEW file \in Files, NEW d \in Docs, d.default # "",
         NEW out, out = [form |-> "ok", doc |-> MergeRaw(file, d)]
  PROVE  Meaning(Parse(out), <<"default", "">>) = Meaning(d, <<"default", "">>)
<1>1. WritesLLM(file, d, out)
    BY Written
<1> QED
    BY <1>1, Zenon DEF WritesLLM

LEMMA EffortIsWritten ==
  ASSUME NEW file \in Files, NEW d \in Docs, NEW q \in Protocols,
         NEW out, out = [form |-> "ok", doc |-> MergeRaw(file, d)]
  PROVE  Meaning(Parse(out), <<"effort", q>>) = Meaning(d, <<"effort", q>>)
<1>1. WritesLLM(file, d, out)
    BY Written
<1> QED
    BY <1>1, Zenon DEF WritesLLM

LEMMA KeyIsWritten ==
  ASSUME NEW file \in Files, NEW d \in Docs, NEW id \in ProviderIds, d.profiles[id].auth # "",
         \/ d.profiles[id].key # ""
         \/ /\ file.doc.profiles[id].key = ""
            /\ d.profiles[id].env # "" \/ file.doc.profiles[id].env = "",
         NEW out, out = [form |-> "ok", doc |-> MergeRaw(file, d)]
  PROVE  Meaning(Parse(out), <<"key", id>>) = Meaning(d, <<"key", id>>)
<1>1. WritesLLM(file, d, out)
    BY Written
<1> QED
    BY <1>1, Zenon DEF WritesLLM

\* A change of the settings for the model says nothing of the screen's look.
LEMMA LLMIsSaved ==
  ASSUME NEW file \in Files, NEW c, NEW q,
         c.kind \in {"effort", "model", "profile", "default"},
         NEW d \in Docs, NEW own \in SUBSET SettingsFields,
         NEW out, out = [form |-> "ok", doc |-> MergeRaw(file, d)],
         \A f \in own : f \notin Left(c, file) => Meaning(Parse(out), f) = Meaning(d, f),
         \A f \in SettingsFields \ own : Agrees(Parse(file), d, f)
  PROVE  SavesWell(q, c, file, d, out, own)
<1>1. Looks(c) = {}
    BY DEF Looks
<1>2. ASSUME NEW f \in SettingsFields \ own, file.form = "ok"
      PROVE  Meaning(Parse(out), f) = Meaning(Parse(file), f)
    BY <1>2, Untouched
<1> QED
    BY <1>1, <1>2 DEF SavesWell

LEMMA EffortIsSaved ==
  ASSUME NEW p, NEW file \in Files, NEW e \in Docs, e = Parse(file), NEW c \in ChangeSet, NEW q \in ProcSet, q = proc[p],
         c.kind = "effort", c.value \in {"auto", "high"}, q.protocol \in Protocols,
         NEW d, d = Changed(p, e, c),
         NEW out, out = [form |-> "ok", doc |-> MergeRaw(file, d)]
  PROVE  SavesWell(q, c, file, d, out, Chosen(p, c))
<1>1. PICK v : v = IF c.value = "auto" THEN "" ELSE c.value
    OBVIOUS
<1>2. v \in Texts
    BY <1>1, SettingsAssumption
<1>3. d = [e EXCEPT !.effort[q.protocol] = v]
    BY <1>1 DEF Changed
<1>4. e.effort \in [Protocols -> Texts]
    BY DEF Docs
<1>5. PICK efforts : efforts = [e.effort EXCEPT ![q.protocol] = v]
    OBVIOUS
<1>6. efforts \in [Protocols -> Texts] /\ \A r \in Protocols : r # q.protocol => efforts[r] = e.effort[r]
    BY <1>2, <1>4, <1>5
<1>7. d = [e EXCEPT !.effort = efforts]
    BY <1>3, <1>5 DEF Docs
<1>8. d \in Docs /\ SameLook(e, d) /\ d.default = e.default /\ d.profiles = e.profiles /\ d.effort = efforts
    BY <1>6, <1>7 DEF Docs, SameLook
<1>9. PICK own : own = {<<"effort", q.protocol>>}
    OBVIOUS
<1>10. Chosen(p, c) = own
    BY <1>9 DEF Chosen
<1>11. own \in SUBSET SettingsFields
    BY <1>9 DEF SettingsFields
<1>12. \A f \in own : f \notin Left(c, file) => Meaning(Parse(out), f) = Meaning(d, f)
    BY <1>8, <1>9, EffortIsWritten
<1>13. ASSUME NEW f \in SettingsFields \ own PROVE Agrees(e, d, f)
  <2>1. \A r \in Protocols : f = <<"effort", r>> => d.effort[r] = e.effort[r]
    BY <1>6, <1>8, <1>9, <1>13
  <2> QED
    BY <1>8, <2>1 DEF Agrees, SameLook
<1> QED
    BY <1>8, <1>10, <1>11, <1>12, <1>13, LLMIsSaved

LEMMA ModelIsSaved ==
  ASSUME NEW p, NEW file \in Files, NEW e \in Docs, e = Parse(file), NEW c \in ChangeSet, NEW q \in ProcSet, q = proc[p],
         c.kind = "model", c.value = "m9", q.saved # "",
         NEW d, d = Changed(p, e, c),
         NEW out, out = [form |-> "ok", doc |-> MergeRaw(file, d)]
  PROVE  SavesWell(q, c, file, d, out, Chosen(p, c))
<1>1. q.saved \in ProviderIds /\ c.value \in Texts
    BY DEF ProcSet, ChangeSet
<1>2. PICK old \in ProfileSet : old = e.profiles[q.saved]
    BY <1>1 DEF Docs
<1>3. PICK new : new = [old EXCEPT !.model = c.value]
    OBVIOUS
<1>4. new \in ProfileSet /\ new.model = c.value /\ new.auth = old.auth /\ new.key = old.key /\ new.env = old.env
    BY <1>1, <1>3 DEF ProfileSet
<1>5. PICK profiles : profiles = [e.profiles EXCEPT ![q.saved] = new]
    OBVIOUS
<1>6. e.profiles \in [ProviderIds -> ProfileSet]
    BY DEF Docs
<1>7. /\ profiles \in [ProviderIds -> ProfileSet] /\ profiles[q.saved] = new
      /\ \A id \in ProviderIds : id # q.saved => profiles[id] = e.profiles[id]
    BY <1>1, <1>4, <1>5, <1>6
<1>8. d = [e EXCEPT !.profiles = profiles]
  <2>1. d = [e EXCEPT !.profiles[q.saved].model = c.value]
    BY DEF Changed
  <2> QED
    BY <2>1, <1>2, <1>3, <1>5 DEF Docs
<1>9. d \in Docs /\ SameLook(e, d) /\ d.default = e.default /\ d.effort = e.effort /\ d.profiles = profiles
    BY <1>7, <1>8 DEF Docs, SameLook
<1>10. PICK own : own = {<<"model", q.saved>>}
    OBVIOUS
<1>11. Chosen(p, c) = own
    BY <1>10 DEF Chosen
<1>12. own \in SUBSET SettingsFields
    BY <1>1, <1>10 DEF SettingsFields
<1>13. \A f \in own : f \notin Left(c, file) => Meaning(Parse(out), f) = Meaning(d, f)
  <2>1. d.profiles[q.saved].model # ""
    BY <1>4, <1>7, <1>9
  <2>2. d \in Docs
    BY <1>9
  <2>3. WritesLLM(file, d, out)
    BY <2>2, Written
  <2>4. Meaning(Parse(out), <<"model", q.saved>>) = Meaning(d, <<"model", q.saved>>)
    BY <1>1, <2>1, <2>3, Zenon DEF WritesLLM
  <2> QED
    BY <2>4, <1>10
<1>14. ASSUME NEW f \in SettingsFields \ own PROVE Agrees(e, d, f)
  <2>1. ASSUME NEW id \in ProviderIds, f = <<"model", id>> PROVE d.profiles[id].model = e.profiles[id].model
    BY <1>7, <1>9, <1>10, <1>14, <2>1
  <2>2. ASSUME NEW id \in ProviderIds
        PROVE  /\ d.profiles[id].auth = e.profiles[id].auth /\ d.profiles[id].key = e.profiles[id].key
               /\ d.profiles[id].env = e.profiles[id].env
    BY <1>2, <1>4, <1>7, <1>9
  <2> QED
    BY <1>9, <2>1, <2>2 DEF Agrees, SameLook
<1>15. Looks(c) = {}
    BY DEF Looks
<1>16. ASSUME NEW f \in SettingsFields \ own, file.form = "ok"
       PROVE  Meaning(Parse(out), f) = Meaning(Parse(file), f)
    BY <1>9, <1>14, <1>16, Untouched
<1>17. SavesWell(q, c, file, d, out, own)
    BY <1>9, <1>12, <1>13, <1>15, <1>16 DEF SavesWell
<1> QED
    BY <1>11, <1>17

LEMMA DefaultIsSaved ==
  ASSUME NEW p, NEW file \in Files, NEW e \in Docs, e = Parse(file), NEW c \in ChangeSet, NEW q \in ProcSet, q = proc[p],
         c.kind = "default", c.field \in ProviderIds,
         NEW d, d = Changed(p, e, c),
         NEW out, out = [form |-> "ok", doc |-> MergeRaw(file, d)]
  PROVE  SavesWell(q, c, file, d, out, Chosen(p, c))
<1>1. d = [e EXCEPT !.default = c.field]
    BY DEF Changed
<1>2. d \in Docs /\ SameLook(e, d) /\ d.default = c.field /\ d.effort = e.effort /\ d.profiles = e.profiles
    BY <1>1 DEF Docs, SameLook
<1>3. PICK own : own = {<<"default", "">>}
    OBVIOUS
<1>4. Chosen(p, c) = own
    BY <1>3 DEF Chosen
<1>5. own \in SUBSET SettingsFields
    BY <1>3 DEF SettingsFields
<1>6. \A f \in own : f \notin Left(c, file) => Meaning(Parse(out), f) = Meaning(d, f)
  <2>1. d.default # ""
    BY <1>2 DEF ProviderIds
  <2> QED
    <3>1. Meaning(Parse(out), <<"default", "">>) = Meaning(d, <<"default", "">>)
      BY <1>2, <2>1, DefaultIsWritten
    <3> QED
      BY <3>1, <1>3
<1>7. ASSUME NEW f \in SettingsFields \ own PROVE Agrees(e, d, f)
    BY <1>2, <1>3, <1>7 DEF Agrees, SameLook
<1> QED
    BY <1>2, <1>4, <1>5, <1>6, <1>7, LLMIsSaved

LEMMA ProfileIsSaved ==
  ASSUME NEW p, NEW file \in Files, NEW e \in Docs, e = Parse(file), NEW c \in ChangeSet, NEW q \in ProcSet, q = proc[p],
         c.kind = "profile", c.field \in ProviderIds, c.profile.auth # "",
         NEW d, d = Changed(p, e, c),
         NEW out, out = [form |-> "ok", doc |-> MergeRaw(file, d)]
  PROVE  SavesWell(q, c, file, d, out, Chosen(p, c))
<1>1. PICK new \in ProfileSet, id \in ProviderIds : new = c.profile /\ id = c.field
    BY DEF ChangeSet
<1>2. PICK profiles, df : /\ profiles = [e.profiles EXCEPT ![id] = new]
                          /\ df = IF c.extra THEN id ELSE e.default
    OBVIOUS
<1>3. e.profiles \in [ProviderIds -> ProfileSet] /\ df \in {""} \cup ProviderIds
    BY <1>2 DEF Docs
<1>4. /\ profiles \in [ProviderIds -> ProfileSet] /\ profiles[id] = new
      /\ \A k \in ProviderIds : k # id => profiles[k] = e.profiles[k]
    BY <1>2, <1>3
<1>5. d = [e EXCEPT !.profiles = profiles, !.default = df]
    BY <1>1, <1>2 DEF Changed, Docs
<1>6. d \in Docs /\ SameLook(e, d) /\ d.default = df /\ d.effort = e.effort /\ d.profiles = profiles
    BY <1>3, <1>4, <1>5 DEF Docs, SameLook
<1>7. PICK own : own = Chosen(p, c)
    OBVIOUS
<1>8. own = {<<"model", id>>, <<"key", id>>} \cup (IF c.extra THEN {<<"default", "">>} ELSE {})
    BY <1>1, <1>7 DEF Chosen
<1>9. own \in SUBSET SettingsFields
    BY <1>8 DEF SettingsFields
<1>10. PICK raw : raw = file.doc.profiles
    OBVIOUS
<1>11. Left(c, file) = LeftAsItWas(new, raw)
    BY <1>1, <1>10 DEF Left
<1>12. <<"model", id>> \notin LeftAsItWas(new, raw) =>
          Meaning(Parse(out), <<"model", id>>) = Meaning(d, <<"model", id>>)
  <2> SUFFICES ASSUME <<"model", id>> \notin LeftAsItWas(new, raw)
               PROVE  Meaning(Parse(out), <<"model", id>>) = Meaning(d, <<"model", id>>)
    OBVIOUS
  <2>1. new.model # "" \/ raw[id].model = ""
    BY DEF LeftAsItWas
  <2>2. d.profiles[id].model # "" \/ file.doc.profiles[id].model = ""
    BY <2>1, <1>4, <1>6, <1>10
  <2>3. d \in Docs
    BY <1>6
  <2>4. WritesLLM(file, d, out)
    BY <2>3, Written
  <2> QED
    BY <2>2, <2>4, Zenon DEF WritesLLM
<1>13. <<"key", id>> \notin LeftAsItWas(new, raw) =>
          Meaning(Parse(out), <<"key", id>>) = Meaning(d, <<"key", id>>)
  <2> SUFFICES ASSUME <<"key", id>> \notin LeftAsItWas(new, raw)
               PROVE  Meaning(Parse(out), <<"key", id>>) = Meaning(d, <<"key", id>>)
    OBVIOUS
  <2>1. new.key # "" \/ (raw[id].key = "" /\ (new.env # "" \/ raw[id].env = ""))
    BY DEF LeftAsItWas
  <2>2. /\ d.profiles[id].auth # ""
        /\ \/ d.profiles[id].key # ""
           \/ /\ file.doc.profiles[id].key = ""
              /\ d.profiles[id].env # "" \/ file.doc.profiles[id].env = ""
    BY <2>1, <1>1, <1>4, <1>6, <1>10
  <2>3. d \in Docs
    BY <1>6
  <2>4. WritesLLM(file, d, out)
    BY <2>3, Written
  <2> QED
    BY <2>2, <2>4, Zenon DEF WritesLLM
<1>14. c.extra => Meaning(Parse(out), <<"default", "">>) = Meaning(d, <<"default", "">>)
  <2> SUFFICES ASSUME c.extra PROVE Meaning(Parse(out), <<"default", "">>) = Meaning(d, <<"default", "">>)
    OBVIOUS
  <2>1. d.default # ""
    BY <1>2, <1>6 DEF ProviderIds
  <2> QED
    BY <1>6, <2>1, DefaultIsWritten
<1>15. \A f \in own : f \notin Left(c, file) => Meaning(Parse(out), f) = Meaning(d, f)
  <2> SUFFICES ASSUME NEW f \in own, f \notin Left(c, file) PROVE Meaning(Parse(out), f) = Meaning(d, f)
    OBVIOUS
  <2>1. CASE f = <<"model", id>>
    BY <2>1, <1>11, <1>12
  <2>2. CASE f = <<"key", id>>
    BY <2>2, <1>11, <1>13
  <2>3. CASE f = <<"default", "">> /\ c.extra
    BY <2>3, <1>14
  <2> QED
    BY <1>8, <2>1, <2>2, <2>3
<1>16. ASSUME NEW f \in SettingsFields \ own PROVE Agrees(e, d, f)
  <2>1. f # <<"model", id>> /\ f # <<"key", id>>
    BY <1>8, <1>16
  <2>2. ASSUME NEW k \in ProviderIds, f = <<"model", k>> \/ f = <<"key", k>> PROVE d.profiles[k] = e.profiles[k]
    <3>1. k # id
      BY <2>1, <2>2
    <3> QED
      BY <3>1, <1>4, <1>6
  <2>3. f = <<"default", "">> => d.default = e.default
    BY <1>2, <1>6, <1>8, <1>16
  <2> QED
    BY <1>6, <2>2, <2>3 DEF Agrees, SameLook
<1>17. Looks(c) = {}
    BY DEF Looks
<1>18. ASSUME NEW f \in SettingsFields \ own, file.form = "ok"
       PROVE  Meaning(Parse(out), f) = Meaning(Parse(file), f)
    BY <1>6, <1>16, <1>18, Untouched
<1>19. SavesWell(q, c, file, d, out, own)
    BY <1>6, <1>9, <1>15, <1>17, <1>18 DEF SavesWell
<1> QED
    BY <1>7, <1>19

\* Every save does what it should.
LEMMA SavesAreRight ==
  ASSUME SettingsTypeOK, ScreensShowChoices, SavingIsAllowed, SettingsAssumption,
         NEW p \in SettingsProcesses, proc[p].pc = "saving",
         NEW c, c = proc[p].change, NEW file, file = proc[p].file,
         NEW d, d = Changed(p, Parse(file), c),
         NEW out, out = [form |-> "ok", doc |-> MergeRaw(file, d)]
  PROVE  /\ c \in ChangeSet /\ file \in Files /\ out \in Files
         /\ SavesWell(proc[p], c, file, d, out, Chosen(p, c))
<1>1. PICK q \in ProcSet : q = proc[p]
    BY DEF SettingsTypeOK
<1>2. c \in ChangeSet /\ file \in Files
    BY <1>1 DEF ProcSet
<1>3. PICK e \in Docs : e = Parse(file)
    BY <1>2, ParseIsDoc
<1>4. SavesWell(q, c, file, d, out, Chosen(p, c))
  <2>1. CASE p = Wizard
    <3>1. c \in WizardChanges
      BY <2>1 DEF SavingIsAllowed
    <3>2. c.field \in ProviderIds /\ (\/ c.kind = "profile" /\ c.profile.auth # ""
                                      \/ c.kind = "default")
      BY <3>1, WizardKinds
    <3> QED
      BY <1>1, <1>2, <1>3, <3>2, ProfileIsSaved, DefaultIsSaved
  <2>2. CASE p # Wizard
    <3>1. p \in Screens /\ c \in ScreenChanges
      BY <2>2 DEF SavingIsAllowed, SettingsProcesses
    <3>2. /\ q.theme \in ThemeSet /\ q.statusline \in Texts \ {""} /\ q.mode \in ModeSet /\ q.protocol \in Protocols
      BY <3>1, <1>1 DEF ScreensShowChoices
    <3>3. c.kind = "model" => q.saved # ""
      BY <1>1 DEF SavingIsAllowed
    <3>4. CASE \/ c.kind = "theme" /\ c.value \in ThemeSet
               \/ c.kind = "statusline" /\ c.value \in Texts \ {""}
      BY <1>1, <1>2, <1>3, <3>2, <3>4, LookIsSaved
    <3>5. CASE c.kind = "mode" /\ c.value \in ModeSet
      BY <1>1, <1>2, <1>3, <3>5, ModeIsSaved
    <3>6. CASE c.kind = "effort" /\ c.value \in {"auto", "high"}
      BY <1>1, <1>2, <1>3, <3>2, <3>6, EffortIsSaved
    <3>7. CASE c.kind = "model" /\ c.value = "m9"
      BY <1>1, <1>2, <1>3, <3>3, <3>7, ModelIsSaved
    <3> QED
      BY <3>1, <3>4, <3>5, <3>6, <3>7, ScreenKinds
  <2> QED
    BY <2>1, <2>2
<1>5. d \in Docs
    BY <1>4 DEF SavesWell
<1> QED
    BY <1>1, <1>2, <1>4, <1>5, MergesWell

LEMMA OffIsTyped == Off \in ProcSet /\ EmptyDoc \in Docs /\ Off.file \in Files
<1>1. "" \in Texts
    BY SettingsAssumption
<1>2. [id \in ProviderIds |-> NoProfile] \in [ProviderIds -> ProfileSet] /\ [q \in Protocols |-> ""] \in [Protocols -> Texts]
    BY <1>1, NothingIsTyped
<1>3. EmptyDoc \in Docs
    BY <1>1, <1>2 DEF EmptyDoc, Docs
<1>4. [form |-> "none", doc |-> EmptyDoc] \in Files
    BY <1>3 DEF Files
<1>5. Off.file = [form |-> "none", doc |-> EmptyDoc]
    BY DEF Off
<1>6. Off \in ProcSet
    BY <1>1, <1>4, NothingIsTyped DEF Off, ProcSet
<1> QED
    BY <1>3, <1>4, <1>5, <1>6

\* What reads from a file that was just read looks as a screen shows it.
LEMMA LookIsShown ==
  ASSUME NEW d \in Docs
  PROVE  /\ ThemeOf(d.theme) \in ThemeSet
         /\ StatuslineOf(d.statusline) \in Texts \ {""}
         /\ ModeOf(d.mode) \in ModeSet
<1>1. ThemeOf(d.theme) \in ThemeSet
  <2>1. CASE InSeq(d.theme, Themes)
    <3>1. PICK i \in DOMAIN Themes : Themes[i] = d.theme
      BY <2>1 DEF InSeq
    <3>2. Themes[i] \in ThemeSet
      BY DEF ThemeSet
    <3> QED
      BY <2>1, <3>1, <3>2 DEF ThemeOf
  <2>2. CASE ~InSeq(d.theme, Themes)
    BY <2>2, DefaultTheme DEF ThemeOf
  <2> QED
    BY <2>1, <2>2
<1>2. d.statusline \in Texts
    BY DEF Docs
<1>3. StatuslineOf(d.statusline) \in Texts \ {""}
    BY <1>2, StatuslinesAreTexts DEF StatuslineOf
<1>4. ModeOf(d.mode) \in ModeSet
    BY DEF ModeOf, ModeSet
<1> QED
    BY <1>1, <1>3, <1>4

LEMMA MeaningsAreTexts ==
  ASSUME NEW d \in Docs, NEW f \in SettingsFields
  PROVE  Meaning(d, f) \in Texts
<1>1. {"", "yes", "no", "kept", "auto", "no key", "ask", "approve", "full_access"} \cup ProviderIds \subseteq Texts
    BY SettingsAssumption
<1>2. CASE f = <<"default", "">>
  <2>1. d.default \in {""} \cup ProviderIds
    BY DEF Docs
  <2> QED
    BY <1>1, <1>2, <2>1, Meanings
<1>3. CASE f = <<"theme", "">>
  <2>1. ThemeOf(d.theme) \in ThemeSet
    BY LookIsShown
  <2> QED
    BY <1>3, <2>1, Meanings, DefaultTheme
<1>4. CASE f = <<"statusline", "">>
  <2>1. d.statusline \in Texts
    BY DEF Docs
  <2>2. StatuslineOf(d.statusline) \in Texts
    BY <2>1, StatuslinesAreTexts DEF StatuslineOf
  <2> QED
    BY <1>4, <2>2, Meanings
<1>5. CASE f = <<"mode", "">>
  <2>1. d.mode \in Texts
    BY DEF Docs
  <2>2. ModeOf(d.mode) \in Texts
    BY <1>1, <2>1 DEF ModeOf
  <2> QED
    BY <1>5, <2>2, Meanings
<1>6. CASE f = Ack
    BY <1>1, <1>6, Meanings
<1>7. CASE f = <<"other", "">>
    BY <1>1, <1>7, Meanings
<1>8. ASSUME NEW q \in Protocols, f = <<"effort", q>> PROVE Meaning(d, f) \in Texts
  <2>1. d.effort[q] \in Texts
    BY DEF Docs
  <2>2. EffortOf(d.effort[q]) \in Texts
    BY <1>1, <2>1 DEF EffortOf
  <2>3. Meaning(d, <<"effort", q>>) = EffortOf(d.effort[q])
    BY Meanings
  <2> QED
    BY <1>8, <2>2, <2>3
<1>9. ASSUME NEW id \in ProviderIds, f = <<"model", id>> PROVE Meaning(d, f) \in Texts
  <2>1. d.profiles[id] \in ProfileSet
    BY DEF Docs
  <2>2. d.profiles[id].model \in Texts
    BY <2>1 DEF ProfileSet
  <2>3. Meaning(d, <<"model", id>>) = d.profiles[id].model
    BY Meanings
  <2> QED
    BY <1>9, <2>2, <2>3
<1>10. ASSUME NEW id \in ProviderIds, f = <<"key", id>> PROVE Meaning(d, f) \in Texts
  <2>1. PICK profile \in ProfileSet : profile = d.profiles[id]
    BY DEF Docs
  <2>2. KeySource(profile) \in Texts
    BY <1>1 DEF KeySource, ProfileSet
  <2>3. Meaning(d, <<"key", id>>) = KeySource(d.profiles[id])
    BY Meanings
  <2> QED
    BY <1>10, <2>1, <2>2, <2>3
<1> QED
    BY <1>2, <1>3, <1>4, <1>5, <1>6, <1>7, <1>8, <1>9, <1>10, FieldsAre

ScreenFieldsAre == ScreenFields = {<<"theme", "">>, <<"statusline", "">>, <<"mode", "">>, Ack} /\ ScreenFields \subseteq SettingsFields

LEMMA FieldsOfTheScreen == ScreenFieldsAre
<1> QED
    BY DEF ScreenFieldsAre, ScreenFields, SettingsFields, Ack

LEMMA ShownIs ==
  ASSUME NEW q
  PROVE  /\ Shown(q, <<"theme", "">>) = q.theme
         /\ Shown(q, <<"statusline", "">>) = q.statusline
         /\ Shown(q, <<"mode", "">>) = q.mode
         /\ Shown(q, Ack) = (IF q.ack = "yes" THEN "yes" ELSE "no")
<1> QED
    BY DEF Shown, Ack

LEMMA OneShown ==
  ASSUME NEW q, NEW m, NEW f,
         \/ f = <<"theme", "">> /\ m.theme = q.theme
         \/ f = <<"statusline", "">> /\ m.statusline = q.statusline
         \/ f = <<"mode", "">> /\ m.mode = q.mode
         \/ f = Ack /\ m.ack = q.ack
  PROVE  Shown(m, f) = Shown(q, f)
  BY ShownIs

LEMMA SameShown ==
  ASSUME NEW q, NEW m, m.theme = q.theme, m.statusline = q.statusline, m.mode = q.mode, m.ack = q.ack, NEW f \in ScreenFields
  PROVE  Shown(m, f) = Shown(q, f)
<1>1. CASE f = <<"theme", "">>
    BY <1>1, ShownIs
<1>2. CASE f = <<"statusline", "">>
    BY <1>2, ShownIs
<1>3. CASE f = <<"mode", "">>
    BY <1>3, ShownIs
<1>4. CASE f = Ack
    BY <1>4, ShownIs
<1> QED
    BY <1>1, <1>2, <1>3, <1>4, FieldsOfTheScreen DEF ScreenFieldsAre

\* A screen remembers what it chose, and nothing else is new to it.
RemembersWell(q, m, d, own) ==
    /\ m \in ProcSet /\ m.pc = q.pc /\ m.since = q.since /\ m.protocol = q.protocol
    /\ m.theme \in ThemeSet /\ m.statusline \in Texts \ {""} /\ m.mode \in ModeSet
    /\ \A f \in ScreenFields : Shown(m, f) = IF f \in own THEN Meaning(d, f) ELSE Shown(q, f)
    /\ Ack \notin own => m.ack = q.ack

LEMMA Remembers ==
  ASSUME NEW p, NEW q \in ProcSet, q = proc[p], NEW c \in ScreenChanges, NEW e \in Docs,
         q.theme \in ThemeSet, q.statusline \in Texts \ {""}, q.mode \in ModeSet,
         NEW d, d = Changed(p, e, c)
  PROVE  RemembersWell(q, Remembered(p, c), d, Chosen(p, c))
<1>1. PICK m, own : m = Remembered(p, c) /\ own = Chosen(p, c)
    OBVIOUS
<1>2. c \in ChangeSet /\ c.value \in Texts
    BY ScreenKinds DEF ChangeSet
<1>3. q.ack \in {"", "yes", "no"}
    BY DEF ProcSet
<1>4. CASE c.kind = "theme" /\ c.value \in ThemeSet
  <2>1. m = [q EXCEPT !.theme = c.value] /\ own = {<<"theme", "">>}
    BY <1>1, <1>4 DEF Remembered, Chosen
  <2>2. m \in ProcSet
    BY <2>1, <1>2 DEF ProcSet
  <2>3. /\ m.pc = q.pc /\ m.since = q.since /\ m.protocol = q.protocol
        /\ m.theme = c.value /\ m.statusline = q.statusline /\ m.mode = q.mode /\ m.ack = q.ack
    BY <2>1 DEF ProcSet
  <2>4. Meaning(d, <<"theme", "">>) = c.value
    <3>1. PICK shown \in Docs : d = [shown EXCEPT !.theme = c.value]
      <4>1. PICK shown : shown = [e EXCEPT !.theme = q.theme, !.statusline = q.statusline, !.mode = q.mode, !.ack = q.ack]
        OBVIOUS
      <4>2. shown \in Docs
        <5>1. q.theme \in Texts /\ q.statusline \in Texts /\ q.mode \in Texts
          BY DEF ProcSet
        <5> QED
          BY <4>1, <5>1, <1>3 DEF Docs
      <4> QED
        BY <1>4, <4>1, <4>2 DEF Changed
    <3>2. d.theme = c.value
      BY <3>1 DEF Docs
    <3>3. Meaning(d, <<"theme", "">>) = ThemeOf(d.theme)
      BY Meanings
    <3> QED
      BY <1>4, <3>2, <3>3, DefaultTheme
  <2>5. ASSUME NEW f \in ScreenFields PROVE Shown(m, f) = IF f \in own THEN Meaning(d, f) ELSE Shown(q, f)
    <3>1. CASE f = <<"theme", "">>
      BY <3>1, <2>1, <2>3, <2>4, ShownIs
    <3>2. CASE f = <<"statusline", "">>
      <4>1. f \notin own
        BY <3>2, <2>1
      <4>2. Shown(m, f) = Shown(q, f)
        BY <3>2, <2>3, OneShown
      <4> QED
        BY <4>1, <4>2
    <3>3. CASE f = <<"mode", "">>
      <4>1. f \notin own
        BY <3>3, <2>1
      <4>2. Shown(m, f) = Shown(q, f)
        BY <3>3, <2>3, OneShown
      <4> QED
        BY <4>1, <4>2
    <3>4. CASE f = Ack
      <4>1. f \notin own
        BY <3>4, <2>1 DEF Ack
      <4>2. Shown(m, f) = Shown(q, f)
        BY <3>4, <2>3, OneShown
      <4> QED
        BY <4>1, <4>2
    <3> QED
      BY <3>1, <3>2, <3>3, <3>4, FieldsOfTheScreen DEF ScreenFieldsAre
  <2> QED
    BY <1>1, <1>4, <2>2, <2>3, <2>5 DEF RemembersWell
<1>5. CASE c.kind = "statusline" /\ c.value \in Texts \ {""}
  <2>1. m = [q EXCEPT !.statusline = c.value] /\ own = {<<"statusline", "">>}
    BY <1>1, <1>5 DEF Remembered, Chosen
  <2>2. m \in ProcSet
    BY <2>1, <1>2 DEF ProcSet
  <2>3. /\ m.pc = q.pc /\ m.since = q.since /\ m.protocol = q.protocol
        /\ m.theme = q.theme /\ m.statusline = c.value /\ m.mode = q.mode /\ m.ack = q.ack
    BY <2>1 DEF ProcSet
  <2>4. Meaning(d, <<"statusline", "">>) = c.value
    <3>1. PICK shown \in Docs : d = [shown EXCEPT !.statusline = c.value]
      <4>1. PICK shown : shown = [e EXCEPT !.theme = q.theme, !.statusline = q.statusline, !.mode = q.mode, !.ack = q.ack]
        OBVIOUS
      <4>2. shown \in Docs
        <5>1. q.theme \in Texts /\ q.statusline \in Texts /\ q.mode \in Texts
          BY DEF ProcSet
        <5> QED
          BY <4>1, <5>1, <1>3 DEF Docs
      <4> QED
        BY <1>5, <4>1, <4>2 DEF Changed
    <3>2. d.statusline = c.value
      BY <3>1 DEF Docs
    <3>3. Meaning(d, <<"statusline", "">>) = StatuslineOf(d.statusline)
      BY Meanings
    <3> QED
      BY <1>5, <3>2, <3>3 DEF StatuslineOf
  <2>5. ASSUME NEW f \in ScreenFields PROVE Shown(m, f) = IF f \in own THEN Meaning(d, f) ELSE Shown(q, f)
    <3>1. CASE f = <<"theme", "">>
      <4>1. f \notin own
        BY <3>1, <2>1
      <4>2. Shown(m, f) = Shown(q, f)
        BY <3>1, <2>3, OneShown
      <4> QED
        BY <4>1, <4>2
    <3>2. CASE f = <<"statusline", "">>
      BY <3>2, <2>1, <2>3, <2>4, ShownIs
    <3>3. CASE f = <<"mode", "">>
      <4>1. f \notin own
        BY <3>3, <2>1
      <4>2. Shown(m, f) = Shown(q, f)
        BY <3>3, <2>3, OneShown
      <4> QED
        BY <4>1, <4>2
    <3>4. CASE f = Ack
      <4>1. f \notin own
        BY <3>4, <2>1 DEF Ack
      <4>2. Shown(m, f) = Shown(q, f)
        BY <3>4, <2>3, OneShown
      <4> QED
        BY <4>1, <4>2
    <3> QED
      BY <3>1, <3>2, <3>3, <3>4, FieldsOfTheScreen DEF ScreenFieldsAre
  <2> QED
    BY <1>1, <1>5, <2>2, <2>3, <2>5 DEF RemembersWell
<1>6. CASE c.kind = "mode" /\ c.value \in ModeSet
  <2>1. PICK ak, saved : ak = (IF c.extra THEN "yes" ELSE q.ack) /\ saved = (IF c.extra THEN "yes" ELSE q.ack)
    OBVIOUS
  <2>2. m = [q EXCEPT !.mode = c.value, !.ack = ak]
    BY <1>1, <1>6, <2>1 DEF Remembered
  <2>3. own = {<<"mode", "">>} \cup (IF c.extra THEN {Ack} ELSE {})
    BY <1>1, <1>6 DEF Chosen, Ack
  <2>4. ak \in {"", "yes", "no"}
    BY <2>1, <1>3
  <2>5. m \in ProcSet
    BY <2>2, <2>4, <1>2 DEF ProcSet
  <2>6. /\ m.pc = q.pc /\ m.since = q.since /\ m.protocol = q.protocol
        /\ m.theme = q.theme /\ m.statusline = q.statusline /\ m.mode = c.value /\ m.ack = ak
    BY <2>2 DEF ProcSet
  <2>7. d = [e EXCEPT !.mode = c.value, !.ack = ak]
    BY <1>6, <2>1 DEF Changed
  <2>8. d.mode = c.value /\ d.ack = ak
    BY <2>7 DEF Docs
  <2>9. Meaning(d, <<"mode", "">>) = c.value
    <3>1. Meaning(d, <<"mode", "">>) = ModeOf(d.mode)
      BY Meanings
    <3> QED
      BY <1>6, <2>8, <3>1 DEF ModeOf, ModeSet
  <2>10. Meaning(d, Ack) = IF ak = "yes" THEN "yes" ELSE "no"
    BY <2>8, Meanings
  <2>11. Ack # <<"mode", "">> /\ (Ack \in own <=> c.extra) /\ <<"mode", "">> \in own
         /\ <<"theme", "">> \notin own /\ <<"statusline", "">> \notin own
    BY <2>3 DEF Ack
  <2>12. ~c.extra => ak = q.ack
    BY <2>1
  <2>13. ASSUME NEW f \in ScreenFields PROVE Shown(m, f) = IF f \in own THEN Meaning(d, f) ELSE Shown(q, f)
    <3>1. CASE f = <<"theme", "">>
      <4>1. f \notin own
        BY <3>1, <2>11
      <4>2. Shown(m, f) = Shown(q, f)
        BY <3>1, <2>6, OneShown
      <4> QED
        BY <4>1, <4>2
    <3>2. CASE f = <<"statusline", "">>
      <4>1. f \notin own
        BY <3>2, <2>11
      <4>2. Shown(m, f) = Shown(q, f)
        BY <3>2, <2>6, OneShown
      <4> QED
        BY <4>1, <4>2
    <3>3. CASE f = <<"mode", "">>
      BY <3>3, <2>6, <2>9, <2>11, ShownIs
    <3>4. CASE f = Ack
      BY <3>4, <2>6, <2>10, <2>11, <2>12, ShownIs
    <3> QED
      BY <3>1, <3>2, <3>3, <3>4, FieldsOfTheScreen DEF ScreenFieldsAre
  <2> QED
    BY <1>1, <1>6, <2>5, <2>6, <2>11, <2>12, <2>13 DEF RemembersWell
<1>7. CASE c.kind \in {"effort", "model"}
  <2>1. m = q
    BY <1>1, <1>7 DEF Remembered
  <2>2. own \subseteq {<<"effort", q.protocol>>, <<"model", q.saved>>}
    BY <1>1, <1>7 DEF Chosen
  <2>3. own \cap ScreenFields = {}
    <3>1. \A x : <<"effort", x>> \notin ScreenFields /\ <<"model", x>> \notin ScreenFields
      BY DEF ScreenFields
    <3> QED
      BY <2>2, <3>1
  <2>4. Ack \in ScreenFields
    BY FieldsOfTheScreen DEF ScreenFieldsAre
  <2> QED
    BY <1>1, <2>1, <2>3, <2>4 DEF RemembersWell
<1> QED
    BY <1>4, <1>5, <1>6, <1>7, ScreenKinds

LEMMA SettingsBegin == SettingsInit => SettingsInv
<1> SUFFICES ASSUME SettingsInit PROVE SettingsInv
    OBVIOUS
<1>1. PICK e : e = Parse(settingsFile)
    OBVIOUS
<1>2. settingsFile \in Files /\ e \in Docs
    BY <1>1, ParseIsDoc, SettingsAssumption DEF SettingsInit
<1>3. /\ proc = [p \in SettingsProcesses |-> Off]
      /\ wanted = [f \in SettingsFields |-> [value |-> Meaning(e, f), at |-> 0, by |-> Wizard]]
      /\ excused = {} /\ saves = 0 /\ launch = NoLaunch
    BY <1>1 DEF SettingsInit
<1>4. Wizard \in SettingsProcesses
    BY DEF SettingsProcesses
<1>5. \A f \in SettingsFields : [value |-> Meaning(e, f), at |-> 0, by |-> Wizard] \in [value : Texts, at : Nat, by : SettingsProcesses]
    BY <1>2, <1>4, MeaningsAreTexts
<1>6. SettingsTypeOK
    BY <1>2, <1>3, <1>5, OffIsTyped DEF SettingsTypeOK
<1>7. \A p \in SettingsProcesses : proc[p].pc = "off" /\ proc[p].since = 0 /\ proc[p].seen = 0
    BY <1>3 DEF Off
<1>8. \A f \in SettingsFields : wanted[f].at = 0 /\ wanted[f].value = Meaning(e, f)
    BY <1>3
<1>9. Ack \in SettingsFields
    BY DEF Ack, SettingsFields
<1>10. ~launch.resolved.ok
    BY <1>3 DEF NoLaunch
<1>11. TimesArePast
    BY <1>3, <1>7, <1>8 DEF TimesArePast
<1>12. ChoicesAreKept
    BY <1>1, <1>8 DEF ChoicesAreKept
<1>13. ScreensShowChoices /\ SavingIsAllowed /\ ReadsAreExact /\ ScreensRemember /\ NothingIsHeld /\ NoOlderAck
    BY <1>7 DEF ScreensShowChoices, SavingIsAllowed, ReadsAreExact, ScreensRemember, NothingIsHeld, NoOlderAck,
                SettingsProcesses
<1>14. AckIsGiven
    BY <1>8, <1>9 DEF AckIsGiven
<1>15. RunsAsConfigured
    BY <1>10 DEF RunsAsConfigured
<1> QED
    BY <1>6, <1>11, <1>12, <1>13, <1>14, <1>15 DEF SettingsInv

\* A process stops, or puts its change down: what it remembers of the look stays.
LEMMA ResumedFits ==
  ASSUME SettingsInv, NEW p \in SettingsProcesses, NEW m \in ProcSet,
         proc' = [proc EXCEPT ![p] = m],
         m = Off \/ (p # Wizard /\ proc[p].pc # "off" /\ m = Rested(proc[p])),
         launch' = NoLaunch, UNCHANGED <<settingsFile, wanted, excused, saves>>
  PROVE  SettingsInv'
<1>1. PICK q \in ProcSet : q = proc[p]
    BY DEF SettingsInv, SettingsTypeOK
<1>2. /\ proc'[p] = m /\ proc' \in [SettingsProcesses -> ProcSet]
      /\ \A r \in SettingsProcesses : r # p => proc'[r] = proc[r]
    BY DEF SettingsInv, SettingsTypeOK
<1>3. /\ m.pc # "saving" /\ m.seen = 0
      /\ m = Off => m.pc = "off" /\ m.since = 0
      /\ m # Off => /\ p # Wizard /\ q.pc # "off" /\ m.pc = "idle" /\ m.since = q.since /\ m.theme = q.theme
                    /\ m.statusline = q.statusline /\ m.mode = q.mode /\ m.ack = q.ack /\ m.protocol = q.protocol
  <2>1. CASE m = Off
    BY <2>1 DEF Off
  <2>2. CASE m # Off
    <3>1. p # Wizard /\ q.pc # "off" /\ m = [q EXCEPT !.pc = "idle", !.change = NoChange, !.file = Off.file, !.seen = 0]
      BY <1>1, <2>2 DEF Rested
    <3> QED
      BY <2>2, <3>1 DEF ProcSet
  <2> QED
    BY <2>1, <2>2
<1>4. SettingsTypeOK'
    BY <1>2 DEF SettingsInv, SettingsTypeOK
<1>5. \A r \in SettingsProcesses : proc'[r].pc = "saving" => r # p /\ proc'[r] = proc[r]
    BY <1>2, <1>3
<1>6. ASSUME NEW r \in Screens, proc'[r].pc # "off"
      PROVE  /\ proc[r].pc # "off" /\ proc'[r].since = proc[r].since /\ proc'[r].ack = proc[r].ack
             /\ proc'[r].theme = proc[r].theme /\ proc'[r].statusline = proc[r].statusline
             /\ proc'[r].mode = proc[r].mode /\ proc'[r].protocol = proc[r].protocol
    BY <1>1, <1>2, <1>3, <1>6 DEF SettingsProcesses
<1>7. TimesArePast'
  <2>1. saves \in Nat
    BY DEF SettingsInv, SettingsTypeOK
  <2>2. \A r \in SettingsProcesses : proc[r].since <= saves /\ proc[r].seen <= saves
    BY DEF SettingsInv, TimesArePast
  <2>3. m.since <= saves /\ m.seen <= saves
    BY <1>1, <1>3, <2>1, <2>2
  <2> QED
    BY <1>2, <2>2, <2>3 DEF SettingsInv, TimesArePast
<1>8. ScreensShowChoices'
    BY <1>6 DEF SettingsInv, ScreensShowChoices
<1>9. SavingIsAllowed'
  <2> SUFFICES ASSUME NEW r \in SettingsProcesses, proc'[r].pc = "saving"
               PROVE  /\ proc'[r].change \in IF r = Wizard THEN WizardChanges ELSE ScreenChanges
                      /\ proc'[r].change.kind = "model" => proc'[r].saved # ""
    BY Zenon DEF SavingIsAllowed
  <2>1. proc'[r] = proc[r] /\ proc[r].pc = "saving"
    BY <1>5
  <2>2. /\ proc[r].change \in IF r = Wizard THEN WizardChanges ELSE ScreenChanges
        /\ proc[r].change.kind = "model" => proc[r].saved # ""
    BY <2>1, Zenon DEF SettingsInv, SavingIsAllowed
  <2> QED
    BY <2>1, <2>2, Zenon
<1>10. ChoicesAreKept' /\ AckIsGiven'
    BY DEF SettingsInv, ChoicesAreKept, AckIsGiven
<1>11. ReadsAreExact'
    BY <1>5 DEF SettingsInv, ReadsAreExact
<1>12. ScreensRemember'
  <2> SUFFICES ASSUME NEW r \in Screens, proc'[r].pc # "off", NEW f \in ScreenFields \ excused,
                      wanted[f].by = r \/ wanted[f].at <= proc'[r].since
               PROVE  Shown(proc'[r], f) = wanted[f].value
    BY DEF ScreensRemember
  <2>1. Shown(proc[r], f) = wanted[f].value
    BY <1>6 DEF SettingsInv, ScreensRemember
  <2>2. Shown(proc'[r], f) = Shown(proc[r], f)
    BY <1>6, SameShown
  <2> QED
    BY <2>1, <2>2
<1>13. NothingIsHeld'
    BY <1>5 DEF SettingsInv, NothingIsHeld
<1>14. NoOlderAck'
  <2> SUFFICES ASSUME NEW s \in Screens, proc'[s].pc # "off", proc'[s].ack = "", Ack \notin excused
               PROVE  \/ wanted[Ack].at > proc'[s].since
                      \/ /\ settingsFile.doc.oldAck # "yes"
                         /\ \A t \in SettingsProcesses : proc'[t].pc = "saving" => proc'[t].file.doc.oldAck # "yes"
    BY DEF NoOlderAck
  <2>1. \/ wanted[Ack].at > proc[s].since
        \/ /\ settingsFile.doc.oldAck # "yes"
           /\ \A t \in SettingsProcesses : proc[t].pc = "saving" => proc[t].file.doc.oldAck # "yes"
    BY <1>6 DEF SettingsInv, NoOlderAck
  <2> QED
    BY <1>5, <1>6, <2>1
<1>15. RunsAsConfigured'
    BY DEF RunsAsConfigured, NoLaunch
<1> QED
    BY <1>4, <1>7, <1>8, <1>9, <1>10, <1>11, <1>12, <1>13, <1>14, <1>15 DEF SettingsInv

LEMMA RestedIsTyped ==
  ASSUME NEW q \in ProcSet
  PROVE  Rested(q) \in ProcSet
<1>1. PICK none \in Files : none = Off.file
    BY OffIsTyped
<1>2. PICK nothing \in ChangeSet : nothing = NoChange
    BY NothingIsTyped
<1>3. PICK idle \in ProcSet : idle = [q EXCEPT !.pc = "idle", !.seen = 0]
    BY DEF ProcSet
<1>4. PICK free \in ProcSet : free = [idle EXCEPT !.change = nothing]
    BY DEF ProcSet
<1>5. [free EXCEPT !.file = none] \in ProcSet
    BY DEF ProcSet
<1>6. Rested(q) = [free EXCEPT !.file = none]
    BY <1>1, <1>2, <1>3, <1>4 DEF Rested, ProcSet
<1> QED
    BY <1>5, <1>6

LEMMA SavingFailsKeeps ==
  ASSUME SettingsInv, NEW p \in SettingsProcesses, SavingFails(p)
  PROVE  SettingsInv'
<1>1. PICK q \in ProcSet : q = proc[p]
    BY DEF SettingsInv, SettingsTypeOK
<1>2. PICK m : m = IF p = Wizard THEN Off ELSE Rested(q)
    OBVIOUS
<1>3. Rested(q) \in ProcSet
    BY RestedIsTyped
<1>4. m \in ProcSet
    BY <1>2, <1>3, OffIsTyped
<1>5. proc' = [proc EXCEPT ![p] = m] /\ q.pc = "saving"
    BY <1>1, <1>2 DEF SavingFails, AfterChange
<1>6. launch' = NoLaunch /\ UNCHANGED <<settingsFile, wanted, excused, saves>>
    BY DEF SavingFails
<1>7. m = Off \/ (p # Wizard /\ proc[p].pc # "off" /\ m = Rested(proc[p]))
    BY <1>1, <1>2, <1>5
<1> QED
    BY <1>4, <1>5, <1>6, <1>7, ResumedFits

LEMMA StopScreenKeeps ==
  ASSUME SettingsInv, NEW p \in SettingsProcesses, StopScreen(p)
  PROVE  SettingsInv'
<1>1. PICK m : m = Off
    OBVIOUS
<1>2. m \in ProcSet /\ proc' = [proc EXCEPT ![p] = m] /\ launch' = NoLaunch
      /\ UNCHANGED <<settingsFile, wanted, excused, saves>>
    BY <1>1, OffIsTyped DEF StopScreen
<1> QED
    BY <1>1, <1>2, ResumedFits

LEMMA BreakFileKeeps ==
  ASSUME SettingsInv, BreakFile
  PROVE  SettingsInv'
<1>1. /\ settingsFile' = [form |-> "broken", doc |-> EmptyDoc] /\ excused' = SettingsFields
      /\ launch' = NoLaunch /\ UNCHANGED <<proc, wanted, saves>>
    BY DEF BreakFile
<1>2. settingsFile' \in Files
    BY <1>1, OffIsTyped DEF Files
<1>3. SettingsTypeOK'
    BY <1>1, <1>2 DEF SettingsInv, SettingsTypeOK
<1>4. TimesArePast' /\ ScreensShowChoices' /\ SavingIsAllowed' /\ AckIsGiven'
    BY <1>1 DEF SettingsInv, TimesArePast, ScreensShowChoices, SavingIsAllowed, AckIsGiven
<1>5. ScreenFields \ excused' = {} /\ SettingsFields \ excused' = {} /\ Ack \in excused'
    BY <1>1, FieldsOfTheScreen DEF ScreenFieldsAre
<1>6. ChoicesAreKept' /\ ReadsAreExact' /\ ScreensRemember' /\ NothingIsHeld' /\ NoOlderAck'
    BY <1>5 DEF ChoicesAreKept, ReadsAreExact, ScreensRemember, NothingIsHeld, NoOlderAck
<1>7. RunsAsConfigured'
    BY <1>1 DEF RunsAsConfigured, NoLaunch
<1> QED
    BY <1>3, <1>4, <1>6, <1>7 DEF SettingsInv

LEMMA SettingsStutter ==
  ASSUME SettingsInv, UNCHANGED settingsVars
  PROVE  SettingsInv'
<1>1. SettingsTypeOK' /\ TimesArePast' /\ ScreensShowChoices' /\ SavingIsAllowed' /\ AckIsGiven'
    BY DEF settingsVars, SettingsInv, SettingsTypeOK, TimesArePast, ScreensShowChoices, SavingIsAllowed, AckIsGiven
<1>2. ChoicesAreKept' /\ ReadsAreExact' /\ ScreensRemember' /\ NothingIsHeld' /\ NoOlderAck'
    BY DEF settingsVars, SettingsInv, ChoicesAreKept, ReadsAreExact, ScreensRemember, NothingIsHeld, NoOlderAck
<1>3. RunsAsConfigured'
    BY DEF settingsVars, SettingsInv, RunsAsConfigured
<1> QED
    BY <1>1, <1>2, <1>3 DEF SettingsInv

\* An acknowledgement that is chosen is given.
LEMMA AckIsYes ==
  ASSUME NEW p, NEW e \in Docs, NEW c, Ack \in Chosen(p, c), c \in ScreenChanges \/ c \in WizardChanges
  PROVE  Meaning(Changed(p, e, c), Ack) = "yes"
<1>1. c.kind = "mode" /\ c.extra
  <2>1. c.kind \in {"theme", "statusline", "mode", "effort", "model", "profile", "default"}
    BY ScreenKinds, WizardKinds
  <2>2. CASE c.kind = "mode"
    BY <2>2 DEF Chosen, Ack
  <2>3. CASE c.kind = "theme" \/ c.kind = "statusline"
    BY <2>3 DEF Chosen, Ack
  <2>4. CASE c.kind = "effort"
    BY <2>4 DEF Chosen, Ack
  <2>5. CASE c.kind = "model"
    BY <2>5 DEF Chosen, Ack
  <2>6. CASE c.kind = "profile"
    BY <2>6 DEF Chosen, Ack
  <2>7. CASE c.kind = "default"
    BY <2>7 DEF Chosen, Ack
  <2> QED
    BY <2>1, <2>2, <2>3, <2>4, <2>5, <2>6, <2>7
<1>2. PICK mode, ack : mode = c.value /\ ack = (IF c.extra THEN "yes" ELSE proc[p].ack)
    OBVIOUS
<1>3. ack = "yes"
    BY <1>1, <1>2
<1>4. Changed(p, e, c) = [e EXCEPT !.mode = mode, !.ack = ack]
    BY <1>1, <1>2 DEF Changed
<1>5. Changed(p, e, c).ack = "yes"
    BY <1>3, <1>4 DEF Docs
<1> QED
    BY <1>5, Meanings

LEMMA SaveSettingsKeeps ==
  ASSUME SettingsInv, NEW p \in SettingsProcesses, NEW ok \in BOOLEAN, SaveSettings(p, ok)
  PROVE  SettingsInv'
<1>1. PICK q \in ProcSet : q = proc[p]
    BY DEF SettingsInv, SettingsTypeOK
<1>2. PICK c, file, e : c = q.change /\ file = q.file /\ e = Parse(q.file)
    OBVIOUS
<1>3. PICK d, own, out : d = Changed(p, e, c) /\ own = Chosen(p, c) /\ out = [form |-> "ok", doc |-> MergeRaw(file, d)]
    OBVIOUS
<1>4. q.pc = "saving"
    BY <1>1 DEF SaveSettings
<1>5. /\ c \in ChangeSet /\ file \in Files /\ out \in Files /\ e \in Docs
      /\ SavesWell(q, c, file, d, out, own)
  <2>1. SettingsTypeOK /\ ScreensShowChoices /\ SavingIsAllowed
    BY DEF SettingsInv
  <2>2. c \in ChangeSet /\ file \in Files
    BY <1>2 DEF ProcSet
  <2>3. e \in Docs
    BY <1>2, <2>2, ParseIsDoc
  <2> QED
    BY <1>1, <1>2, <1>3, <1>4, <2>1, <2>2, <2>3, SavesAreRight, SettingsAssumption
<1>6. PICK m : m = IF ok THEN Remembered(p, c) ELSE q
    OBVIOUS
<1>7. PICK n : n = IF p = Wizard THEN Off ELSE Rested(m)
    OBVIOUS
<1>8. /\ settingsFile' = out /\ saves' = saves + 1 /\ launch' = NoLaunch
      /\ wanted' = [f \in SettingsFields |-> IF f \in own THEN [value |-> Meaning(d, f), at |-> saves + 1, by |-> p]
                                             ELSE wanted[f]]
      /\ excused' = (excused \ own) \cup Overtaken(p, own) \cup (own \cap Left(c, file)) \cup IF ok THEN {} ELSE own
      /\ proc' = [proc EXCEPT ![p] = n]
  <2>1. Left(c, file) = IF c.kind = "profile" THEN LeftAsItWas(c.profile, q.file.doc.profiles) ELSE {}
    BY <1>2 DEF Left
  <2>2. settingsFile' = out /\ saves' = saves + 1 /\ launch' = NoLaunch
    BY <1>1, <1>2, <1>3 DEF SaveSettings
  <2>3. wanted' = [f \in SettingsFields |-> IF f \in own THEN [value |-> Meaning(d, f), at |-> saves + 1, by |-> p]
                                             ELSE wanted[f]]
    BY <1>1, <1>2, <1>3 DEF SaveSettings
  <2>4. excused' = (excused \ own) \cup Overtaken(p, own) \cup (own \cap Left(c, file)) \cup IF ok THEN {} ELSE own
    BY <1>1, <1>2, <1>3, <2>1 DEF SaveSettings
  <2>5. proc' = [proc EXCEPT ![p] = n]
    BY <1>1, <1>2, <1>6, <1>7 DEF SaveSettings, AfterChange
  <2> QED
    BY <2>2, <2>3, <2>4, <2>5
<1>9. d \in Docs /\ own \subseteq SettingsFields
    BY <1>5 DEF SavesWell
<1>10. /\ saves \in Nat /\ proc \in [SettingsProcesses -> ProcSet] /\ excused \subseteq SettingsFields
       /\ wanted \in [SettingsFields -> [value : Texts, at : Nat, by : SettingsProcesses]]
    BY DEF SettingsInv, SettingsTypeOK
<1>11. \A k \in Nat : k <= saves => saves + 1 > k
    BY <1>10
<1>12. /\ \A f \in own : wanted'[f].value = Meaning(d, f) /\ wanted'[f].at = saves + 1 /\ wanted'[f].by = p
       /\ \A f \in SettingsFields \ own : wanted'[f] = wanted[f]
    BY <1>8, <1>9
<1>13. /\ \A f \in own \ excused' : f \notin Left(c, file) /\ ok
       /\ \A f \in SettingsFields : f \notin own /\ f \notin excused' => f \notin excused /\ f \notin Overtaken(p, own)
    BY <1>8
<1>14. ASSUME NEW f \in SettingsFields \ own, f \notin excused'
       PROVE  /\ f \notin excused /\ wanted[f].at <= q.seen /\ file.form = "ok"
              /\ f \in Looks(c) => wanted[f].by = p \/ wanted[f].at <= q.since
  <2>1. f \notin excused /\ f \notin Overtaken(p, own)
    BY <1>13, <1>14
  <2>2. /\ ~(wanted[f].at > q.seen) /\ file.form = "ok"
        /\ ~(f \in Looks(c) /\ wanted[f].by # p /\ wanted[f].at > q.since)
    BY <1>1, <1>2, <2>1 DEF Overtaken, Looks, Ack
  <2>3. wanted[f].at \in Nat /\ q.seen \in Nat /\ q.since \in Nat
    BY <1>10 DEF ProcSet
  <2> QED
    BY <2>1, <2>2, <2>3
<1>15. /\ proc'[p] = n /\ \A r \in SettingsProcesses : r # p => proc'[r] = proc[r]
    BY <1>8, <1>10
<1>16. ASSUME p # Wizard
       PROVE  /\ p \in Screens /\ c \in ScreenChanges
              /\ RemembersWell(q, Remembered(p, c), d, own)
              /\ m \in ProcSet /\ m.since = q.since /\ m.theme \in ThemeSet /\ m.statusline \in Texts \ {""}
              /\ m.mode \in ModeSet /\ m.protocol \in Protocols
              /\ \A f \in ScreenFields : f \notin own => Shown(m, f) = Shown(q, f)
              /\ \A f \in ScreenFields : f \in own /\ ok => Shown(m, f) = Meaning(d, f)
              /\ Ack \notin own => m.ack = q.ack
  <2>1. p \in Screens
    BY <1>16 DEF SettingsProcesses
  <2>2. c \in ScreenChanges
    BY <1>1, <1>2, <1>4, <1>16 DEF SettingsInv, SavingIsAllowed
  <2>3. /\ q.theme \in ThemeSet /\ q.statusline \in Texts \ {""} /\ q.mode \in ModeSet /\ q.protocol \in Protocols
    BY <1>1, <1>4, <2>1 DEF SettingsInv, ScreensShowChoices
  <2>4. RemembersWell(q, Remembered(p, c), d, own)
    BY <1>1, <1>3, <1>5, <2>2, <2>3, Remembers
  <2>5. CASE ok
    <3>1. m = Remembered(p, c)
      BY <1>6, <2>5
    <3> QED
      BY <2>1, <2>2, <2>3, <2>4, <3>1 DEF RemembersWell
  <2>6. CASE ~ok
    <3>1. m = q
      BY <1>6, <2>6
    <3> QED
      BY <2>1, <2>2, <2>3, <2>4, <2>6, <3>1
  <2> QED
    BY <2>5, <2>6
<1>17. /\ n \in ProcSet /\ n.pc # "saving" /\ n.seen = 0
       /\ p = Wizard => n.since = 0
       /\ p # Wizard => /\ n.since = q.since /\ n.theme = m.theme /\ n.statusline = m.statusline /\ n.mode = m.mode
                        /\ n.ack = m.ack /\ n.protocol = m.protocol
  <2>1. CASE p = Wizard
    BY <1>7, <2>1, OffIsTyped DEF Off
  <2>2. CASE p # Wizard
    <3>1. n = [m EXCEPT !.pc = "idle", !.change = NoChange, !.file = Off.file, !.seen = 0] /\ n = Rested(m)
      BY <1>7, <2>2 DEF Rested
    <3>2. m \in ProcSet /\ m.since = q.since
      BY <1>16, <2>2
    <3>3. n \in ProcSet
      BY <3>1, <3>2, RestedIsTyped
    <3>4. /\ n.pc # "saving" /\ n.seen = 0 /\ n.since = m.since /\ n.theme = m.theme /\ n.statusline = m.statusline
          /\ n.mode = m.mode /\ n.ack = m.ack /\ n.protocol = m.protocol
      BY <3>1, <3>2 DEF ProcSet
    <3> QED
      BY <2>2, <3>2, <3>3, <3>4
  <2> QED
    BY <2>1, <2>2
<1>18. \A r \in SettingsProcesses : proc'[r].pc = "saving" => r # p /\ proc'[r] = proc[r]
    BY <1>15, <1>17
<1>19. SettingsTypeOK'
  <2>1. ASSUME NEW f \in own
        PROVE  [value |-> Meaning(d, f), at |-> saves + 1, by |-> p] \in [value : Texts, at : Nat, by : SettingsProcesses]
    BY <1>9, <1>10, MeaningsAreTexts
  <2>2. wanted' \in [SettingsFields -> [value : Texts, at : Nat, by : SettingsProcesses]]
    BY <1>8, <1>10, <2>1
  <2>3. Overtaken(p, own) \subseteq SettingsFields
    BY DEF Overtaken
  <2>4. excused' \subseteq SettingsFields
    BY <1>8, <1>9, <1>10, <2>3
  <2>5. proc' \in [SettingsProcesses -> ProcSet]
    BY <1>8, <1>10, <1>17
  <2>6. settingsFile' \in Files /\ saves' \in Nat
    BY <1>5, <1>8, <1>10
  <2> QED
    BY <2>2, <2>4, <2>5, <2>6 DEF SettingsTypeOK
<1>20. TimesArePast'
  <2>1. ASSUME NEW r \in SettingsProcesses PROVE proc'[r].since <= saves' /\ proc'[r].seen <= saves'
    <3>1. proc[r].since <= saves /\ proc[r].seen <= saves /\ proc[r].since \in Nat /\ proc[r].seen \in Nat
      BY <1>10 DEF SettingsInv, TimesArePast, ProcSet
    <3>2. CASE r # p
      BY <1>8, <1>10, <1>15, <3>1, <3>2
    <3>3. CASE r = p
      BY <1>1, <1>8, <1>10, <1>15, <1>17, <3>1, <3>3
    <3> QED
      BY <3>2, <3>3
  <2>2. ASSUME NEW f \in SettingsFields PROVE wanted'[f].at <= saves'
    <3>1. wanted[f].at <= saves /\ wanted[f].at \in Nat
      BY <1>10 DEF SettingsInv, TimesArePast
    <3> QED
      BY <1>8, <1>10, <1>12, <3>1
  <2> QED
    BY <2>1, <2>2 DEF TimesArePast
<1>21. ScreensShowChoices'
  <2> SUFFICES ASSUME NEW r \in Screens, proc'[r].pc # "off"
               PROVE  /\ proc'[r].theme \in ThemeSet /\ proc'[r].statusline \in Texts \ {""} /\ proc'[r].mode \in ModeSet
                      /\ proc'[r].protocol \in Protocols
    BY DEF ScreensShowChoices
  <2>1. r \in SettingsProcesses /\ r # Wizard
    BY SettingsAssumption DEF SettingsProcesses
  <2>2. CASE r = p
    BY <1>15, <1>16, <1>17, <2>1, <2>2
  <2>3. CASE r # p
    BY <1>15, <2>1, <2>3 DEF SettingsInv, ScreensShowChoices
  <2> QED
    BY <2>2, <2>3
<1>22. SavingIsAllowed'
  <2> SUFFICES ASSUME NEW r \in SettingsProcesses, proc'[r].pc = "saving"
               PROVE  /\ proc'[r].change \in IF r = Wizard THEN WizardChanges ELSE ScreenChanges
                      /\ proc'[r].change.kind = "model" => proc'[r].saved # ""
    BY Zenon DEF SavingIsAllowed
  <2>1. proc'[r] = proc[r] /\ proc[r].pc = "saving"
    BY <1>18
  <2>2. /\ proc[r].change \in IF r = Wizard THEN WizardChanges ELSE ScreenChanges
        /\ proc[r].change.kind = "model" => proc[r].saved # ""
    BY <2>1, Zenon DEF SettingsInv, SavingIsAllowed
  <2> QED
    BY <2>1, <2>2, Zenon
<1>23. ChoicesAreKept'
  <2> SUFFICES ASSUME NEW f \in SettingsFields \ excused'
               PROVE  Meaning(Parse(out), f) = wanted'[f].value
    BY <1>8 DEF ChoicesAreKept
  <2>1. CASE f \in own
    <3>1. Meaning(Parse(out), f) = Meaning(d, f)
      BY <1>5, <1>13, <2>1 DEF SavesWell
    <3> QED
      BY <1>12, <2>1, <3>1
  <2>2. CASE f \notin own
    <3>1. /\ f \notin excused /\ wanted[f].at <= q.seen /\ file.form = "ok"
          /\ f \in Looks(c) => wanted[f].by = p \/ wanted[f].at <= q.since
      BY <1>14, <2>2
    <3>2. Meaning(Parse(file), f) = wanted[f].value
      BY <1>1, <1>2, <1>4, <3>1 DEF SettingsInv, ReadsAreExact
    <3>3. CASE f \notin Looks(c)
      <4>1. Meaning(Parse(out), f) = Meaning(Parse(file), f)
        BY <1>5, <2>2, <3>1, <3>3 DEF SavesWell
      <4> QED
        BY <1>12, <2>2, <3>2, <4>1
    <3>4. CASE f \in Looks(c)
      <4>1. p # Wizard /\ f \in ScreenFields
        <5>1. c.kind \in {"theme", "statusline", "mode"}
          BY <3>4 DEF Looks
        <5>2. p # Wizard
          BY <1>1, <1>2, <1>4, <5>1, WizardKinds DEF SettingsInv, SavingIsAllowed
        <5>3. Ack \in ScreenFields
          BY FieldsOfTheScreen DEF ScreenFieldsAre
        <5> QED
          BY <3>4, <5>2, <5>3 DEF Looks
      <4>2. p \in Screens
        BY <1>16, <4>1
      <4>3. Shown(q, f) = wanted[f].value
        BY <1>1, <1>4, <3>1, <3>4, <4>1, <4>2 DEF SettingsInv, ScreensRemember
      <4>4. ASSUME f = Ack PROVE AckKept(q, file)
        <5>1. Meaning(Parse(file), Ack) = Shown(q, Ack)
          BY <3>2, <4>3, <4>4
        <5>2. ASSUME q.ack = "" PROVE file.doc.oldAck # "yes"
          <6>1. \/ wanted[Ack].at > q.since
                \/ file.doc.oldAck # "yes"
            BY <1>1, <1>2, <1>4, <3>1, <4>2, <4>4, <5>2 DEF SettingsInv, NoOlderAck
          <6>2. CASE wanted[Ack].at > q.since
            <7>1. Ack \in SettingsFields /\ wanted[Ack].at \in Nat /\ q.since \in Nat
              BY <1>10, <4>4 DEF ProcSet
            <7>2. wanted[Ack].value = "yes"
              BY <6>2, <7>1 DEF SettingsInv, AckIsGiven
            <7>3. Shown(q, Ack) = "no"
              BY <5>2, ShownIs
            <7> QED
              BY <4>3, <4>4, <7>2, <7>3
          <6> QED
            BY <6>1, <6>2
        <5> QED
          BY <3>1, <5>1, <5>2 DEF AckKept
      <4>5. Meaning(Parse(out), f) = Shown(q, f)
        BY <1>5, <2>2, <3>4, <4>4 DEF SavesWell
      <4> QED
        BY <1>12, <2>2, <4>3, <4>5
    <3> QED
      BY <3>3, <3>4
  <2> QED
    BY <2>1, <2>2
<1>24. ReadsAreExact'
  <2> SUFFICES ASSUME NEW r \in SettingsProcesses, proc'[r].pc = "saving", NEW f \in SettingsFields \ excused',
                      wanted'[f].at <= proc'[r].seen, proc'[r].file.form = "ok"
               PROVE  Meaning(Parse(proc'[r].file), f) = wanted'[f].value
    BY DEF ReadsAreExact
  <2>1. proc'[r] = proc[r]
    BY <1>18
  <2>2. proc[r].seen \in Nat /\ proc[r].seen <= saves
    BY <1>10 DEF SettingsInv, TimesArePast, ProcSet
  <2>3. f \notin own
    BY <1>10, <1>12, <2>1, <2>2
  <2>4. f \notin excused /\ wanted'[f] = wanted[f]
    BY <1>12, <1>13, <2>3
  <2> QED
    BY <2>1, <2>4 DEF SettingsInv, ReadsAreExact
<1>25. ScreensRemember'
  <2> SUFFICES ASSUME NEW r \in Screens, proc'[r].pc # "off", NEW f \in ScreenFields \ excused',
                      wanted'[f].by = r \/ wanted'[f].at <= proc'[r].since
               PROVE  Shown(proc'[r], f) = wanted'[f].value
    BY DEF ScreensRemember
  <2>1. r \in SettingsProcesses /\ r # Wizard /\ f \in SettingsFields
    BY FieldsOfTheScreen, SettingsAssumption DEF SettingsProcesses, ScreenFieldsAre
  <2>2. proc[r].since \in Nat /\ proc[r].since <= saves
    BY <1>10, <2>1 DEF SettingsInv, TimesArePast, ProcSet
  <2>3. CASE r # p
    <3>1. proc'[r] = proc[r]
      BY <1>15, <2>1, <2>3
    <3>2. f \notin own
      BY <1>10, <1>12, <2>2, <2>3, <3>1
    <3>3. f \notin excused /\ wanted'[f] = wanted[f]
      BY <1>12, <1>13, <2>1, <3>2
    <3> QED
      BY <3>1, <3>3 DEF SettingsInv, ScreensRemember
  <2>4. CASE r = p
    <3>1. Shown(proc'[r], f) = Shown(m, f)
      <4>1. /\ proc'[r].theme = m.theme /\ proc'[r].statusline = m.statusline /\ proc'[r].mode = m.mode
            /\ proc'[r].ack = m.ack
        BY <1>15, <1>17, <2>1, <2>4
      <4> QED
        BY <4>1, SameShown
    <3>2. CASE f \in own
      <4>1. Shown(m, f) = Meaning(d, f)
        BY <1>13, <1>16, <2>1, <2>4, <3>2
      <4> QED
        BY <1>12, <3>1, <3>2, <4>1
    <3>3. CASE f \notin own
      <4>1. Shown(m, f) = Shown(q, f)
        BY <1>16, <2>1, <2>4, <3>3
      <4>2. f \notin excused /\ wanted'[f] = wanted[f]
        BY <1>12, <1>13, <2>1, <3>3
      <4>3. wanted[f].by = p \/ wanted[f].at <= q.since
        BY <1>15, <1>17, <2>1, <2>4, <4>2
      <4>4. Shown(q, f) = wanted[f].value
        BY <1>1, <1>4, <2>4, <4>2, <4>3 DEF SettingsInv, ScreensRemember
      <4> QED
        BY <3>1, <4>1, <4>2, <4>4
    <3> QED
      BY <3>2, <3>3
  <2> QED
    BY <2>3, <2>4
<1>26. NothingIsHeld'
    BY <1>3, <1>8 DEF NothingIsHeld
<1>27. NoOlderAck'
  <2> SUFFICES ASSUME NEW r \in Screens, proc'[r].pc # "off", proc'[r].ack = "", Ack \notin excused'
               PROVE  \/ wanted'[Ack].at > proc'[r].since
                      \/ /\ settingsFile'.doc.oldAck # "yes"
                         /\ \A s \in SettingsProcesses : proc'[s].pc = "saving" => proc'[s].file.doc.oldAck # "yes"
    BY DEF NoOlderAck
  <2>1. r \in SettingsProcesses /\ r # Wizard /\ Ack \in SettingsFields
    BY FieldsOfTheScreen, SettingsAssumption DEF SettingsProcesses, ScreenFieldsAre
  <2>2. proc'[r].since = proc[r].since /\ saves + 1 > proc[r].since
    <3>1. proc[r].since \in Nat /\ proc[r].since <= saves
      BY <1>10, <2>1 DEF SettingsInv, TimesArePast, ProcSet
    <3>2. saves + 1 > proc[r].since
      BY <1>11, <3>1
    <3> QED
      BY <1>1, <1>15, <1>17, <2>1, <3>2
  <2>3. CASE Ack \in own
    <3>1. wanted'[Ack].at = saves + 1
      BY <1>12, <2>3
    <3> QED
      BY <2>2, <3>1
  <2>4. CASE Ack \notin own
    <3>1. Ack \notin excused /\ wanted'[Ack] = wanted[Ack]
      BY <1>12, <1>13, <2>1, <2>4
    <3>2. proc[r].ack = "" /\ proc[r].pc # "off"
      BY <1>1, <1>4, <1>15, <1>16, <1>17, <2>1, <2>4
    <3>3. \/ wanted[Ack].at > proc[r].since
          \/ /\ settingsFile.doc.oldAck # "yes"
             /\ \A s \in SettingsProcesses : proc[s].pc = "saving" => proc[s].file.doc.oldAck # "yes"
      BY <3>1, <3>2 DEF SettingsInv, NoOlderAck
    <3>4. out.doc.oldAck = file.doc.oldAck
      <4>1. Merges(file.doc, d, MergeRaw(file, d))
        BY <1>5, <1>9, MergesWell
      <4> QED
        BY <1>3, <4>1 DEF Merges
    <3>5. CASE \A s \in SettingsProcesses : proc[s].pc = "saving" => proc[s].file.doc.oldAck # "yes"
      <4>1. settingsFile'.doc.oldAck # "yes"
        BY <1>1, <1>2, <1>4, <1>8, <3>4, <3>5
      <4> QED
        BY <1>18, <3>5, <4>1
    <3> QED
      BY <2>2, <3>1, <3>3, <3>5
  <2> QED
    BY <2>3, <2>4
<1>28. AckIsGiven'
  <2>1. CASE Ack \in own
    <3>1. c \in ScreenChanges \/ c \in WizardChanges
      BY <1>1, <1>2, <1>4 DEF SettingsInv, SavingIsAllowed
    <3>2. Meaning(d, Ack) = "yes"
      BY <1>3, <1>5, <2>1, <3>1, AckIsYes
    <3> QED
      BY <1>12, <2>1, <3>2 DEF AckIsGiven
  <2>2. CASE Ack \notin own
    <3>1. wanted'[Ack] = wanted[Ack]
      BY <1>12, <2>2, FieldsOfTheScreen DEF ScreenFieldsAre
    <3>2. wanted[Ack].at > 0 => wanted[Ack].value = "yes"
      BY DEF SettingsInv, AckIsGiven
    <3> QED
      BY <3>1, <3>2 DEF AckIsGiven
  <2> QED
    BY <2>1, <2>2
<1>29. RunsAsConfigured'
    BY <1>8 DEF RunsAsConfigured, NoLaunch
<1> QED
    BY <1>19, <1>20, <1>21, <1>22, <1>23, <1>24, <1>25, <1>26, <1>27, <1>28, <1>29 DEF SettingsInv

-----------------------------------------------------------------------------
(* What a screen is started with.                                             *)

LEMMA GreatestIs ==
  ASSUME NEW S \in SUBSET (1 .. 3), NEW i \in S, \A k \in S : k <= i
  PROVE  (CHOOSE j \in S : \A k \in S : k <= j) = i
<1>1. PICK j : j = CHOOSE l \in S : \A k \in S : k <= l
    OBVIOUS
<1>2. j \in S /\ \A k \in S : k <= j
    BY <1>1
<1> QED
    BY <1>1, <1>2

Keyed(layer) == layer.key # "" \/ layer.env # ""

LEMMA OverrideIsTyped ==
  ASSUME NEW p \in ProfileSet, NEW layer \in LayerSet
  PROVE  Override(p, layer) \in ProfileSet
<1>1. PICK pr, mo, ke, en :
         /\ pr = Patched(p.protocol, layer.protocol) /\ mo = Patched(p.model, layer.model)
         /\ ke = (IF layer.key # "" THEN layer.key ELSE IF layer.env # "" THEN "" ELSE p.key)
         /\ en = (IF layer.key # "" THEN "" ELSE IF layer.env # "" THEN layer.env ELSE p.env)
    OBVIOUS
<1>2. Override(p, layer) = [p EXCEPT !.protocol = pr, !.model = mo, !.key = ke, !.env = en]
    BY <1>1 DEF Override
<1>3. "" \in Texts
    BY SettingsAssumption
<1>4. pr \in {""} \cup Protocols /\ mo \in Texts
    BY <1>1 DEF Patched, ProfileSet, LayerSet
<1>5. ke \in Texts /\ en \in Texts
    BY <1>1, <1>3 DEF ProfileSet, LayerSet
<1> QED
    BY <1>2, <1>4, <1>5 DEF ProfileSet

LEMMA OverridesWell ==
  ASSUME NEW p \in ProfileSet, NEW layer \in LayerSet
  PROVE  /\ Override(p, layer).auth = p.auth
         /\ Override(p, layer).model = Patched(p.model, layer.model)
         /\ layer.key # "" => Override(p, layer).key = layer.key /\ Override(p, layer).env = ""
         /\ layer.key = "" /\ layer.env # "" => Override(p, layer).key = "" /\ Override(p, layer).env = layer.env
         /\ ~Keyed(layer) => Override(p, layer).key = p.key /\ Override(p, layer).env = p.env
<1>1. PICK pr, mo, ke, en :
         /\ pr = Patched(p.protocol, layer.protocol) /\ mo = Patched(p.model, layer.model)
         /\ ke = (IF layer.key # "" THEN layer.key ELSE IF layer.env # "" THEN "" ELSE p.key)
         /\ en = (IF layer.key # "" THEN "" ELSE IF layer.env # "" THEN layer.env ELSE p.env)
    OBVIOUS
<1>2. PICK o : o = Override(p, layer)
    OBVIOUS
<1>3. o = [p EXCEPT !.protocol = pr, !.model = mo, !.key = ke, !.env = en]
    BY <1>1, <1>2 DEF Override
<1>4. o.auth = p.auth /\ o.model = mo /\ o.key = ke /\ o.env = en
    BY <1>3 DEF ProfileSet
<1>5. layer.key # "" => o.key = layer.key /\ o.env = ""
    BY <1>1, <1>4
<1>6. layer.key = "" /\ layer.env # "" => o.key = "" /\ o.env = layer.env
    BY <1>1, <1>4
<1>7. ~Keyed(layer) => o.key = p.key /\ o.env = p.env
    BY <1>1, <1>4 DEF Keyed
<1> QED
    BY <1>1, <1>2, <1>4, <1>5, <1>6, <1>7

\* The source of the key that a profile names.
SourceOf(layer) == IF layer.key # "" THEN layer.key ELSE layer.env

\* What ResolveProfile makes of the key of the profile and the two layers.
KeyedRun(r, base, env, cli) ==
    \E inner, p \in ProfileSet : /\ inner = Override(base, env) /\ p = Override(inner, cli)
                                 /\ base.auth # "none" => Keyed(p) \/ p.env \in EnvSet
                                 /\ r.key = KeySource(p)

\* What it makes of the model, and where that is saved.
NamedRun(r, id, base, env, cli) ==
    /\ r.model = Patched(Patched(base.model, env.model), cli.model)
    /\ r.saved # "" => r.saved = id /\ base # NoProfile

LEMMA StrongestWins ==
  ASSUME NEW base \in ProfileSet, NEW env \in LayerSet, NEW cli \in LayerSet, base.auth # "none",
         NEW r, KeyedRun(r, base, env, cli)
  PROVE  r.key = SourceOf(StrongestOf(<<base, env, cli>>))
<1>1. PICK inner \in ProfileSet, p \in ProfileSet :
             /\ inner = Override(base, env) /\ p = Override(inner, cli)
             /\ Keyed(p) \/ p.env \in EnvSet
             /\ r.key = KeySource(p)
    BY Zenon DEF KeyedRun
<1>2. Keyed(p)
    BY <1>1, SettingsAssumption DEF Keyed
<1>3. p.auth # "none"
  <2>1. inner.auth = base.auth
    BY <1>1, OverridesWell
  <2>2. p.auth = inner.auth
    BY <1>1, OverridesWell
  <2> QED
    BY <2>1, <2>2
<1>4. KeySource(p) = SourceOf(p)
    BY <1>3 DEF KeySource, SourceOf
<1>5. PICK layers : layers = <<base, env, cli>>
    OBVIOUS
<1>6. PICK keyed : keyed = {i \in 1 .. 3 : Keyed(layers[i])}
    OBVIOUS
<1>7. layers[1] = base /\ layers[2] = env /\ layers[3] = cli
    BY <1>5
<1>8. {i \in DOMAIN layers : layers[i].key # "" \/ layers[i].env # ""} = keyed /\ keyed \in SUBSET (1 .. 3)
  <2>1. DOMAIN layers = 1 .. 3
    BY <1>5
  <2> QED
    BY <1>6, <2>1 DEF Keyed
<1>9. StrongestOf(<<base, env, cli>>) = layers[CHOOSE i \in keyed : \A k \in keyed : k <= i]
    BY <1>5, <1>8, Zenon DEF StrongestOf
<1>10. keyed \in SUBSET (1 .. 3)
    BY <1>6
<1>11. 1 \in 1 .. 3 /\ 2 \in 1 .. 3 /\ 3 \in 1 .. 3
    OBVIOUS
<1>12. (1 \in keyed <=> Keyed(base)) /\ (2 \in keyed <=> Keyed(env)) /\ (3 \in keyed <=> Keyed(cli))
    BY <1>11, <1>6, <1>7
<1>13. CASE Keyed(cli)
  <2>1. (CHOOSE i \in keyed : \A k \in keyed : k <= i) = 3
    BY <1>12, <1>13, <1>10, GreatestIs
  <2>2. cli.key # "" => p.key = cli.key
    BY <1>1, OverridesWell
  <2>3. cli.key = "" => p.key = "" /\ p.env = cli.env
    BY <1>13, <1>1, OverridesWell DEF Keyed
  <2>4. SourceOf(p) = SourceOf(cli)
    BY <2>2, <2>3 DEF SourceOf
  <2> QED
    BY <1>1, <1>4, <1>7, <1>9, <2>1, <2>4
<1>14. CASE ~Keyed(cli) /\ Keyed(env)
  <2>1. (CHOOSE i \in keyed : \A k \in keyed : k <= i) = 2
    BY <1>12, <1>14, <1>10, GreatestIs
  <2>2. p.key = inner.key /\ p.env = inner.env
    BY <1>14, <1>1, OverridesWell
  <2>3. env.key # "" => inner.key = env.key
    BY <1>1, OverridesWell
  <2>4. env.key = "" => inner.key = "" /\ inner.env = env.env
    BY <1>14, <1>1, OverridesWell DEF Keyed
  <2>5. SourceOf(p) = SourceOf(env)
    BY <2>2, <2>3, <2>4 DEF SourceOf
  <2> QED
    BY <1>1, <1>4, <1>7, <1>9, <2>1, <2>5
<1>15. CASE ~Keyed(cli) /\ ~Keyed(env)
  <2>1. p.key = inner.key /\ p.env = inner.env
    BY <1>15, <1>1, OverridesWell
  <2>2. inner.key = base.key /\ inner.env = base.env
    BY <1>15, <1>1, OverridesWell
  <2>3. Keyed(base)
    BY <1>2, <2>1, <2>2 DEF Keyed
  <2>4. (CHOOSE i \in keyed : \A k \in keyed : k <= i) = 1
    BY <1>12, <1>15, <1>10, <2>3, GreatestIs
  <2>5. SourceOf(p) = SourceOf(base)
    BY <2>1, <2>2 DEF SourceOf
  <2> QED
    BY <1>1, <1>4, <1>7, <1>9, <2>4, <2>5
<1> QED
    BY <1>13, <1>14, <1>15

RunOf(p, saved) ==
    [ok |-> /\ p.protocol # "" /\ p.model # ""
            /\ p.auth = "none" \/ p.key # "" \/ p.env \in EnvSet,
     saved |-> saved, protocol |-> p.protocol, model |-> p.model, key |-> KeySource(p)]

RunsWith(r, p, saved) ==
    /\ p.protocol # "" /\ (p.auth = "none" \/ Keyed(p) \/ p.env \in EnvSet)
    /\ r.saved = saved /\ r.protocol = p.protocol /\ r.model = p.model /\ r.key = KeySource(p)

LEMMA RunFields ==
  ASSUME NEW p, NEW saved, NEW r, r = RunOf(p, saved), r.ok
  PROVE  RunsWith(r, p, saved)
<1> QED
    BY DEF RunOf, Keyed, RunsWith

LEMMA ResolvesWell ==
  ASSUME NEW d \in Docs, NEW env \in LayerSet, NEW cli \in LayerSet,
         NEW r, r = ResolveProfile(d, env, cli), r.ok,
         NEW id, id = ProviderIdOf(d, env, cli),
         NEW base, base = (IF id = "" THEN NoProfile ELSE d.profiles[id])
  PROVE  /\ base \in ProfileSet
         /\ r.saved \in {""} \cup ProviderIds /\ r.protocol \in Protocols
         /\ KeyedRun(r, base, env, cli) /\ NamedRun(r, id, base, env, cli)
<1>1. id \in {""} \cup ProviderIds
    BY DEF ProviderIdOf, Patched, Docs, LayerSet
<1>2. base \in ProfileSet
    BY <1>1, NothingIsTyped DEF Docs
<1>3. PICK saved : saved = IF id # "" /\ d.profiles[id] # NoProfile THEN id ELSE ""
    OBVIOUS
<1>4. PICK inner \in ProfileSet : inner = Override(base, env)
    BY <1>2, OverrideIsTyped
<1>5. PICK p \in ProfileSet : p = Override(inner, cli)
    BY OverrideIsTyped
<1>6. inner.model = Patched(base.model, env.model) /\ inner.auth = base.auth
    BY <1>2, <1>4, OverridesWell
<1>7. p.model = Patched(inner.model, cli.model) /\ p.auth = inner.auth
    BY <1>5, OverridesWell
<1>8. (IF id # "" /\ d.profiles[id] # NoProfile THEN d.profiles[id] ELSE NoProfile) = base
    OBVIOUS
<1>9. r = RunOf(p, saved)
    BY <1>3, <1>4, <1>5, <1>8, Zenon DEF ResolveProfile, RunOf
<1>10. /\ p.protocol # "" /\ (p.auth = "none" \/ Keyed(p) \/ p.env \in EnvSet)
       /\ r.saved = saved /\ r.protocol = p.protocol /\ r.model = p.model /\ r.key = KeySource(p)
  <2>1. RunsWith(r, p, saved)
    BY <1>9, RunFields
  <2> QED
    BY <2>1 DEF RunsWith
<1>11. p.protocol \in Protocols
    BY <1>10 DEF ProfileSet
<1>12. saved \in {""} \cup ProviderIds /\ (saved # "" => saved = id /\ base # NoProfile)
    BY <1>1, <1>3
<1>13. KeyedRun(r, base, env, cli)
  <2>1. base.auth # "none" => Keyed(p) \/ p.env \in EnvSet
    BY <1>6, <1>7, <1>10, Zenon
  <2> QED
    BY <1>4, <1>5, <1>10, <2>1, Zenon DEF KeyedRun
<1>14. r.model = Patched(Patched(base.model, env.model), cli.model)
    BY <1>6, <1>7, <1>10
<1>15. NamedRun(r, id, base, env, cli)
    BY <1>10, <1>12, <1>14 DEF NamedRun
<1> QED
    BY <1>2, <1>10, <1>11, <1>12, <1>13, <1>15

LEMMA LaunchFits ==
  ASSUME NEW d \in Docs, NEW env \in LayerSet, NEW cli \in LayerSet,
         NEW r, r = ResolveProfile(d, env, cli), r.ok,
         launch' = [doc |-> d, env |-> env, cli |-> cli, resolved |-> r]
  PROVE  RunsAsConfigured'
<1>1. launch'.doc = d /\ launch'.env = env /\ launch'.cli = cli /\ launch'.resolved = r
    BY Zenon
<1>2. PICK id : id = ProviderIdOf(d, env, cli)
    OBVIOUS
<1>3. PICK base : base = (IF id = "" THEN NoProfile ELSE d.profiles[id])
    OBVIOUS
<1>4. /\ base \in ProfileSet /\ KeyedRun(r, base, env, cli)
      /\ r.model = Patched(Patched(base.model, env.model), cli.model)
      /\ r.saved # "" => r.saved = id /\ base # NoProfile
  <2>1. base \in ProfileSet
    BY <1>2, <1>3, ResolvesWell
  <2>2. KeyedRun(r, base, env, cli)
    BY <1>2, <1>3, ResolvesWell
  <2>3. NamedRun(r, id, base, env, cli)
    BY <1>2, <1>3, ResolvesWell
  <2>4. /\ r.model = Patched(Patched(base.model, env.model), cli.model)
        /\ r.saved # "" => r.saved = id /\ base # NoProfile
    BY <2>3, Zenon DEF NamedRun
  <2> QED
    BY <2>1, <2>2, <2>4
<1>5. PICK strongest : strongest = StrongestOf(<<base, env, cli>>)
    OBVIOUS
<1>6. base.auth # "none" => r.key = SourceOf(strongest)
    BY <1>4, <1>5, StrongestWins
<1>7. base.auth # "none" => r.key = (IF strongest.key # "" THEN strongest.key ELSE strongest.env)
    BY <1>6 DEF SourceOf
<1> QED
    BY <1>1, <1>2, <1>3, <1>4, <1>5, <1>7 DEF RunsAsConfigured

LEMMA StartScreenKeeps ==
  ASSUME SettingsInv, NEW p \in Screens, NEW env \in Layers, NEW cli \in Layers, StartScreen(p, env, cli)
  PROVE  SettingsInv'
<1>1. PICK d : d = Parse(settingsFile)
    OBVIOUS
<1>2. PICK r : r = ResolveProfile(d, env, cli)
    OBVIOUS
<1>3. PICK m : m = [Off EXCEPT !.pc = "idle", !.since = saves, !.theme = ThemeOf(d.theme),
                       !.statusline = StatuslineOf(d.statusline), !.mode = ModeOf(d.mode), !.ack = d.ack,
                       !.saved = r.saved, !.protocol = r.protocol]
    OBVIOUS
<1>4. /\ r.ok /\ proc' = [proc EXCEPT ![p] = m]
      /\ launch' = [doc |-> d, env |-> env, cli |-> cli, resolved |-> r]
      /\ UNCHANGED <<settingsFile, wanted, excused, saves>>
    BY <1>1, <1>2, <1>3, Zenon DEF StartScreen
<1>5. /\ settingsFile \in Files /\ saves \in Nat /\ proc \in [SettingsProcesses -> ProcSet] /\ excused \subseteq SettingsFields
      /\ wanted \in [SettingsFields -> [value : Texts, at : Nat, by : SettingsProcesses]]
    BY DEF SettingsInv, SettingsTypeOK
<1>6. d \in Docs /\ env \in LayerSet /\ cli \in LayerSet
    BY <1>1, <1>5, ParseIsDoc, SettingsAssumption
<1>7. RunsAsConfigured'
    BY <1>2, <1>4, <1>6, LaunchFits
<1>8. PICK th, st, mo, ak, sv, pt : /\ th = ThemeOf(d.theme) /\ st = StatuslineOf(d.statusline) /\ mo = ModeOf(d.mode)
                                    /\ ak = d.ack /\ sv = r.saved /\ pt = r.protocol
    OBVIOUS
<1>9. /\ th \in ThemeSet /\ st \in Texts \ {""} /\ mo \in ModeSet
      /\ sv \in {""} \cup ProviderIds /\ pt \in Protocols
  <2>1. th \in ThemeSet /\ st \in Texts \ {""} /\ mo \in ModeSet
    BY <1>6, <1>8, LookIsShown
  <2>2. PICK id : id = ProviderIdOf(d, env, cli)
    OBVIOUS
  <2>3. PICK base : base = (IF id = "" THEN NoProfile ELSE d.profiles[id])
    OBVIOUS
  <2>4. r.saved \in {""} \cup ProviderIds /\ r.protocol \in Protocols
    BY <1>2, <1>4, <1>6, <2>2, <2>3, ResolvesWell
  <2> QED
    BY <1>8, <2>1, <2>4
<1>10. ak \in {"", "yes", "no"} /\ th \in Texts /\ mo \in Texts /\ pt \in {""} \cup Protocols
  <2>1. ModeSet \subseteq Texts /\ ThemeSet \subseteq Texts
    BY DefaultTheme, SettingsAssumption DEF ModeSet
  <2>2. ak \in {"", "yes", "no"}
    BY <1>6, <1>8 DEF Docs
  <2> QED
    BY <1>9, <2>1, <2>2
<1>11. PICK off \in ProcSet : off = Off
    BY OffIsTyped
<1>12. m = [off EXCEPT !.pc = "idle", !.since = saves, !.theme = th, !.statusline = st, !.mode = mo, !.ack = ak,
                       !.saved = sv, !.protocol = pt]
    BY <1>3, <1>8, <1>11
<1>13. m \in ProcSet
  <2>1. PICK one \in ProcSet : one = [off EXCEPT !.pc = "idle", !.since = saves]
    BY <1>5 DEF ProcSet
  <2>2. PICK two \in ProcSet : two = [one EXCEPT !.theme = th, !.statusline = st, !.mode = mo]
    BY <1>9, <1>10 DEF ProcSet
  <2>3. [two EXCEPT !.ack = ak, !.saved = sv, !.protocol = pt] \in ProcSet
    BY <1>9, <1>10 DEF ProcSet
  <2>4. m = [two EXCEPT !.ack = ak, !.saved = sv, !.protocol = pt]
    BY <1>12, <2>1, <2>2 DEF ProcSet
  <2> QED
    BY <2>3, <2>4
<1>14. /\ m.pc = "idle" /\ m.since = saves /\ m.seen = 0 /\ m.theme = th /\ m.statusline = st /\ m.mode = mo /\ m.ack = ak
       /\ m.protocol = pt
  <2>1. off.seen = 0
    BY <1>11 DEF Off
  <2> QED
    BY <1>12, <2>1 DEF ProcSet
<1>15. p \in SettingsProcesses /\ p # Wizard
    BY SettingsAssumption DEF SettingsProcesses
<1>16. /\ proc'[p] = m /\ proc' \in [SettingsProcesses -> ProcSet]
       /\ \A s \in SettingsProcesses : s # p => proc'[s] = proc[s]
    BY <1>4, <1>5, <1>13, <1>15
<1>17. \A s \in SettingsProcesses : proc'[s].pc = "saving" => s # p /\ proc'[s] = proc[s]
    BY <1>14, <1>16
<1>18. SettingsTypeOK'
    BY <1>4, <1>5, <1>16 DEF SettingsTypeOK
<1>19. TimesArePast'
  <2>1. \A s \in SettingsProcesses : proc[s].since <= saves /\ proc[s].seen <= saves
    BY DEF SettingsInv, TimesArePast
  <2>2. m.since <= saves /\ m.seen <= saves
    BY <1>5, <1>14
  <2> QED
    BY <1>4, <1>16, <2>1, <2>2 DEF SettingsInv, TimesArePast
<1>20. ScreensShowChoices'
  <2> SUFFICES ASSUME NEW s \in Screens, proc'[s].pc # "off"
               PROVE  /\ proc'[s].theme \in ThemeSet /\ proc'[s].statusline \in Texts \ {""} /\ proc'[s].mode \in ModeSet
                      /\ proc'[s].protocol \in Protocols
    BY DEF ScreensShowChoices
  <2>1. s \in SettingsProcesses
    BY DEF SettingsProcesses
  <2>2. CASE s = p
    BY <1>9, <1>14, <1>16, <2>2
  <2>3. CASE s # p
    BY <1>16, <2>1, <2>3 DEF SettingsInv, ScreensShowChoices
  <2> QED
    BY <2>2, <2>3
<1>21. SavingIsAllowed'
  <2> SUFFICES ASSUME NEW s \in SettingsProcesses, proc'[s].pc = "saving"
               PROVE  /\ proc'[s].change \in IF s = Wizard THEN WizardChanges ELSE ScreenChanges
                      /\ proc'[s].change.kind = "model" => proc'[s].saved # ""
    BY Zenon DEF SavingIsAllowed
  <2>1. proc'[s] = proc[s] /\ proc[s].pc = "saving"
    BY <1>17
  <2>2. /\ proc[s].change \in IF s = Wizard THEN WizardChanges ELSE ScreenChanges
        /\ proc[s].change.kind = "model" => proc[s].saved # ""
    BY <2>1, Zenon DEF SettingsInv, SavingIsAllowed
  <2> QED
    BY <2>1, <2>2, Zenon
<1>22. ChoicesAreKept' /\ AckIsGiven'
    BY <1>4 DEF SettingsInv, ChoicesAreKept, AckIsGiven
<1>23. ReadsAreExact'
    BY <1>4, <1>17 DEF SettingsInv, ReadsAreExact
<1>24. ScreensRemember'
  <2> SUFFICES ASSUME NEW s \in Screens, proc'[s].pc # "off", NEW f \in ScreenFields \ excused,
                      wanted[f].by = s \/ wanted[f].at <= proc'[s].since
               PROVE  Shown(proc'[s], f) = wanted[f].value
    BY <1>4 DEF ScreensRemember
  <2>1. s \in SettingsProcesses
    BY DEF SettingsProcesses
  <2>2. CASE s # p
    BY <1>16, <2>1, <2>2 DEF SettingsInv, ScreensRemember
  <2>3. CASE s = p
    <3>1. f \in SettingsFields \ excused
      BY FieldsOfTheScreen DEF ScreenFieldsAre
    <3>2. Meaning(d, f) = wanted[f].value
      BY <1>1, <3>1 DEF SettingsInv, ChoicesAreKept
    <3>3. Shown(m, f) = Meaning(d, f)
      <4>1. CASE f = <<"theme", "">>
        BY <1>8, <1>14, <4>1, ShownIs, Meanings
      <4>2. CASE f = <<"statusline", "">>
        BY <1>8, <1>14, <4>2, ShownIs, Meanings
      <4>3. CASE f = <<"mode", "">>
        BY <1>8, <1>14, <4>3, ShownIs, Meanings
      <4>4. CASE f = Ack
        <5>1. Shown(m, Ack) = (IF m.ack = "yes" THEN "yes" ELSE "no")
          BY ShownIs, Zenon
        <5>2. Meaning(d, Ack) = (IF d.ack = "yes" THEN "yes" ELSE "no")
          BY Meanings, Zenon
        <5>3. m.ack = d.ack
          BY <1>8, <1>14
        <5> QED
          BY <4>4, <5>1, <5>2, <5>3, Zenon
      <4> QED
        BY <4>1, <4>2, <4>3, <4>4, FieldsOfTheScreen DEF ScreenFieldsAre
    <3> QED
      BY <1>16, <2>3, <3>2, <3>3
  <2> QED
    BY <2>2, <2>3
<1>25. NothingIsHeld'
    BY <1>4, <1>17 DEF SettingsInv, NothingIsHeld
<1>26. NoOlderAck'
  <2> SUFFICES ASSUME NEW s \in Screens, proc'[s].pc # "off", proc'[s].ack = "", Ack \notin excused
               PROVE  \/ wanted[Ack].at > proc'[s].since
                      \/ /\ settingsFile.doc.oldAck # "yes"
                         /\ \A t \in SettingsProcesses : proc'[t].pc = "saving" => proc'[t].file.doc.oldAck # "yes"
    BY <1>4 DEF NoOlderAck
  <2>1. s \in SettingsProcesses
    BY DEF SettingsProcesses
  <2>2. CASE s # p
    BY <1>16, <1>17, <2>1, <2>2 DEF SettingsInv, NoOlderAck
  <2>3. CASE s = p
    <3>1. d.ack = ""
      BY <1>8, <1>14, <1>16, <2>3
    <3>2. settingsFile.form # "ok"
      <4>1. settingsFile.form = "ok" => Parsed(settingsFile.doc, d)
        BY <1>1, <1>5, ParsesWell
      <4> QED
        BY <3>1, <4>1 DEF Parsed
    <3>3. settingsFile.doc = EmptyDoc /\ EmptyDoc.oldAck = ""
      BY <1>5, <3>2, FilesRead DEF EmptyDoc
    <3>4. ASSUME NEW t \in SettingsProcesses, proc'[t].pc = "saving" PROVE proc'[t].file.doc.oldAck # "yes"
      <4>1. proc'[t] = proc[t] /\ proc[t].pc = "saving"
        BY <1>17, <3>4
      <4>2. proc[t].file.form # "ok" /\ proc[t].file \in Files
        BY <1>5, <3>2, <4>1 DEF SettingsInv, NothingIsHeld, ProcSet
      <4>3. proc[t].file.doc = EmptyDoc
        BY <4>2, FilesRead
      <4> QED
        BY <3>3, <4>1, <4>3
    <3> QED
      BY <3>3, <3>4
  <2> QED
    BY <2>2, <2>3
<1> QED
    BY <1>7, <1>18, <1>19, <1>20, <1>21, <1>22, <1>23, <1>24, <1>25, <1>26 DEF SettingsInv

LEMMA BeginChangeKeeps ==
  ASSUME SettingsInv, NEW p \in SettingsProcesses, NEW c \in ScreenChanges \cup WizardChanges, BeginChange(p, c)
  PROVE  SettingsInv'
<1>1. PICK q \in ProcSet : q = proc[p]
    BY DEF SettingsInv, SettingsTypeOK
<1>2. PICK file \in Files : file = settingsFile
    BY DEF SettingsInv, SettingsTypeOK
<1>3. PICK m : m = [q EXCEPT !.pc = "saving", !.change = c, !.file = file, !.seen = saves]
    OBVIOUS
<1>4. /\ settingsFile \in Files /\ saves \in Nat /\ proc \in [SettingsProcesses -> ProcSet] /\ excused \subseteq SettingsFields
      /\ wanted \in [SettingsFields -> [value : Texts, at : Nat, by : SettingsProcesses]]
    BY DEF SettingsInv, SettingsTypeOK
<1>5. proc' = [proc EXCEPT ![p] = m]
  <2>1. proc' = [proc EXCEPT ![p].pc = "saving", ![p].change = c, ![p].file = settingsFile, ![p].seen = saves]
    BY DEF BeginChange
  <2> QED
    BY <2>1, <1>1, <1>2, <1>3, <1>4
<1>6. launch' = NoLaunch /\ UNCHANGED <<settingsFile, wanted, excused, saves>>
    BY DEF BeginChange
<1>7. /\ p = Wizard => q.pc = "off" /\ c \in WizardChanges
      /\ p # Wizard => q.pc = "idle" /\ c \in ScreenChanges
      /\ c.kind = "model" => q.saved # ""
    BY <1>1, Zenon DEF BeginChange, Allowed
<1>8. c \in ChangeSet
    BY ScreenKinds, WizardKinds
<1>9. m \in ProcSet
  <2>1. PICK one \in ProcSet : one = [q EXCEPT !.pc = "saving", !.seen = saves]
    BY <1>4 DEF ProcSet
  <2>2. PICK two \in ProcSet : two = [one EXCEPT !.change = c]
    BY <1>8 DEF ProcSet
  <2>3. [two EXCEPT !.file = file] \in ProcSet
    BY DEF ProcSet
  <2>4. m = [two EXCEPT !.file = file]
    BY <1>3, <2>1, <2>2 DEF ProcSet
  <2> QED
    BY <2>3, <2>4
<1>10. /\ m.pc = "saving" /\ m.change = c /\ m.file = file /\ m.seen = saves /\ m.since = q.since /\ m.theme = q.theme
       /\ m.statusline = q.statusline /\ m.mode = q.mode /\ m.ack = q.ack /\ m.protocol = q.protocol /\ m.saved = q.saved
    BY <1>3 DEF ProcSet
<1>11. /\ proc'[p] = m /\ proc' \in [SettingsProcesses -> ProcSet]
       /\ \A s \in SettingsProcesses : s # p => proc'[s] = proc[s]
    BY <1>4, <1>5, <1>9
<1>12. ASSUME NEW s \in Screens, proc'[s].pc # "off"
       PROVE  /\ proc[s].pc # "off" /\ proc'[s].since = proc[s].since /\ proc'[s].ack = proc[s].ack
              /\ proc'[s].theme = proc[s].theme /\ proc'[s].statusline = proc[s].statusline
              /\ proc'[s].mode = proc[s].mode /\ proc'[s].protocol = proc[s].protocol
  <2>1. s \in SettingsProcesses /\ s # Wizard
    BY SettingsAssumption DEF SettingsProcesses
  <2>2. CASE s = p
    BY <1>1, <1>7, <1>10, <1>11, <2>1, <2>2
  <2>3. CASE s # p
    BY <1>11, <1>12, <2>1, <2>3
  <2> QED
    BY <2>2, <2>3
<1>13. SettingsTypeOK'
    BY <1>4, <1>6, <1>11 DEF SettingsTypeOK
<1>14. TimesArePast'
  <2>1. \A s \in SettingsProcesses : proc[s].since <= saves /\ proc[s].seen <= saves
    BY DEF SettingsInv, TimesArePast
  <2>2. m.since <= saves /\ m.seen <= saves
    BY <1>1, <1>4, <1>10, <2>1
  <2> QED
    BY <1>6, <1>11, <2>1, <2>2 DEF SettingsInv, TimesArePast
<1>15. ScreensShowChoices'
    BY <1>12 DEF SettingsInv, ScreensShowChoices
<1>16. SavingIsAllowed'
  <2> SUFFICES ASSUME NEW s \in SettingsProcesses, proc'[s].pc = "saving"
               PROVE  /\ proc'[s].change \in IF s = Wizard THEN WizardChanges ELSE ScreenChanges
                      /\ proc'[s].change.kind = "model" => proc'[s].saved # ""
    BY Zenon DEF SavingIsAllowed
  <2>1. CASE s = p
    BY <1>7, <1>10, <1>11, <2>1
  <2>2. CASE s # p
    <3>1. proc'[s] = proc[s] /\ proc[s].pc = "saving"
      BY <1>11, <2>2
    <3>2. /\ proc[s].change \in IF s = Wizard THEN WizardChanges ELSE ScreenChanges
          /\ proc[s].change.kind = "model" => proc[s].saved # ""
      BY <3>1, Zenon DEF SettingsInv, SavingIsAllowed
    <3> QED
      BY <3>1, <3>2, Zenon
  <2> QED
    BY <2>1, <2>2
<1>17. ChoicesAreKept' /\ AckIsGiven'
    BY <1>6 DEF SettingsInv, ChoicesAreKept, AckIsGiven
<1>18. ReadsAreExact'
  <2> SUFFICES ASSUME NEW s \in SettingsProcesses, proc'[s].pc = "saving", NEW f \in SettingsFields \ excused,
                      wanted[f].at <= proc'[s].seen, proc'[s].file.form = "ok"
               PROVE  Meaning(Parse(proc'[s].file), f) = wanted[f].value
    BY <1>6 DEF ReadsAreExact
  <2>1. CASE s = p
    BY <1>2, <1>10, <1>11, <2>1 DEF SettingsInv, ChoicesAreKept
  <2>2. CASE s # p
    BY <1>11, <2>2 DEF SettingsInv, ReadsAreExact
  <2> QED
    BY <2>1, <2>2
<1>19. ScreensRemember'
  <2> SUFFICES ASSUME NEW s \in Screens, proc'[s].pc # "off", NEW f \in ScreenFields \ excused,
                      wanted[f].by = s \/ wanted[f].at <= proc'[s].since
               PROVE  Shown(proc'[s], f) = wanted[f].value
    BY <1>6 DEF ScreensRemember
  <2>1. Shown(proc[s], f) = wanted[f].value
    BY <1>12 DEF SettingsInv, ScreensRemember
  <2>2. Shown(proc'[s], f) = Shown(proc[s], f)
    BY <1>12, SameShown
  <2> QED
    BY <2>1, <2>2
<1>20. NothingIsHeld'
    BY <1>2, <1>6, <1>10, <1>11 DEF SettingsInv, NothingIsHeld
<1>21. NoOlderAck'
  <2> SUFFICES ASSUME NEW s \in Screens, proc'[s].pc # "off", proc'[s].ack = "", Ack \notin excused
               PROVE  \/ wanted[Ack].at > proc'[s].since
                      \/ /\ settingsFile.doc.oldAck # "yes"
                         /\ \A t \in SettingsProcesses : proc'[t].pc = "saving" => proc'[t].file.doc.oldAck # "yes"
    BY <1>6 DEF NoOlderAck
  <2>1. \/ wanted[Ack].at > proc[s].since
        \/ /\ settingsFile.doc.oldAck # "yes"
           /\ \A t \in SettingsProcesses : proc[t].pc = "saving" => proc[t].file.doc.oldAck # "yes"
    BY <1>12 DEF SettingsInv, NoOlderAck
  <2>2. ASSUME NEW t \in SettingsProcesses, proc'[t].pc = "saving", settingsFile.doc.oldAck # "yes",
               \A u \in SettingsProcesses : proc[u].pc = "saving" => proc[u].file.doc.oldAck # "yes"
        PROVE  proc'[t].file.doc.oldAck # "yes"
    BY <1>2, <1>10, <1>11, <2>2
  <2> QED
    BY <1>12, <2>1, <2>2
<1>22. RunsAsConfigured'
    BY <1>6 DEF RunsAsConfigured, NoLaunch
<1> QED
    BY <1>13, <1>14, <1>15, <1>16, <1>17, <1>18, <1>19, <1>20, <1>21, <1>22 DEF SettingsInv

LEMMA SettingsStep == SettingsInv /\ [SettingsNext]_settingsVars => SettingsInv'
<1> SUFFICES ASSUME SettingsInv, [SettingsNext]_settingsVars PROVE SettingsInv'
    OBVIOUS
<1>1. ASSUME NEW p \in Screens, NEW env \in Layers, NEW cli \in Layers, StartScreen(p, env, cli) PROVE SettingsInv'
    BY <1>1, StartScreenKeeps
<1>2. ASSUME NEW p \in SettingsProcesses, NEW c \in ScreenChanges \cup WizardChanges, BeginChange(p, c) PROVE SettingsInv'
    BY <1>2, BeginChangeKeeps
<1>3. ASSUME NEW p \in SettingsProcesses, SavingFails(p) PROVE SettingsInv'
    BY <1>3, SavingFailsKeeps
<1>4. ASSUME NEW p \in SettingsProcesses, StopScreen(p) PROVE SettingsInv'
    BY <1>4, StopScreenKeeps
<1>5. ASSUME NEW p \in SettingsProcesses, NEW ok \in BOOLEAN, SaveSettings(p, ok) PROVE SettingsInv'
    BY <1>5, SaveSettingsKeeps
<1>6. CASE BreakFile
    BY <1>6, BreakFileKeeps
<1>7. CASE UNCHANGED settingsVars
    BY <1>7, SettingsStutter
<1> QED
    BY <1>1, <1>2, <1>3, <1>4, <1>5, <1>6, <1>7 DEF SettingsNext

\* The file, what the processes remember and read, and the history keep their types
\* (internal/settings, internal/llmconfig).
THEOREM SettingsTypeCorrect == SettingsInit /\ [][SettingsNext]_settingsVars => []SettingsTypeOK
<1>1. SettingsInv => SettingsTypeOK
    BY DEF SettingsInv
<1> QED
    BY <1>1, SettingsBegin, SettingsStep, PTL

\* Whatever processes read, change and rewrite the file, in whatever order, with failures, ends
\* and edits in between: a setting reads as it was last chosen unless a save that had read the
\* file before wrote over it, and a screen starts with the model and key of the strongest source
\* (Save and mergeRaw; ResolveProfile).
THEOREM SettingsStayExact == SettingsInit /\ [][SettingsNext]_settingsVars => []SettingsAreExact
<1>1. SettingsInv => SettingsAreExact
    BY DEF SettingsInv, SettingsAreExact
<1> QED
    BY <1>1, SettingsBegin, SettingsStep, PTL

-----------------------------------------------------------------------------
(* The model is asked.                                                      *)

\* A set of numbers that is not empty has a least one.
LEMMA LeastExists ==
    ASSUME NEW S \in SUBSET Nat, S # {}
    PROVE  \E g \in S : \A s \in S : g <= s
<1>1. PICK g \in S : \A s \in S : <<s, g>> \notin OpToRel(<, Nat)
    BY NatLessThanWellFounded, WFMin
<1>2. ASSUME NEW s \in S PROVE g <= s
    <2>1. ~(s < g)
        BY <1>1 DEF OpToRel
    <2> QED
        BY <2>1
<1> QED
    BY <1>2

\* What Append does to a sequence.
LEMMA OneMore ==
    ASSUME NEW S, NEW s \in Seq(S), NEW x \in S
    PROVE  /\ Append(s, x) \in Seq(S) /\ Len(s) \in Nat /\ DOMAIN s = 1..Len(s)
           /\ Len(Append(s, x)) = Len(s) + 1 /\ DOMAIN Append(s, x) = 1..(Len(s) + 1)
           /\ \A i \in DOMAIN s : Append(s, x)[i] = s[i]
           /\ Append(s, x)[Len(s) + 1] = x
OBVIOUS

\* The recursion that puts the messages on the wire, up to the message m.
WireStep(protocol, messages, f, i) ==
    IF i = 0 THEN [out |-> <<>>, pending |-> <<>>]
    ELSE IF protocol = "openai" THEN ToOpenAI(f[i - 1], messages[i])
    ELSE ToClaude(f[i - 1], messages[i])

IsWire(protocol, f, messages, m) == f = [i \in 0..m |-> WireStep(protocol, messages, f, i)]

\* The messages are written one after the other: the recursion has a solution.
LEMMA WireExists ==
    ASSUME NEW protocol, NEW messages, NEW m \in Nat
    PROVE  \E f : IsWire(protocol, f, messages, m)
<1> DEFINE Bad == {n \in Nat : ~\E f : IsWire(protocol, f, messages, n)}
<1> SUFFICES ASSUME Bad # {} PROVE FALSE
    OBVIOUS
<1>1. PICK n \in Bad : \A j \in Bad : n <= j
    BY LeastExists
<1>2. CASE n = 0
    <2> DEFINE f == [i \in 0..0 |-> [out |-> <<>>, pending |-> <<>>]]
    <2>1. IsWire(protocol, f, messages, 0)
        BY DEF IsWire, WireStep
    <2> QED
        BY <1>1, <1>2, <2>1
<1>3. CASE n # 0
    <2>1. n \in Nat /\ n - 1 \in Nat /\ n - 1 \notin Bad
        BY <1>1, <1>3
    <2>2. PICK g : IsWire(protocol, g, messages, n - 1)
        BY <2>1
    <2> DEFINE h == [i \in 0..n |-> IF i = n THEN WireStep(protocol, messages, g, n) ELSE g[i]]
    <2>3. \A i \in 0..(n - 1) : h[i] = g[i] /\ g[i] = WireStep(protocol, messages, g, i)
        <3>1. \A i \in 0..(n - 1) : g[i] = WireStep(protocol, messages, g, i)
            BY <2>2 DEF IsWire
        <3> QED
            BY <2>1, <3>1
    <2>4. \A i \in 0..n : WireStep(protocol, messages, h, i) = WireStep(protocol, messages, g, i)
        <3> SUFFICES ASSUME NEW i \in 0..n PROVE WireStep(protocol, messages, h, i) = WireStep(protocol, messages, g, i)
            OBVIOUS
        <3>1. CASE i = 0
            BY <3>1 DEF WireStep
        <3>2. CASE i # 0
            <4>1. h[i - 1] = g[i - 1]
                BY <2>1, <2>3, <3>2
            <4> HIDE DEF h
            <4> QED
                BY <4>1, Zenon DEF WireStep
        <3> QED
            BY <3>1, <3>2
    <2>5. \A i \in 0..n : h[i] = WireStep(protocol, messages, h, i)
        <3> SUFFICES ASSUME NEW i \in 0..n PROVE h[i] = WireStep(protocol, messages, h, i)
            OBVIOUS
        <3>1. CASE i = n
            <4>1. h[i] = WireStep(protocol, messages, g, n)
                BY <3>1
            <4> HIDE DEF h
            <4> QED
                BY <3>1, <4>1, <2>4
        <3>2. CASE i # n
            <4>1. i \in 0..(n - 1)
                BY <3>2, <2>1
            <4> HIDE DEF h
            <4> QED
                BY <4>1, <2>3, <2>4
        <3> QED
            BY <3>1, <3>2
    <2>6. h = [i \in 0..n |-> WireStep(protocol, messages, h, i)]
        <3>1. h = [i \in 0..n |-> h[i]]
            OBVIOUS
        <3> HIDE DEF h
        <3> QED
            BY <3>1, <2>5
    <2>7. IsWire(protocol, h, messages, n)
        <3> HIDE DEF h
        <3> QED
            BY <2>6 DEF IsWire
    <2> QED
        BY <1>1, <2>7
<1> QED
    BY <1>2, <1>3

\* Of the first n messages, each call on the wire is answered behind it, or is to be
\* answered by the message whose place that will be.
Owed(messages, out, n) ==
    \A i \in DOMAIN out : \A k \in DOMAIN out[i].calls :
        \/ i + k \in DOMAIN out /\ out[i + k].role = "tool" /\ out[i + k].of = out[i].calls[k]
        \/ /\ i + k > Len(out) /\ n + (i + k - Len(out)) \in DOMAIN messages
           /\ messages[n + (i + k - Len(out))].of = out[i].calls[k]

\* Before a message that is no result, and at the end, every call is answered.
LEMMA NothingOwed ==
    ASSUME NEW messages \in Seq(Messages), NEW out \in Seq(WireMessages), NEW n \in 0..Len(messages),
           Owed(messages, out, n), n + 1 \in DOMAIN messages => messages[n + 1].of = NoCall
    PROVE  \A i \in DOMAIN out : \A k \in DOMAIN out[i].calls :
               i + k \in DOMAIN out /\ out[i + k].role = "tool" /\ out[i + k].of = out[i].calls[k]
<1> SUFFICES ASSUME NEW i \in DOMAIN out, NEW k \in DOMAIN out[i].calls, i + k > Len(out),
                    n + (i + k - Len(out)) \in DOMAIN messages
             PROVE  FALSE
    BY DEF Owed
<1>1. i \in 1..Len(out) /\ Len(out) \in Nat /\ DOMAIN out = 1..Len(out)
    OBVIOUS
<1>2. Len(messages) \in Nat /\ DOMAIN messages = 1..Len(messages)
    OBVIOUS
<1>3. out[i].calls \in Seq(ToolCalls)
    <2>1. out[i] \in WireMessages
        OBVIOUS
    <2> QED
        BY <2>1, Zenon DEF WireMessages
<1>4. /\ DOMAIN out[i].calls = 1..Len(out[i].calls) /\ Len(out[i].calls) \in Nat
      /\ \A j \in DOMAIN out[i].calls : out[i].calls[j] \in ToolCalls
    <2> DEFINE calls == out[i].calls
    <2>1. calls \in Seq(ToolCalls)
        BY <1>3
    <2> HIDE DEF calls
    <2>2. DOMAIN calls = 1..Len(calls) /\ Len(calls) \in Nat /\ \A j \in DOMAIN calls : calls[j] \in ToolCalls
        BY ONLY <2>1
    <2> QED
        BY <2>2 DEF calls
<1>5. k \in Nat /\ k <= Len(out[i].calls)
    BY <1>4
<1>6. n + 1 \in DOMAIN messages
    BY <1>1, <1>2, <1>5
<1> DEFINE L == Len(out)
           K == Len(out[i].calls)
<1>7. PICK l \in 1..K : i + l = L + 1
    <2>1. L \in Nat /\ K \in Nat /\ i \in 1..L /\ k \in Nat /\ k <= K /\ i + k > L
        BY <1>1, <1>4, <1>5
    <2>2. L + 1 - i \in 1..K /\ i + (L + 1 - i) = L + 1
        BY ONLY <2>1
    <2> QED
        BY <2>2
<1>8. l \in DOMAIN out[i].calls /\ i + l \notin DOMAIN out /\ n + (i + l - L) = n + 1
    BY <1>1, <1>2, <1>4, <1>7
<1> HIDE DEF L
<1>9. messages[n + 1].of = out[i].calls[l]
    BY <1>8 DEF Owed, L
<1> QED
    BY <1>4, <1>6, <1>8, <1>9, CallsAssumption

\* The image of a call is on the wire, or waits for the end of its batch.
ImageKept(call, w) ==
    call \in ToSet(w.pending) \/ \E k \in DOMAIN w.out : call \in ToSet(w.out[k].images)

NoImages(w) == w.pending = <<>> /\ \A k \in DOMAIN w.out : w.out[k].images = <<>>

\* What the wire is worth after the first n messages.
Wiring(messages, w, n) ==
    /\ w \in [out : Seq(WireMessages), pending : Seq(ToolCalls)]
    /\ Owed(messages, w.out, n)
    /\ \A j \in 1..n : messages[j].image => ImageKept(messages[j].of, w)
    /\ (\A j \in DOMAIN messages : ~messages[j].image) => NoImages(w)

\* The next message goes behind the others with its calls, and a result is that of its call.
LEMMA WritingAnswers ==
    ASSUME NEW messages, AnsweredInPlace(messages), NEW n \in Nat, n + 1 \in DOMAIN messages,
           NEW out \in Seq(WireMessages), Owed(messages, out, n),
           NEW x \in WireMessages, x.calls = messages[n + 1].calls,
           messages[n + 1].of # NoCall => x.role = "tool" /\ x.of = messages[n + 1].of
    PROVE  Owed(messages, Append(out, x), n + 1)
<1> DEFINE new == Append(out, x)
           L == Len(out)
<1>1. /\ L \in Nat /\ DOMAIN out = 1..L /\ Len(new) = L + 1 /\ DOMAIN new = 1..(L + 1)
      /\ new[L + 1] = x /\ \A i \in DOMAIN out : new[i] = out[i]
    BY OneMore
<1>2. Len(messages) \in Nat /\ DOMAIN messages = 1..Len(messages)
    BY DEF AnsweredInPlace
<1> HIDE DEF new, L
<1>3. ASSUME NEW k \in DOMAIN x.calls
      PROVE  n + 1 + k \in DOMAIN messages /\ messages[n + 1 + k].of = x.calls[k] /\ k \in Nat /\ k > 0
    <2>1. x.calls \in Seq(ToolCalls)
        BY DEF WireMessages
    <2>2. k \in Nat /\ k > 0
        BY <2>1
    <2> QED
        BY <2>2 DEF AnsweredInPlace
<1>4. ASSUME NEW i \in DOMAIN out, NEW k \in DOMAIN out[i].calls
      PROVE  k \in Nat /\ k > 0 /\ out[i].calls[k] \in ToolCalls
    <2>1. out[i] \in WireMessages
        OBVIOUS
    <2>2. out[i].calls \in Seq(ToolCalls)
        BY <2>1 DEF WireMessages
    <2> QED
        BY <2>2
<1>5. SUFFICES ASSUME NEW i \in DOMAIN new, NEW k \in DOMAIN new[i].calls
               PROVE  \/ i + k \in DOMAIN new /\ new[i + k].role = "tool" /\ new[i + k].of = new[i].calls[k]
                      \/ /\ i + k > L + 1 /\ n + 1 + (i + k - (L + 1)) \in DOMAIN messages
                         /\ messages[n + 1 + (i + k - (L + 1))].of = new[i].calls[k]
    BY <1>1 DEF Owed, new
<1>6. CASE i = L + 1
    <2>1. k \in DOMAIN x.calls /\ new[i].calls[k] = x.calls[k]
        BY <1>1, <1>6
    <2>2. i + k > L + 1 /\ n + 1 + (i + k - (L + 1)) = n + 1 + k
        BY <1>1, <1>3, <1>6, <2>1
    <2> QED
        BY <1>3, <2>1, <2>2
<1>7. CASE i \in DOMAIN out
    <2>1. new[i] = out[i] /\ k \in DOMAIN out[i].calls /\ k \in Nat /\ out[i].calls[k] \in ToolCalls
        BY <1>1, <1>4, <1>7
    <2>2. CASE i + k \in DOMAIN out /\ out[i + k].role = "tool" /\ out[i + k].of = out[i].calls[k]
        BY <1>1, <2>1, <2>2
    <2>3. CASE /\ i + k > L /\ n + (i + k - L) \in DOMAIN messages
               /\ messages[n + (i + k - L)].of = out[i].calls[k]
        <3>1. CASE i + k = L + 1
            <4>1. n + (i + k - L) = n + 1
                BY <1>1, <2>1, <3>1
            <4>2. messages[n + 1].of = out[i].calls[k]
                BY <2>3, <4>1
            <4>3. messages[n + 1].of # NoCall
                BY <2>1, <4>2, CallsAssumption
            <4> QED
                BY <1>1, <2>1, <3>1, <4>2, <4>3
        <3>2. CASE i + k # L + 1
            <4>1. i \in Nat /\ k \in Nat /\ L \in Nat /\ i + k > L
                BY <1>1, <2>1, <2>3
            <4>2. i + k > L + 1 /\ n + 1 + (i + k - (L + 1)) = n + (i + k - L)
                BY ONLY n \in Nat, <3>2, <4>1
            <4> QED
                BY <2>1, <2>3, <4>2
        <3> QED
            BY <3>1, <3>2
    <2> QED
        BY <2>1, <2>2, <2>3, <1>7 DEF Owed, L
<1> QED
    BY <1>1, <1>6, <1>7

\* The images of a batch go out behind its last result, and none is lost.
LEMMA FlushingKeeps ==
    ASSUME NEW messages, AnsweredInPlace(messages), NEW n \in 0..Len(messages), NEW w, Wiring(messages, w, n),
           n + 1 \in DOMAIN messages => messages[n + 1].of = NoCall
    PROVE  Wiring(messages, Flushed(w), n) /\ Flushed(w).pending = <<>>
<1>1. CASE w.pending = <<>>
    BY <1>1 DEF Flushed
<1>2. CASE w.pending # <<>>
    <2> DEFINE x == OnWire("user", <<>>, NoCall, w.pending)
    <2>1. x \in WireMessages /\ x.calls = <<>> /\ x.images = w.pending
        BY DEF Wiring, WireMessages, OnWire
    <2> HIDE DEF x
    <2> DEFINE new == Append(w.out, x)
    <2>2. w.out \in Seq(WireMessages) /\ messages \in Seq(Messages)
        BY DEF Wiring, AnsweredInPlace
    <2>3. /\ Len(w.out) \in Nat /\ DOMAIN w.out = 1..Len(w.out) /\ new \in Seq(WireMessages)
          /\ DOMAIN new = 1..(Len(w.out) + 1) /\ Len(new) = Len(w.out) + 1
          /\ new[Len(w.out) + 1] = x /\ \A i \in DOMAIN w.out : new[i] = w.out[i]
        BY <2>1, <2>2, OneMore
    <2>4. \A i \in DOMAIN w.out : \A k \in DOMAIN w.out[i].calls :
              /\ i + k \in DOMAIN w.out /\ w.out[i + k].role = "tool"
              /\ w.out[i + k].of = w.out[i].calls[k]
        BY <2>2, NothingOwed DEF Wiring
    <2> HIDE DEF new
    <2>5. Flushed(w) = [out |-> new, pending |-> <<>>]
        BY <1>2 DEF Flushed, new, x
    <2>6. \A i \in DOMAIN new : i \in DOMAIN w.out \/ new[i].calls = <<>>
        BY <2>1, <2>3
    <2>7. Owed(messages, new, n)
        BY <2>3, <2>4, <2>6 DEF Owed
    <2>8. ASSUME NEW j \in 1..n, messages[j].image PROVE ImageKept(messages[j].of, [out |-> new, pending |-> <<>>])
        <3>1. ImageKept(messages[j].of, w)
            BY <2>8 DEF Wiring
        <3>2. CASE messages[j].of \in ToSet(w.pending)
            BY <2>1, <2>3, <3>2 DEF ImageKept
        <3>3. CASE \E k \in DOMAIN w.out : messages[j].of \in ToSet(w.out[k].images)
            <4>1. PICK k \in DOMAIN w.out : messages[j].of \in ToSet(w.out[k].images)
                BY <3>3
            <4>2. k \in DOMAIN new /\ new[k] = w.out[k]
                BY <2>3
            <4> QED
                BY <4>1, <4>2 DEF ImageKept
        <3> QED
            BY <3>1, <3>2, <3>3 DEF ImageKept
    <2>9. (\A j \in DOMAIN messages : ~messages[j].image) => FALSE
        BY <1>2 DEF Wiring, NoImages
    <2> QED
        BY <2>3, <2>5, <2>7, <2>8, <2>9 DEF Wiring
<1> QED
    BY <1>1, <1>2

\* A message written behind the others keeps what was written, and what waits.
LEMMA WritingKeeps ==
    ASSUME NEW messages, AnsweredInPlace(messages), NEW n \in Nat, n + 1 \in DOMAIN messages,
           NEW w, Wiring(messages, w, n),
           NEW x \in WireMessages, x.calls = messages[n + 1].calls,
           messages[n + 1].of # NoCall => x.role = "tool" /\ x.of = messages[n + 1].of,
           NEW waits \in Seq(ToolCalls), ToSet(w.pending) \subseteq ToSet(waits),
           messages[n + 1].image => messages[n + 1].of \in ToSet(waits) \cup ToSet(x.images),
           (\A j \in DOMAIN messages : ~messages[j].image) => waits = <<>> /\ x.images = <<>>
    PROVE  Wiring(messages, [out |-> Append(w.out, x), pending |-> waits], n + 1)
<1> DEFINE new == Append(w.out, x)
           v == [out |-> new, pending |-> waits]
<1>1. w.out \in Seq(WireMessages)
    BY DEF Wiring
<1>2. /\ Len(w.out) \in Nat /\ DOMAIN w.out = 1..Len(w.out) /\ new \in Seq(WireMessages)
      /\ DOMAIN new = 1..(Len(w.out) + 1)
      /\ new[Len(w.out) + 1] = x /\ \A i \in DOMAIN w.out : new[i] = w.out[i]
    BY <1>1, OneMore
<1>3. Owed(messages, new, n + 1)
    BY <1>1, WritingAnswers DEF Wiring
<1> HIDE DEF new
<1>4. v.out = new /\ v.pending = waits /\ v \in [out : Seq(WireMessages), pending : Seq(ToolCalls)]
    BY <1>2
<1> HIDE DEF v
<1>5. \A k \in DOMAIN w.out : k \in DOMAIN new /\ new[k] = w.out[k]
    BY <1>2
<1>6. ASSUME NEW call, ImageKept(call, w) PROVE ImageKept(call, v)
    <2>1. CASE call \in ToSet(w.pending)
        BY <1>4, <2>1 DEF ImageKept
    <2>2. CASE \E k \in DOMAIN w.out : call \in ToSet(w.out[k].images)
        <3>1. PICK k \in DOMAIN w.out : call \in ToSet(w.out[k].images)
            BY <2>2
        <3>2. k \in DOMAIN v.out /\ v.out[k] = w.out[k]
            BY <1>4, <1>5
        <3> QED
            BY <3>1, <3>2 DEF ImageKept
    <2> QED
        BY <1>6, <2>1, <2>2 DEF ImageKept
<1>7. messages[n + 1].image => ImageKept(messages[n + 1].of, v)
    <2>1. Len(w.out) + 1 \in DOMAIN v.out /\ v.out[Len(w.out) + 1] = x
        BY <1>2, <1>4
    <2> QED
        BY <1>4, <2>1 DEF ImageKept
<1>8. \A j \in 1..(n + 1) : messages[j].image => ImageKept(messages[j].of, v)
    <2>1. \A j \in 1..(n + 1) : j \in 1..n \/ j = n + 1
        OBVIOUS
    <2> QED
        BY <1>6, <1>7, <2>1 DEF Wiring
<1>9. (\A j \in DOMAIN messages : ~messages[j].image) => NoImages(v)
    <2>1. \A k \in DOMAIN new : k \in DOMAIN w.out \/ new[k] = x
        BY <1>2
    <2> QED
        BY <1>4, <1>5, <2>1 DEF Wiring, NoImages
<1>10. Wiring(messages, v, n + 1)
    BY <1>3, <1>4, <1>8, <1>9 DEF Wiring
<1> QED
    BY <1>10 DEF v, new

\* One more message in the form of OpenAI.
LEMMA ToOpenAIKeeps ==
    ASSUME NEW messages, AnsweredInPlace(messages), NEW n \in 0..Len(messages), n + 1 \in DOMAIN messages,
           NEW w, Wiring(messages, w, n)
    PROVE  Wiring(messages, ToOpenAI(w, messages[n + 1]), n + 1)
<1> DEFINE m == messages[n + 1]
<1>1. /\ m.role \in {"system", "user", "assistant"} /\ m.calls \in Seq(ToolCalls)
      /\ m.of \in ToolCalls \cup {NoCall}
      /\ m.calls # <<>> => m.role = "assistant" /\ m.of = NoCall
      /\ m.image => m.of # NoCall
    <2>1. m \in Messages
        BY DEF AnsweredInPlace
    <2> QED
        BY <2>1 DEF AnsweredInPlace, Messages
<1>2. n \in Nat
    BY DEF AnsweredInPlace
<1>3. CASE m.of # NoCall
    <2> DEFINE x == OnWire("tool", <<>>, m.of, <<>>)
               waits == IF m.image THEN Append(w.pending, m.of) ELSE w.pending
    <2>1. x \in WireMessages /\ x.calls = <<>> /\ x.images = <<>> /\ x.role = "tool" /\ x.of = m.of
        BY <1>1 DEF OnWire, WireMessages
    <2>2. w.pending \in Seq(ToolCalls)
        BY DEF Wiring
    <2>3. /\ waits \in Seq(ToolCalls) /\ ToSet(w.pending) \subseteq ToSet(waits)
          /\ m.image => m.of \in ToSet(waits)
        <3>1. CASE ~m.image
            BY <2>2, <3>1
        <3>2. CASE m.image
            <4> DEFINE p == Append(w.pending, m.of)
            <4>1. m.of \in ToolCalls
                BY <1>1, <1>3
            <4>2. /\ p \in Seq(ToolCalls) /\ Len(w.pending) \in Nat /\ DOMAIN w.pending = 1..Len(w.pending)
                  /\ DOMAIN p = 1..(Len(w.pending) + 1)
                  /\ p[Len(w.pending) + 1] = m.of /\ \A i \in DOMAIN w.pending : p[i] = w.pending[i]
                BY <2>2, <4>1, OneMore
            <4> HIDE DEF p
            <4>3. \A i \in DOMAIN w.pending : i \in DOMAIN p
                BY <4>2
            <4>4. Len(w.pending) + 1 \in DOMAIN p
                BY <4>2
            <4>5. ToSet(w.pending) \subseteq ToSet(p) /\ m.of \in ToSet(p)
                BY <4>2, <4>3, <4>4 DEF ToSet
            <4> QED
                BY <3>2, <4>2, <4>5 DEF p
        <3> QED
            BY <3>1, <3>2
    <2>4. (\A j \in DOMAIN messages : ~messages[j].image) => waits = <<>>
        BY DEF Wiring, NoImages
    <2>5. ToOpenAI(w, m) = [out |-> Append(w.out, x), pending |-> waits]
        BY <1>3 DEF ToOpenAI
    <2> HIDE DEF x, waits
    <2>6. x.calls = messages[n + 1].calls
        BY <1>1, <1>3, <2>1
    <2>7. Wiring(messages, [out |-> Append(w.out, x), pending |-> waits], n + 1)
        BY <1>2, <2>1, <2>3, <2>4, <2>6, WritingKeeps
    <2> QED
        BY <2>5, <2>7
<1>4. CASE m.of = NoCall
    <2> DEFINE x == OnWire(m.role, m.calls, NoCall, <<>>)
               v == Flushed(w)
    <2>1. Wiring(messages, v, n) /\ v.pending = <<>>
        BY <1>4, FlushingKeeps
    <2>2. x \in WireMessages /\ x.calls = m.calls /\ x.images = <<>>
        BY <1>1 DEF OnWire, WireMessages
    <2>3. ToOpenAI(w, m) = [out |-> Append(v.out, x), pending |-> <<>>]
        BY <1>4 DEF ToOpenAI
    <2> HIDE DEF x, v
    <2>4. <<>> \in Seq(ToolCalls) /\ ToSet(v.pending) \subseteq ToSet(<<>>)
        BY <2>1
    <2>5. Wiring(messages, [out |-> Append(v.out, x), pending |-> <<>>], n + 1)
        BY <1>1, <1>2, <1>4, <2>1, <2>2, <2>4, WritingKeeps
    <2> QED
        BY <2>3, <2>5
<1> QED
    BY <1>3, <1>4

\* One more message in the form of Claude.
LEMMA ToClaudeKeeps ==
    ASSUME NEW messages, AnsweredInPlace(messages), NEW n \in 0..Len(messages), n + 1 \in DOMAIN messages,
           NEW w, Wiring(messages, w, n)
    PROVE  Wiring(messages, ToClaude(w, messages[n + 1]), n + 1)
<1> DEFINE m == messages[n + 1]
<1>1. /\ m.role \in {"system", "user", "assistant"} /\ m.calls \in Seq(ToolCalls)
      /\ m.of \in ToolCalls \cup {NoCall}
      /\ m.calls # <<>> => m.role = "assistant" /\ m.of = NoCall
      /\ m.of # NoCall => m.role = "user"
      /\ m.image => m.of # NoCall
    <2>1. m \in Messages
        BY DEF AnsweredInPlace
    <2> QED
        BY <2>1 DEF AnsweredInPlace, Messages
<1>2. n \in Nat /\ messages \in Seq(Messages)
    BY DEF AnsweredInPlace
<1>3. CASE m.role = "system"
    <2>1. m.of = NoCall /\ ~m.image
        BY <1>1, <1>3
    <2>2. ToClaude(w, m) = w
        BY <1>3 DEF ToClaude
    <2>3. w.out \in Seq(WireMessages) /\ Owed(messages, w.out, n)
        BY DEF Wiring
    <2>4. Owed(messages, w.out, n + 1)
        BY <1>2, <2>1, <2>3, NothingOwed DEF Owed
    <2>5. \A j \in 1..(n + 1) : j \in 1..n \/ j = n + 1
        BY <1>2
    <2> QED
        BY <2>1, <2>2, <2>4, <2>5 DEF Wiring
<1>4. CASE m.role # "system"
    <2> DEFINE x == OnWire(IF m.of # NoCall THEN "tool" ELSE m.role, m.calls, m.of, IF m.image THEN <<m.of>> ELSE <<>>)
    <2>1. /\ x \in WireMessages /\ x.calls = m.calls /\ x.of = m.of
          /\ m.of # NoCall => x.role = "tool"
          /\ x.images = IF m.image THEN <<m.of>> ELSE <<>>
        <3>1. (IF m.image THEN <<m.of>> ELSE <<>>) \in Seq(ToolCalls)
            BY <1>1
        <3> QED
            BY <1>1, <3>1 DEF OnWire, WireMessages
    <2>2. ToClaude(w, m) = [out |-> Append(w.out, x), pending |-> w.pending]
        BY <1>4 DEF ToClaude, Wiring
    <2> HIDE DEF x
    <2>3. w.pending \in Seq(ToolCalls)
        BY DEF Wiring
    <2>4. m.image => m.of \in ToSet(x.images)
        BY <2>1 DEF ToSet
    <2>5. (\A j \in DOMAIN messages : ~messages[j].image) => w.pending = <<>> /\ x.images = <<>>
        BY <2>1 DEF Wiring, NoImages
    <2>6. Wiring(messages, [out |-> Append(w.out, x), pending |-> w.pending], n + 1)
        BY <1>2, <2>1, <2>3, <2>4, <2>5, WritingKeeps
    <2> QED
        BY <2>2, <2>6
<1> QED
    BY <1>3, <1>4

\* Every call on the wire is followed by its results.
AllAnswered(sent) ==
    \A i \in DOMAIN sent : \A k \in DOMAIN sent[i].calls :
        i + k \in DOMAIN sent /\ sent[i + k].role = "tool" /\ sent[i + k].of = sent[i].calls[k]

\* So it is, and the images are on the wire that the messages show, no others.
Whole(sent, messages) ==
    /\ sent \in Seq(WireMessages) /\ AllAnswered(sent)
    /\ \A j \in DOMAIN messages : messages[j].image =>
          \E k \in DOMAIN sent : messages[j].of \in ToSet(sent[k].images)
    /\ (\A j \in DOMAIN messages : ~messages[j].image) => \A k \in DOMAIN sent : sent[k].images = <<>>

\* What goes over the wire is whole, in the form of either protocol.
LEMMA WireIsWhole ==
    ASSUME NEW protocol, NEW messages, AnsweredInPlace(messages)
    PROVE  Whole(OnTheWire(protocol, messages), messages)
<1> DEFINE N == Len(messages)
           f == CHOOSE g : IsWire(protocol, g, messages, N)
<1>1. N \in Nat /\ DOMAIN messages = 1..N /\ messages \in Seq(Messages)
    BY DEF AnsweredInPlace
<1>2. IsWire(protocol, f, messages, N)
    BY <1>1, WireExists
<1>3. OnTheWire(protocol, messages) = Flushed(f[N]).out
    BY Zenon DEF OnTheWire, IsWire, WireStep
<1> HIDE DEF f, N
<1>4. \A i \in 0..N : f[i] = WireStep(protocol, messages, f, i)
    BY <1>2 DEF IsWire
<1>5. \A n \in 0..N : Wiring(messages, f[n], n)
    <2> DEFINE Bad == {n \in 0..N : ~Wiring(messages, f[n], n)}
    <2> SUFFICES ASSUME Bad # {} PROVE FALSE
        OBVIOUS
    <2>1. Bad \subseteq Nat
        BY <1>1
    <2>2. PICK n \in Bad : \A j \in Bad : n <= j
        BY <2>1, LeastExists
    <2>3. CASE n = 0
        <3> DEFINE w == [out |-> <<>>, pending |-> <<>>]
        <3>1. f[0] = w
            BY <1>1, <1>4, <2>3 DEF WireStep
        <3>2. Wiring(messages, w, 0)
            <4>1. w \in [out : Seq(WireMessages), pending : Seq(ToolCalls)] /\ DOMAIN w.out = {} /\ w.pending = <<>>
                OBVIOUS
            <4>2. 1..0 = {}
                OBVIOUS
            <4> HIDE DEF w
            <4> QED
                BY <4>1, <4>2 DEF Wiring, Owed, NoImages
        <3> QED
            BY <2>2, <2>3, <3>1, <3>2
    <2>4. CASE n # 0
        <3>1. n - 1 \in 0..N /\ n - 1 \notin Bad /\ n - 1 + 1 = n /\ n \in DOMAIN messages /\ n \in 0..N
            BY <1>1, <2>2, <2>4
        <3>2. Wiring(messages, f[n - 1], n - 1)
            BY <3>1
        <3>3. \/ f[n] = ToOpenAI(f[n - 1], messages[n])
              \/ f[n] = ToClaude(f[n - 1], messages[n])
            BY <1>4, <2>4, <3>1, Zenon DEF WireStep
        <3>4. Wiring(messages, f[n], n)
            BY <3>1, <3>2, <3>3, ToOpenAIKeeps, ToClaudeKeeps DEF N
        <3> QED
            BY <2>2, <3>4
    <2> QED
        BY <2>3, <2>4
<1>6. N \in 0..N /\ N + 1 \notin DOMAIN messages
    BY <1>1
<1> DEFINE w == Flushed(f[N])
<1>7. Wiring(messages, w, N) /\ w.pending = <<>>
    BY <1>5, <1>6, FlushingKeeps DEF N
<1> HIDE DEF w
<1>8. \A i \in DOMAIN w.out : \A k \in DOMAIN w.out[i].calls :
          i + k \in DOMAIN w.out /\ w.out[i + k].role = "tool" /\ w.out[i + k].of = w.out[i].calls[k]
    <2>1. w.out \in Seq(WireMessages) /\ Owed(messages, w.out, N) /\ N \in 0..Len(messages)
        BY <1>1, <1>6, <1>7 DEF Wiring, N
    <2> QED
        BY <1>1, <1>6, <2>1, NothingOwed
<1>9. \A j \in DOMAIN messages : messages[j].image => \E k \in DOMAIN w.out : messages[j].of \in ToSet(w.out[k].images)
    <2>1. ToSet(<<>>) = {}
        BY DEF ToSet
    <2> QED
        BY <1>1, <1>7, <2>1 DEF Wiring, ImageKept
<1>10. OnTheWire(protocol, messages) = w.out
    BY <1>3 DEF w
<1>11. w.out \in Seq(WireMessages) /\ ((\A j \in DOMAIN messages : ~messages[j].image) => \A k \in DOMAIN w.out : w.out[k].images = <<>>)
    BY <1>7 DEF Wiring, NoImages
<1> QED
    BY <1>8, <1>9, <1>10, <1>11 DEF Whole, AllAnswered

\* A message that loses its image stays what it is.
LEMMA WithoutImagesKeeps ==
    ASSUME NEW messages, AnsweredInPlace(messages), NEW off \in BOOLEAN
    PROVE  LET shorn == WithoutImages(messages, off)
           IN  /\ AnsweredInPlace(shorn) /\ DOMAIN shorn = DOMAIN messages
               /\ \A i \in DOMAIN messages :
                     shorn[i].of = messages[i].of /\ shorn[i].image = (messages[i].image /\ ~off)
<1> DEFINE shorn == WithoutImages(messages, off)
           N == Len(messages)
<1>1. messages \in Seq(Messages) /\ N \in Nat /\ DOMAIN messages = 1..N
    BY DEF AnsweredInPlace
<1>2. \A i \in DOMAIN messages : messages[i] \in Messages
    BY <1>1
<1>3. \A i \in DOMAIN messages :
          /\ shorn[i] \in Messages /\ shorn[i].role = messages[i].role /\ shorn[i].calls = messages[i].calls
          /\ shorn[i].of = messages[i].of /\ shorn[i].image = (messages[i].image /\ ~off)
    BY <1>2 DEF WithoutImages, Messages
<1>4. DOMAIN shorn = DOMAIN messages /\ shorn = [i \in 1..N |-> shorn[i]]
    BY <1>1 DEF WithoutImages
<1> HIDE DEF shorn, N
<1>5. shorn \in Seq(Messages)
    BY <1>1, <1>3, <1>4
<1>6. ASSUME NEW i \in DOMAIN shorn
      PROVE  /\ shorn[i].calls # <<>> => shorn[i].role = "assistant" /\ shorn[i].of = NoCall
             /\ shorn[i].of # NoCall => shorn[i].role = "user"
             /\ shorn[i].image => shorn[i].of # NoCall
             /\ \A k \in DOMAIN shorn[i].calls : i + k \in DOMAIN shorn /\ shorn[i + k].of = shorn[i].calls[k]
    <2>1. i \in DOMAIN messages
        BY <1>4
    <2>2. /\ messages[i].calls # <<>> => messages[i].role = "assistant" /\ messages[i].of = NoCall
          /\ messages[i].of # NoCall => messages[i].role = "user"
          /\ messages[i].image => messages[i].of # NoCall
        BY <2>1 DEF AnsweredInPlace
    <2>3. \A k \in DOMAIN messages[i].calls : i + k \in DOMAIN messages /\ messages[i + k].of = messages[i].calls[k]
        BY <2>1 DEF AnsweredInPlace
    <2>4. ASSUME NEW k \in DOMAIN shorn[i].calls
          PROVE  i + k \in DOMAIN shorn /\ shorn[i + k].of = shorn[i].calls[k]
        <3>1. shorn[i].calls = messages[i].calls
            BY <1>3, <2>1
        <3>2. i + k \in DOMAIN messages /\ messages[i + k].of = messages[i].calls[k]
            BY <2>3, <3>1
        <3> QED
            BY <1>3, <1>4, <3>1, <3>2
    <2> QED
        BY <1>3, <2>1, <2>2, <2>4
<1>7. AnsweredInPlace(shorn)
    BY <1>5, <1>6 DEF AnsweredInPlace
<1> QED
    BY <1>3, <1>4, <1>7 DEF shorn

\* The request for a history is whole, with its images or with a notice in the place of each.
LEMMA RequestIsWhole ==
    ASSUME NEW protocol, NEW messages \in Histories, NEW off \in BOOLEAN
    PROVE  LET sent == OnTheWire(protocol, WithoutImages(messages, off))
           IN  /\ messages \in Seq(Messages) /\ sent \in Seq(WireMessages)
               /\ Notices(messages, off) \subseteq Nat /\ AllAnswered(sent)
               /\ \A j \in DOMAIN messages : messages[j].image =>
                      j \in Notices(messages, off) \/ \E k \in DOMAIN sent : messages[j].of \in ToSet(sent[k].images)
               /\ off => \A k \in DOMAIN sent : sent[k].images = <<>>
<1> DEFINE shorn == WithoutImages(messages, off)
           sent == OnTheWire(protocol, shorn)
<1>1. AnsweredInPlace(messages) /\ messages \in Seq(Messages)
    BY CallsAssumption DEF AnsweredInPlace
<1>2. /\ AnsweredInPlace(shorn) /\ DOMAIN shorn = DOMAIN messages
      /\ \A i \in DOMAIN messages :
            shorn[i].of = messages[i].of /\ shorn[i].image = (messages[i].image /\ ~off)
    BY <1>1, WithoutImagesKeeps
<1> HIDE DEF shorn
<1>3. Whole(sent, shorn)
    BY <1>2, WireIsWhole
<1> HIDE DEF sent
<1>4. Notices(messages, off) \subseteq Nat
    BY <1>1 DEF Notices
<1>5. \A j \in DOMAIN messages : messages[j].image =>
          j \in Notices(messages, off) \/ \E k \in DOMAIN sent : messages[j].of \in ToSet(sent[k].images)
    BY <1>2, <1>3 DEF Notices, Whole
<1>6. off => \A k \in DOMAIN sent : sent[k].images = <<>>
    BY <1>2, <1>3 DEF Whole
<1> QED
    BY <1>1, <1>3, <1>4, <1>5, <1>6 DEF sent, shorn, Whole

\* The request is that of a history, with its images or without; without any where the
\* configuration says so.
RequestFits ==
    \/ request.messages = <<>> /\ request.sent = <<>> /\ ~request.images
    \/ /\ request.messages \in Histories
       /\ \E off \in BOOLEAN :
             /\ service.mode = "disabled" => off
             /\ request.sent = OnTheWire(service.protocol, WithoutImages(request.messages, off))
             /\ request.notices = Notices(request.messages, off)

\* What a request may have cost at each of its stages; the one that may still be asked
\* again without its images has cost one round.
TriesFit ==
    LET round == MaxAttempts + 2
        before == IF request.images THEN 0 ELSE round
    IN  /\ request.tries <= 2 * round
        /\ request.at \in {"stream", "bareStream"} => request.attempt = 1
        /\ request.at = "stream" => request.tries <= before
        /\ request.at = "bareStream" => request.tries <= before + 1
        /\ request.at \in {"attempt", "sleep"} => request.attempt >= 1
        /\ request.at = "attempt" => request.tries <= before + request.attempt + 1
        /\ request.at = "sleep" => request.attempt < MaxAttempts /\ request.tries <= before + request.attempt + 2
        /\ request.at = "generated" => request.tries <= before + round

\* Text is shown only of the last try, and none follows it.
VoiceFits ==
    /\ \A n \in request.shown : n = request.tries
    /\ request.at \in {"stream", "bareStream", "attempt", "sleep"} => request.shown = {}

\* Between invocations the breaker counts no more than the invocations that failed.
BreakerFits == failures <= fruitless + 1 /\ (request.at = "idle" => failures <= fruitless)

CallInv == CallTypeOK /\ RequestFits /\ TriesFit /\ VoiceFits /\ BreakerFits

\* A run begins without a request.
LEMMA CallsBegin == CallInit => CallInv
<1> SUFFICES ASSUME CallInit PROVE CallInv
    OBVIOUS
<1>1. MaxAttempts \in Nat \ {0}
    BY CallsAssumption
<1>2. CallTypeOK
    <2>1. 0 \in 0..MaxAttempts
        BY <1>1
    <2>2. <<>> \in Seq(Messages) /\ <<>> \in Seq(WireMessages)
        OBVIOUS
    <2>3. {} \in SUBSET Nat
        OBVIOUS
    <2>4. flags \in [stream : BOOLEAN, images : BOOLEAN]
        BY DEF CallInit
    <2>5. request.outcome = "none" /\ request.at = "idle"
        BY DEF CallInit, NoRequest
    <2> QED
        BY <2>1, <2>2, <2>3, <2>4 DEF CallTypeOK, Requests, CallInit, NoRequest
<1>3. RequestFits
    BY DEF CallInit, NoRequest, RequestFits
<1>4. TriesFit /\ VoiceFits /\ BreakerFits
    BY <1>1 DEF CallInit, NoRequest, TriesFit, VoiceFits, BreakerFits
<1> QED
    BY <1>2, <1>3, <1>4 DEF CallInv

\* A new request: its messages are projected and put on the wire.
LEMMA InvokeKeeps ==
    ASSUME CallInv, NEW messages \in Histories, Invoke(messages)
    PROVE  CallInv'
<1>1. MaxAttempts \in Nat \ {0}
    BY CallsAssumption
<1> DEFINE off == ImagesOff
           shorn == WithoutImages(messages, off)
           sent == OnTheWire(service.protocol, shorn)
<1>2. off \in BOOLEAN /\ (service.mode = "disabled" => off)
    BY DEF CallInv, CallTypeOK, Requests, ImagesOff
<1>3. HasImages(shorn) \in BOOLEAN
    BY DEF HasImages
<1>4. /\ messages \in Seq(Messages) /\ sent \in Seq(WireMessages)
      /\ Notices(messages, off) \subseteq Nat
    BY <1>2, RequestIsWhole
<1>5. /\ request' = [at |-> FirstStep, messages |-> messages, sent |-> sent,
                     images |-> HasImages(shorn), notices |-> Notices(messages, off),
                     attempt |-> 1, shown |-> {}, tries |-> 0, outcome |-> "none"]
      /\ service' = service /\ flags' = flags /\ cancelled' = cancelled /\ failures' = failures
      /\ fruitless' = fruitless /\ invokes' = invokes + 1
    BY DEF Invoke, NoRequest
<1>6. FirstStep \in {"stream", "attempt"}
    BY DEF FirstStep
<1> DEFINE images == HasImages(shorn)
           notices == Notices(messages, off)
           first == FirstStep
<1>7. /\ request'.at = first /\ request'.messages = messages /\ request'.sent = sent
      /\ request'.notices = notices /\ request'.images = images
      /\ request'.attempt = 1 /\ request'.shown = {} /\ request'.tries = 0 /\ request'.outcome = "none"
    BY <1>5
<1>8. RequestFits'
    <2>1. service'.mode = "disabled" => off
        BY <1>2, <1>5
    <2>2. sent = OnTheWire(service'.protocol, WithoutImages(request'.messages, off))
        BY <1>5, <1>7
    <2>3. notices = Notices(request'.messages, off)
        BY <1>7
    <2> HIDE DEF off, shorn, sent, images, notices
    <2> QED
        BY <1>2, <1>7, <2>1, <2>2, <2>3 DEF RequestFits
<1> HIDE DEF off, shorn, sent, images, notices, first
<1>9. CallTypeOK'
    <2>1. 1 \in 0..MaxAttempts
        BY <1>1
    <2> QED
        BY <1>3, <1>4, <1>5, <1>6, <2>1 DEF CallInv, CallTypeOK, Requests, images, notices, first
<1>10. TriesFit'
    BY <1>1, <1>6, <1>7 DEF TriesFit, first
<1>11. VoiceFits' /\ BreakerFits'
    BY <1>5, <1>6, <1>7 DEF CallInv, VoiceFits, BreakerFits, first
<1> QED
    BY <1>8, <1>9, <1>10, <1>11 DEF CallInv

\* A step that leaves the messages of the request, what was sent and its notices alone.
LEMMA SameMessages ==
    ASSUME RequestFits, service' = service, request'.messages = request.messages,
           request'.sent = request.sent, request'.notices = request.notices,
           request'.images = request.images
    PROVE  RequestFits'
BY DEF RequestFits

\* A stream ends: with text shown the request is over.
LEMMA StreamEndsKeeps ==
    ASSUME CallInv, NEW class \in Classes, NEW text \in BOOLEAN, StreamEnds(class, text)
    PROVE  CallInv'
<1>1. MaxAttempts \in Nat \ {0}
    BY CallsAssumption
<1> DEFINE tries == request.tries + 1
           shown == IF text THEN request.shown \cup {tries} ELSE request.shown
<1>2. /\ request.at \in {"stream", "bareStream"} /\ service' = service /\ cancelled' = cancelled
      /\ failures' = failures /\ invokes' = invokes /\ fruitless' = fruitless
      /\ flags' = flags \/ flags' = [flags EXCEPT !.stream = TRUE]
    BY DEF StreamEnds, Classes
<1>3. \/ /\ request.at = "stream" /\ ~text
         /\ request' = [request EXCEPT !.tries = tries, !.shown = shown, !.at = "bareStream"]
      \/ request' = [request EXCEPT !.tries = tries, !.shown = shown, !.at = "generated", !.outcome = class]
      \/ ~text /\ request' = [request EXCEPT !.tries = tries, !.shown = shown, !.at = "attempt"]
    BY DEF StreamEnds, Classes
<1>4. CallTypeOK
    BY DEF CallInv
<1>5. tries \in Nat /\ tries = request.tries + 1 /\ (text => shown = request.shown \cup {tries})
      /\ (~text => shown = request.shown) /\ shown \in SUBSET Nat
    BY <1>4 DEF CallTypeOK, Requests
<1> HIDE DEF tries, shown
<1>6. CallTypeOK'
    <2>1. flags' \in [stream : BOOLEAN, images : BOOLEAN]
        BY <1>2, <1>4 DEF CallTypeOK
    <2>2. request \in Requests /\ class \in Classes \cup {"none"}
        BY <1>4 DEF CallTypeOK
    <2>3. request' \in Requests
        <3>1. tries \in Nat /\ shown \in SUBSET Nat
            BY <1>5
        <3>2. ASSUME NEW at \in {"bareStream", "generated", "attempt"}, NEW outcome \in Classes \cup {"none"}
              PROVE  [request EXCEPT !.tries = tries, !.shown = shown, !.at = at, !.outcome = outcome] \in Requests
            BY <2>2, <3>1 DEF Requests
        <3>3. PICK at \in {"bareStream", "generated", "attempt"}, outcome \in Classes \cup {"none"} :
                  request' = [request EXCEPT !.tries = tries, !.shown = shown, !.at = at, !.outcome = outcome]
            <4>1. request.outcome \in Classes \cup {"none"}
                BY <2>2 DEF Requests
            <4>2. ASSUME NEW at
                  PROVE  [request EXCEPT !.tries = tries, !.shown = shown, !.at = at] =
                             [request EXCEPT !.tries = tries, !.shown = shown, !.at = at, !.outcome = request.outcome]
                BY <2>2 DEF Requests
            <4> QED
                BY <1>3, <2>2, <4>1, <4>2, Zenon
        <3> QED
            BY <3>2, <3>3
    <2> QED
        BY <1>2, <1>4, <2>1, <2>3 DEF CallTypeOK
<1>7. /\ request'.tries = tries /\ request'.shown = shown /\ request'.images = request.images
      /\ request'.attempt = request.attempt /\ request'.messages = request.messages
      /\ request'.sent = request.sent /\ request'.notices = request.notices
      /\ \/ request'.at = "bareStream" /\ request.at = "stream" /\ ~text
         \/ request'.at = "generated"
         \/ request'.at = "attempt" /\ ~text
    <2>1. request \in Requests
        BY <1>4 DEF CallTypeOK
    <2>2. CASE /\ request.at = "stream" /\ ~text
               /\ request' = [request EXCEPT !.tries = tries, !.shown = shown, !.at = "bareStream"]
        BY <2>1, <2>2 DEF Requests
    <2>3. CASE request' = [request EXCEPT !.tries = tries, !.shown = shown, !.at = "generated", !.outcome = class]
        BY <2>1, <2>3 DEF Requests
    <2>4. CASE ~text /\ request' = [request EXCEPT !.tries = tries, !.shown = shown, !.at = "attempt"]
        BY <2>1, <2>4 DEF Requests
    <2> QED
        BY <1>3, <2>2, <2>3, <2>4
<1>8. RequestFits'
    BY <1>2, <1>7, SameMessages DEF CallInv
<1>9. request.tries \in Nat /\ request.images \in BOOLEAN
    BY <1>4 DEF CallTypeOK, Requests
<1>10. TriesFit'
    BY <1>1, <1>2, <1>5, <1>7, <1>9 DEF CallInv, TriesFit
<1>11. VoiceFits'
    BY <1>2, <1>5, <1>7 DEF CallInv, VoiceFits
<1>12. BreakerFits'
    BY <1>2, <1>7 DEF CallInv, BreakerFits
<1> QED
    BY <1>6, <1>8, <1>10, <1>11, <1>12 DEF CallInv

\* An attempt ends: it is the last, or another follows after a delay.
LEMMA AttemptEndsKeeps ==
    ASSUME CallInv, NEW class \in Classes, AttemptEnds(class)
    PROVE  CallInv'
<1>1. MaxAttempts \in Nat \ {0}
    BY CallsAssumption
<1>2. /\ request.at = "attempt" /\ service' = service /\ cancelled' = cancelled /\ flags' = flags
      /\ failures' = failures /\ invokes' = invokes /\ fruitless' = fruitless
    BY DEF AttemptEnds
<1>3. CallTypeOK
    BY DEF CallInv
<1> DEFINE at == IF class = "retryable" /\ request.attempt < MaxAttempts THEN "sleep" ELSE "generated"
<1>4. request' = [request EXCEPT !.tries = request.tries + 1, !.at = at, !.outcome = class]
    BY <1>3 DEF AttemptEnds, CallTypeOK, Requests
<1>5. (at = "sleep" /\ request.attempt < MaxAttempts) \/ at = "generated"
    OBVIOUS
<1> HIDE DEF at
<1>6. CallTypeOK'
    <2>1. request \in Requests /\ class \in Classes \cup {"none"}
        BY <1>3 DEF CallTypeOK
    <2>2. at \in {"sleep", "generated"} /\ request.tries + 1 \in Nat
        BY <1>5, <2>1 DEF Requests
    <2>3. request' \in Requests
        BY <1>4, <2>1, <2>2 DEF Requests
    <2> QED
        BY <1>2, <1>3, <2>3 DEF CallTypeOK
<1>7. request \in Requests
    BY <1>3 DEF CallTypeOK
<1>8. /\ request'.tries = request.tries + 1 /\ request'.shown = request.shown /\ request'.images = request.images
      /\ request'.attempt = request.attempt /\ request'.messages = request.messages /\ request'.at = at
      /\ request'.sent = request.sent /\ request'.notices = request.notices
    BY <1>4, <1>7 DEF Requests
<1>9. RequestFits'
    BY <1>2, <1>8, SameMessages DEF CallInv
<1>10. request.tries \in Nat /\ request.images \in BOOLEAN /\ request.attempt \in 0..MaxAttempts
    BY <1>3 DEF CallTypeOK, Requests
<1>11. TriesFit'
    BY <1>1, <1>2, <1>5, <1>8, <1>10 DEF CallInv, TriesFit
<1>12. VoiceFits'
    BY <1>2, <1>8 DEF CallInv, VoiceFits
<1>13. BreakerFits'
    BY <1>2, <1>5, <1>8 DEF CallInv, BreakerFits
<1> QED
    BY <1>6, <1>9, <1>11, <1>12, <1>13 DEF CallInv

\* The delay is over, or the run is cancelled in it.
LEMMA SleepKeeps ==
    ASSUME CallInv, Retry \/ SleepCancelled
    PROVE  CallInv'
<1>1. MaxAttempts \in Nat \ {0}
    BY CallsAssumption
<1>2. /\ request.at = "sleep" /\ service' = service /\ cancelled' = cancelled /\ flags' = flags
      /\ failures' = failures /\ invokes' = invokes /\ fruitless' = fruitless
    BY DEF Retry, SleepCancelled
<1>3. CallTypeOK
    BY DEF CallInv
<1>4. \/ request' = [request EXCEPT !.at = "attempt", !.attempt = request.attempt + 1, !.outcome = "none"]
      \/ request' = [request EXCEPT !.at = "generated", !.outcome = "fatal"]
    BY <1>3 DEF Retry, SleepCancelled, CallTypeOK, Requests
<1>5. request.tries \in Nat /\ request.images \in BOOLEAN /\ request.attempt \in 0..MaxAttempts
      /\ request.attempt < MaxAttempts
    BY <1>2, <1>3 DEF CallTypeOK, Requests, CallInv, TriesFit
<1>6. CallTypeOK'
    <2>1. request.attempt + 1 \in 0..MaxAttempts
        BY <1>1, <1>5
    <2>2. request \in Requests
        BY <1>3 DEF CallTypeOK
    <2>3. request' \in Requests
        <3>1. {"attempt", "generated"} \subseteq {"idle", "prepared", "stream", "bareStream", "attempt", "sleep", "generated"}
              /\ {"none", "fatal"} \subseteq Classes \cup {"none"}
            BY DEF Classes
        <3>2. CASE request' = [request EXCEPT !.at = "attempt", !.attempt = request.attempt + 1, !.outcome = "none"]
            BY <2>1, <2>2, <3>1, <3>2 DEF Requests
        <3>3. CASE request' = [request EXCEPT !.at = "generated", !.outcome = "fatal"]
            BY <2>2, <3>1, <3>3 DEF Requests
        <3> QED
            BY <1>4, <3>2, <3>3
    <2> QED
        BY <1>2, <1>3, <2>3 DEF CallTypeOK
<1>7. /\ request'.tries = request.tries /\ request'.shown = request.shown /\ request'.images = request.images
      /\ request'.messages = request.messages
      /\ request'.sent = request.sent /\ request'.notices = request.notices
      /\ \/ request'.at = "attempt" /\ request'.attempt = request.attempt + 1
         \/ request'.at = "generated" /\ request'.attempt = request.attempt
    BY <1>3, <1>4 DEF CallTypeOK, Requests
<1>8. RequestFits'
    BY <1>2, <1>7, SameMessages DEF CallInv
<1>9. TriesFit'
    BY <1>1, <1>2, <1>5, <1>7 DEF CallInv, TriesFit
<1>10. VoiceFits' /\ BreakerFits'
    BY <1>2, <1>7 DEF CallInv, VoiceFits, BreakerFits
<1> QED
    BY <1>6, <1>8, <1>9, <1>10 DEF CallInv

\* The second round, without images.
LEMMA AskWithoutImagesKeeps ==
    ASSUME CallInv, AskWithoutImages
    PROVE  CallInv'
<1>1. MaxAttempts \in Nat \ {0}
    BY CallsAssumption
<1> DEFINE sent == OnTheWire(service.protocol, WithoutImages(request.messages, TRUE))
           notices == Notices(request.messages, TRUE)
           first == FirstStep
<1>2. /\ request.at = "generated" /\ request.images /\ request.shown = {} /\ service' = service
      /\ cancelled' = cancelled /\ flags' = [flags EXCEPT !.images = TRUE]
      /\ failures' = failures /\ invokes' = invokes /\ fruitless' = fruitless
      /\ request' = [request EXCEPT !.at = first, !.attempt = 1, !.outcome = "none", !.images = FALSE,
                                    !.sent = sent, !.notices = notices]
    BY DEF AskWithoutImages, DropsImages
<1>3. CallTypeOK
    BY DEF CallInv
<1>4. first \in {"stream", "attempt"}
    BY DEF FirstStep
<1>5. request.tries \in Nat /\ request.images \in BOOLEAN
    BY <1>3 DEF CallTypeOK, Requests
<1>6. /\ request'.tries = request.tries /\ request'.shown = {} /\ request'.images = FALSE
      /\ request'.messages = request.messages /\ request'.attempt = 1
      /\ request'.sent = sent /\ request'.notices = notices /\ request'.at = first
    BY <1>2, <1>3 DEF CallTypeOK, Requests
<1> HIDE DEF first
<1>7. request.messages \in Histories
    BY <1>2 DEF CallInv, RequestFits
<1>8. sent \in Seq(WireMessages) /\ notices \in SUBSET Nat
    BY <1>7, RequestIsWhole
<1>9. RequestFits'
    <2>1. sent = OnTheWire(service'.protocol, WithoutImages(request'.messages, TRUE))
        BY <1>2, <1>6
    <2>2. notices = Notices(request'.messages, TRUE)
        BY <1>6
    <2> HIDE DEF sent, notices
    <2> QED
        BY <1>6, <1>7, <2>1, <2>2 DEF RequestFits
<1> HIDE DEF sent, notices
<1>10. CallTypeOK'
    <2>1. 1 \in 0..MaxAttempts
        BY <1>1
    <2> QED
        BY <1>2, <1>3, <1>4, <1>8, <2>1 DEF CallTypeOK, Requests
<1>11. TriesFit'
    BY <1>1, <1>2, <1>4, <1>5, <1>6 DEF CallInv, TriesFit
<1>12. VoiceFits' /\ BreakerFits'
    BY <1>2, <1>4, <1>6 DEF CallInv, VoiceFits, BreakerFits
<1> QED
    BY <1>9, <1>10, <1>11, <1>12 DEF CallInv

\* The invocation returns and counts for the breaker or resets it.
LEMMA InvokeReturnsKeeps ==
    ASSUME CallInv, InvokeReturns
    PROVE  CallInv'
<1>1. MaxAttempts \in Nat \ {0}
    BY CallsAssumption
<1>2. /\ request.at = "generated" /\ service' = service /\ cancelled' = cancelled /\ flags' = flags
      /\ invokes' = invokes /\ request' = [request EXCEPT !.at = "idle"]
      /\ \/ failures' = 0 /\ fruitless' = 0
         \/ fruitless' = fruitless + 1 /\ failures' = failures
    BY DEF InvokeReturns
<1>3. CallTypeOK /\ failures \in Nat /\ fruitless \in Nat /\ failures <= fruitless + 1
    BY DEF CallInv, CallTypeOK, Requests, BreakerFits
<1>4. CallTypeOK'
    <2>1. request' \in Requests
        BY <1>2, <1>3 DEF CallTypeOK, Requests
    <2>2. failures' \in Nat /\ fruitless' \in Nat
        BY <1>2, <1>3
    <2> QED
        BY <1>2, <1>3, <2>1, <2>2 DEF CallTypeOK
<1>5. /\ request'.tries = request.tries /\ request'.shown = request.shown /\ request'.images = request.images
      /\ request'.messages = request.messages /\ request'.sent = request.sent
      /\ request'.notices = request.notices /\ request'.at = "idle"
    BY <1>2, <1>3 DEF CallTypeOK, Requests
<1>6. RequestFits'
    BY <1>2, <1>5, SameMessages DEF CallInv
<1>7. TriesFit' /\ VoiceFits'
    BY <1>2, <1>5 DEF CallInv, TriesFit, VoiceFits
<1>8. BreakerFits'
    BY <1>2, <1>3 DEF BreakerFits
<1> QED
    BY <1>4, <1>6, <1>7, <1>8 DEF CallInv

\* A compaction goes before an invocation.
LEMMA CompactionKeeps ==
    ASSUME CallInv, NEW outcome \in {"nothing", "done", "failed"}, MaybeCompact(outcome) \/ ForceCompact(outcome)
    PROVE  CallInv'
<1>1. /\ request.at = "idle" /\ service' = service /\ cancelled' = cancelled /\ flags' = flags
      /\ invokes' = invokes /\ fruitless' = fruitless
    BY DEF MaybeCompact, ForceCompact
<1>2. CallTypeOK /\ failures \in Nat /\ fruitless \in Nat /\ failures <= fruitless
    BY <1>1 DEF CallInv, CallTypeOK, Requests, BreakerFits
<1>3. PICK at \in {"idle", "prepared"}, result \in {request.outcome, "none"} :
          request' = [request EXCEPT !.at = at, !.outcome = result]
    <2>1. CASE MaybeCompact(outcome)
        BY <2>1, <1>2 DEF MaybeCompact, CallTypeOK, Requests
    <2>2. CASE ForceCompact(outcome)
        BY <2>2 DEF ForceCompact
    <2> QED
        BY <2>1, <2>2
<1>4. /\ failures' \in Nat /\ failures' <= fruitless + 1
      /\ request'.at = "idle" => failures' <= fruitless
    <2>1. CASE MaybeCompact(outcome)
        <3>1. outcome = "nothing" => failures' = failures + 1 /\ request'.at = "prepared"
            BY <1>2, <2>1 DEF MaybeCompact, CallTypeOK, Requests
        <3>2. outcome = "done" => failures' = 0
            BY <2>1 DEF MaybeCompact
        <3>3. outcome = "failed" => failures' = failures
            BY <2>1 DEF MaybeCompact
        <3> QED
            BY <1>2, <3>1, <3>2, <3>3
    <2>2. CASE ForceCompact(outcome)
        BY <1>2, <2>2 DEF ForceCompact
    <2> QED
        BY <2>1, <2>2
<1>5. CallTypeOK'
    BY <1>1, <1>2, <1>3, <1>4 DEF CallTypeOK, Requests
<1>6. /\ request'.tries = request.tries /\ request'.shown = request.shown /\ request'.images = request.images
      /\ request'.messages = request.messages /\ request'.sent = request.sent
      /\ request'.notices = request.notices /\ request'.at \in {"idle", "prepared"}
    BY <1>2, <1>3 DEF CallTypeOK, Requests
<1>7. RequestFits'
    BY <1>1, <1>6, SameMessages DEF CallInv
<1>8. TriesFit' /\ VoiceFits'
    BY <1>6 DEF CallInv, TriesFit, VoiceFits
<1>9. BreakerFits'
    BY <1>1, <1>4 DEF BreakerFits
<1> QED
    BY <1>5, <1>7, <1>8, <1>9 DEF CallInv

\* A step that leaves the request and the breaker alone.
LEMMA CallsStand ==
    ASSUME CallInv, UNCHANGED <<service, request, failures, fruitless>>,
           invokes' = invokes, cancelled' \in BOOLEAN, flags' \in [stream : BOOLEAN, images : BOOLEAN]
    PROVE  CallInv'
BY DEF CallInv, CallTypeOK, Requests, RequestFits, TriesFit, VoiceFits, BreakerFits

\* No step leaves the invariant.
LEMMA CallsStep == CallInv /\ [CallNext]_callVars => CallInv'
<1> SUFFICES ASSUME CallInv, [CallNext]_callVars PROVE CallInv'
    OBVIOUS
<1>1. ASSUME NEW messages \in Histories, Invoke(messages) PROVE CallInv'
    BY <1>1, InvokeKeeps
<1>2. ASSUME NEW class \in Classes, NEW text \in BOOLEAN, StreamEnds(class, text) PROVE CallInv'
    BY <1>2, StreamEndsKeeps
<1>3. ASSUME NEW class \in Classes, AttemptEnds(class) PROVE CallInv'
    BY <1>3, AttemptEndsKeeps
<1>4. CASE Retry \/ SleepCancelled
    BY <1>4, SleepKeeps
<1>5. CASE AskWithoutImages
    BY <1>5, AskWithoutImagesKeeps
<1>6. CASE InvokeReturns
    BY <1>6, InvokeReturnsKeeps
<1>7. CASE CancelCall \/ StartCalls
    <2>1. cancelled' \in BOOLEAN /\ flags' \in [stream : BOOLEAN, images : BOOLEAN]
        <3>1. flags \in [stream : BOOLEAN, images : BOOLEAN]
            BY DEF CallInv, CallTypeOK
        <3>2. CASE CancelCall
            BY <3>1, <3>2 DEF CancelCall
        <3>3. CASE StartCalls
            BY <3>3 DEF StartCalls
        <3> QED
            BY <1>7, <3>2, <3>3
    <2>2. UNCHANGED <<service, request, failures, fruitless>> /\ invokes' = invokes
        BY <1>7 DEF CancelCall, StartCalls
    <2> QED
        BY <2>1, <2>2, CallsStand
<1>8. ASSUME NEW outcome \in {"nothing", "done", "failed"}, MaybeCompact(outcome) \/ ForceCompact(outcome)
      PROVE  CallInv'
    BY <1>8, CompactionKeeps
<1>9. CASE UNCHANGED callVars
    BY <1>9, CallsStand DEF callVars, CallInv, CallTypeOK, Requests
<1> QED
    BY <1>1, <1>2, <1>3, <1>4, <1>5, <1>6, <1>7, <1>8, <1>9 DEF CallNext

\* The invariant is enough.
LEMMA CallsAreExact == CallInv => InvocationIsExact
<1> SUFFICES ASSUME CallInv PROVE InvocationIsExact
    OBVIOUS
<1>1. CallTypeOK /\ BreakerNeedsFailures
    BY DEF CallInv, BreakerFits, BreakerNeedsFailures
<1>2. OneVoice
    BY DEF CallInv, TriesFit, VoiceFits, OneVoice
<1>3. WireIsLegal
    <2>1. CASE request.messages = <<>> /\ request.sent = <<>>
        BY <2>1 DEF WireIsLegal
    <2>2. CASE /\ request.messages \in Histories
               /\ \E off \in BOOLEAN :
                     /\ service.mode = "disabled" => off
                     /\ request.sent = OnTheWire(service.protocol, WithoutImages(request.messages, off))
                     /\ request.notices = Notices(request.messages, off)
        <3>1. PICK off \in BOOLEAN :
                  /\ service.mode = "disabled" => off
                  /\ request.sent = OnTheWire(service.protocol, WithoutImages(request.messages, off))
                  /\ request.notices = Notices(request.messages, off)
            BY <2>2
        <3> DEFINE messages == request.messages
                   sent == OnTheWire(service.protocol, WithoutImages(messages, off))
        <3>2. /\ AllAnswered(sent)
              /\ \A j \in DOMAIN messages : messages[j].image =>
                    j \in Notices(messages, off) \/ \E k \in DOMAIN sent : messages[j].of \in ToSet(sent[k].images)
              /\ off => \A k \in DOMAIN sent : sent[k].images = <<>>
            <4>1. messages \in Histories
                BY <2>2
            <4> HIDE DEF messages
            <4> QED
                BY <4>1, RequestIsWhole
        <3>3. sent = request.sent /\ Notices(messages, off) = request.notices
            BY <3>1
        <3> HIDE DEF sent
        <3> QED
            BY <3>1, <3>2, <3>3 DEF WireIsLegal, AllAnswered
    <2> QED
        BY <2>1, <2>2 DEF CallInv, RequestFits
<1> QED
    BY <1>1, <1>2, <1>3 DEF InvocationIsExact

\* Requests, what is on the wire and the counters keep their types (internal/modelinvoke,
\* internal/provider).
THEOREM CallsTypeCorrect == CallInit /\ [][CallNext]_callVars => []CallTypeOK
<1>1. CallInv => CallTypeOK
    BY DEF CallInv
<1> QED
    BY <1>1, CallsBegin, CallsStep, PTL

\* However the service answers, streams, fails and refuses, and whenever the run is cancelled:
\* the user sees no text of a request that was given up, an invocation asks a bounded number of
\* times, every history whose batches are answered goes out with each batch followed by its
\* results and each image on the wire or named, and the breaker of the compaction needs
\* invocations that fail.
THEOREM InvocationsStayExact == CallInit /\ [][CallNext]_callVars => []InvocationIsExact
<1> QED
    BY CallsAreExact, CallsBegin, CallsStep, PTL
=============================================================================
