------------------------- MODULE ServerServicesProofs -------------------------
(***************************************************************************)
(* What the services of the server as a whole promise, proved for every    *)
(* value of their constants: the cache of DNS answers, the counts of the   *)
(* spam filter's training, the directory of domains, aliases and           *)
(* forwarding rules, the order in which the application stops its servers, *)
(* and the relays.  A message is reported as sent only when every          *)
(* recipient has been served: an attempt forgets its domains and batches   *)
(* as it goes, and the invariant says where each recipient is at any time: *)
(* in a domain that is still to come, in the batch, in the list that the   *)
(* provider gets, or served.                                               *)
(***************************************************************************)
EXTENDS SenderAuth, SpamTraining, MailDirectory, Lifecycle, Relaying,
        FiniteSetTheorems, SequenceTheorems, TLAPS

-----------------------------------------------------------------------------
(* Sender authentication.                                                   *)

CheckStates ==
    [stage : Stages \cup {"idle", "done"}, at : {"look", "ask", "store", "use"},
     nth : Nat, now : 0 .. MaxTime, got : Answers \cup {"error"}, expired : BOOLEAN,
     marks : SUBSET {"valid", "dnsFail"}, passed : SUBSET {"spf", "dkim"}]

CheckGoes(c, r) == check' = [check EXCEPT ![c] = r]

\* What a check may rely on: the name it asks for is one of its stage's, and an
\* answer it is about to store was still given when it began to ask.
Reliable(r) ==
    /\ r.nth >= 1
    /\ r.now <= clock
    /\ r.at \in {"ask", "store"} => r.stage \in Stages /\ r.nth <= Len(Asks[r.stage])
    /\ r.at = "store" => r.got \in Answers /\ r.now <= until[Asks[r.stage][r.nth]][r.got]

\* DNS answers now what it last answered at this time, and everything else before.
DnsInv ==
    /\ \A n \in TxtNames : until[n][dns[n]] = clock
    /\ \A n \in TxtNames : \A x \in Answers : until[n][x] <= clock

\* The eviction order lists every cached name once.
Lists(o, S) ==
    /\ IsFiniteSet(S)
    /\ \A i \in 1 .. Len(o) : o[i] \in S
    /\ \A m \in S : \E i \in 1 .. Len(o) : o[i] = m
    /\ \A i, j \in 1 .. Len(o) : o[i] = o[j] => i = j
    /\ Len(o) = Cardinality(S)

OrderInv == Lists(order, DOMAIN cache) /\ Len(order) <= CacheMax

\* An answer is kept for no longer than its TTL after DNS last gave it.
FreshInv ==
    \A n \in DOMAIN cache : cache[n].expires <= until[n][cache[n].answer] + TtlOf(cache[n].answer)

AuthInv ==
    /\ AuthTypeOK
    /\ DnsInv
    /\ OrderInv
    /\ FreshInv
    /\ \A c \in Checks : Reliable(check[c])

LEMMA AnswersType ==
    ASSUME AuthTypeOK
    PROVE  /\ clock \in Nat /\ clock <= MaxTime /\ MaxTime \in Nat
           /\ \A n \in TxtNames : dns[n] \in Answers
           /\ \A n \in TxtNames : \A x \in Answers : until[n][x] \in Nat
           /\ \A n \in DOMAIN cache : n \in TxtNames /\ cache[n] \in [answer : Answers, expires : Nat]
           /\ \A c \in Checks : check[c] \in CheckStates
           /\ check \in [Checks -> CheckStates]
<1>1. MaxTime \in Nat
    BY AuthAssumption
<1>2. clock \in Nat /\ clock <= MaxTime
    BY <1>1 DEF AuthTypeOK
<1>3. \A n \in TxtNames : dns[n] \in Answers
    BY DEF AuthTypeOK
<1>4. \A n \in TxtNames : \A x \in Answers : until[n][x] \in Nat
    BY <1>1 DEF AuthTypeOK
<1>5. check \in [Checks -> CheckStates]
    BY DEF AuthTypeOK, CheckStates
<1>6. \A n \in DOMAIN cache : n \in TxtNames /\ cache[n] \in [answer : Answers, expires : Nat]
    BY DEF AuthTypeOK
<1> QED
    BY <1>1, <1>2, <1>3, <1>4, <1>5, <1>6

LEMMA TtlType ==
    /\ \A x \in Answers : TtlOf(x) \in Nat
    /\ CacheMax \in Nat /\ CacheMax >= 1
<1>1. Ttl \in Nat /\ NegativeTtl \in Nat
    BY AuthAssumption
<1>2. CacheMax \in Nat /\ CacheMax >= 1
    BY AuthAssumption
<1> QED
    BY <1>1, <1>2 DEF TtlOf

LEMMA AskedName ==
    ASSUME NEW s \in Stages, NEW i \in Nat, i >= 1, i <= Len(Asks[s])
    PROVE  Asks[s][i] \in TxtNames
<1>1. Asks[s] \in Seq(TxtNames)
    BY AuthAssumption DEF Stages
<1>2. i \in 1 .. Len(Asks[s])
    BY <1>1
<1> QED
    BY <1>1, <1>2

LEMMA AskLengths ==
    ASSUME NEW s \in Stages
    PROVE  Len(Asks[s]) \in Nat
<1>1. Asks[s] \in Seq(TxtNames)
    BY AuthAssumption DEF Stages
<1> QED
    BY <1>1

LEMMA NotBegunType ==
    /\ NotBegun \in CheckStates /\ NotBegun.at = "look" /\ NotBegun.nth = 1 /\ NotBegun.now = 0
<1>1. 0 \in 0 .. MaxTime
    BY AuthAssumption
<1> QED
    BY <1>1 DEF NotBegun, CheckStates, Answers

-----------------------------------------------------------------------------
\* A step of one check: the record it leaves.

\* From one part of a verification to the next.
LEMMA EnterDoes ==
    ASSUME AuthTypeOK, NEW c \in Checks, NEW v, NEW s \in Stages \cup {"idle", "done"},
           check[c].stage \in {"spf", "dkim"}, Enter(c, v, s)
    PROVE  \E r \in CheckStates : CheckGoes(c, r) /\ r.at = "look" /\ r.nth = 1 /\ r.now = 0
<1> DEFINE p == check[c].passed \cup (IF v = "pass" THEN {check[c].stage} ELSE {})
           e == check[c].expired
           r == [NotBegun EXCEPT !.stage = s, !.expired = e, !.passed = p]
<1>1. p \in SUBSET {"spf", "dkim"} /\ e \in BOOLEAN
    <2>1. check[c] \in CheckStates
        BY AnswersType
    <2> QED
        BY <2>1 DEF CheckStates
<1>2. CheckGoes(c, r)
    BY DEF Enter, CheckGoes
<1> HIDE DEF p, e
<1>3. r \in CheckStates /\ r.at = "look" /\ r.nth = 1 /\ r.now = 0
    BY <1>1, NotBegunType DEF CheckStates
<1> HIDE DEF r
<1> QED
    BY <1>2, <1>3

LEMMA ConcludeDoes ==
    ASSUME NEW c \in Checks, Conclude(c)
    PROVE  \E r \in CheckStates : CheckGoes(c, r) /\ r.at = "look" /\ r.nth = 1 /\ r.now = 0
<1> DEFINE r == [NotBegun EXCEPT !.stage = "done"]
<1>1. CheckGoes(c, r)
    BY DEF Conclude, CheckGoes
<1>2. r \in CheckStates /\ r.at = "look" /\ r.nth = 1 /\ r.now = 0
    BY NotBegunType DEF CheckStates
<1> HIDE DEF r
<1> QED
    BY <1>1, <1>2

\* Starting, and the time running out, leave the rest of the record alone.
LEMMA StartDoes ==
    ASSUME AuthTypeOK, NEW c \in Checks, StartCheck(c) \/ Expire(c)
    PROVE  \E r \in CheckStates :
               /\ CheckGoes(c, r) /\ r.at = check[c].at /\ r.nth = check[c].nth
               /\ r.now = check[c].now /\ r.got = check[c].got
               /\ r.stage = check[c].stage \/ (r.stage \in Stages /\ check[c].stage = "idle")
<1> DEFINE q == check[c]
           a == [q EXCEPT !.stage = "spf"]
           b == [q EXCEPT !.expired = TRUE]
<1>1. q \in CheckStates
    BY AnswersType
<1>2. (q.stage = "idle" /\ CheckGoes(c, a)) \/ CheckGoes(c, b)
    <2>1. check \in [Checks -> CheckStates]
        BY AnswersType
    <2> QED
        BY <2>1 DEF StartCheck, Expire, CheckGoes, CheckStates
<1> HIDE DEF q
<1>3. /\ a \in CheckStates /\ a.at = q.at /\ a.nth = q.nth /\ a.now = q.now /\ a.got = q.got
      /\ a.stage \in Stages
    BY <1>1 DEF CheckStates, Stages
<1>4. /\ b \in CheckStates /\ b.at = q.at /\ b.nth = q.nth /\ b.now = q.now /\ b.got = q.got
      /\ b.stage = q.stage
    BY <1>1 DEF CheckStates
<1> HIDE DEF a, b
<1> QED
    BY <1>2, <1>3, <1>4 DEF q

\* A lookup finds an answer in the cache, or notes the time and asks.
LEMMA LookUpDoes ==
    ASSUME AuthTypeOK, NEW c \in Checks, Reliable(check[c]), LookUp(c)
    PROVE  \E r \in CheckStates :
               /\ CheckGoes(c, r) /\ r.stage = check[c].stage /\ r.nth = check[c].nth
               /\ r.at \in {"ask", "use"} /\ r.now \in {check[c].now, clock}
<1> DEFINE q == check[c]
           n == Name(c)
           a == [q EXCEPT !.at = "use", !.got = cache[n].answer]
           b == [q EXCEPT !.at = "ask", !.now = clock]
<1>1. q \in CheckStates /\ check \in [Checks -> CheckStates] /\ clock \in 0 .. MaxTime
    BY AnswersType DEF AuthTypeOK
<1>2. Cached(n) => cache[n].answer \in Answers
    BY AnswersType DEF Cached
<1>3. (Cached(n) /\ CheckGoes(c, a)) \/ CheckGoes(c, b)
    <2>1. check' = [check EXCEPT ![c] = IF Cached(n) THEN a ELSE b]
        BY <1>1 DEF LookUp
    <2> HIDE DEF a, b
    <2>2. CASE Cached(n)
        BY <2>1, <2>2 DEF CheckGoes
    <2>3. CASE ~Cached(n)
        BY <2>1, <2>3 DEF CheckGoes
    <2> QED
        BY <2>2, <2>3
<1> HIDE DEF q, n
<1>4. ASSUME Cached(n)
      PROVE  a \in CheckStates /\ a.stage = q.stage /\ a.nth = q.nth /\ a.at = "use" /\ a.now = q.now
    BY <1>1, <1>2, <1>4 DEF CheckStates
<1>5. b \in CheckStates /\ b.stage = q.stage /\ b.nth = q.nth /\ b.at = "ask" /\ b.now = clock
    BY <1>1 DEF CheckStates
<1> HIDE DEF a, b
<1> QED
    BY <1>3, <1>4, <1>5 DEF q

LEMMA AskDnsDoes ==
    ASSUME AuthTypeOK, NEW c \in Checks, Reliable(check[c]), AskDns(c)
    PROVE  \E r \in CheckStates :
               /\ CheckGoes(c, r) /\ r.stage = check[c].stage /\ r.nth = check[c].nth
               /\ r.at = "store" /\ r.now = check[c].now /\ r.got = dns[Name(c)]
               /\ Name(c) \in TxtNames
<1> DEFINE q == check[c]
           x == dns[Name(c)]
           r == [q EXCEPT !.at = "store", !.got = x]
<1>1. q \in CheckStates /\ check \in [Checks -> CheckStates]
    BY AnswersType
<1>2. Name(c) \in TxtNames /\ x \in Answers
    <2>1. q.stage \in Stages /\ q.nth \in Nat /\ q.nth >= 1 /\ q.nth <= Len(Asks[q.stage])
        BY <1>1 DEF Reliable, AskDns, CheckStates
    <2>2. Name(c) \in TxtNames
        BY <2>1, AskedName DEF Name
    <2> QED
        BY <2>2, AnswersType
<1>3. CheckGoes(c, r)
    <2>1. check' = [check EXCEPT ![c].at = "store", ![c].got = x]
        BY DEF AskDns
    <2> HIDE DEF x
    <2> QED
        BY <1>1, <2>1 DEF CheckGoes, CheckStates
<1> HIDE DEF q, x
<1>4. /\ r \in CheckStates /\ r.stage = q.stage /\ r.nth = q.nth /\ r.at = "store"
      /\ r.now = q.now /\ r.got = x
    BY <1>1, <1>2 DEF CheckStates
<1> HIDE DEF r
<1> QED
    BY <1>2, <1>3, <1>4 DEF q, x

\* A failure of DNS, an include and another key: nothing is left to store.
LEMMA UseDoes ==
    ASSUME AuthTypeOK, NEW c \in Checks, NEW mark \in {"valid", "dnsFail", "failed"},
           DnsFails(c) \/ FollowInclude(c) \/ TryKey(c, mark)
    PROVE  \E r \in CheckStates :
               /\ CheckGoes(c, r) /\ r.at \in {"use", "look"}
               /\ r.nth \in {check[c].nth, check[c].nth + 1} /\ r.now \in {0, check[c].now}
<1> DEFINE q == check[c]
           a == [q EXCEPT !.at = "use", !.got = "error", !.now = 0]
           k == q.nth + 1
           w == q.marks \cup ({mark} \ {"failed"})
           b == [q EXCEPT !.nth = k, !.at = "look"]
           d == [q EXCEPT !.marks = w, !.nth = k, !.at = "look"]
<1>1. q \in CheckStates /\ check \in [Checks -> CheckStates]
    BY AnswersType
<1>2. DnsFails(c) => CheckGoes(c, a)
    BY <1>1 DEF DnsFails, CheckGoes, CheckStates
<1>3. FollowInclude(c) => CheckGoes(c, b)
    BY <1>1 DEF FollowInclude, CheckGoes, CheckStates
<1>4. TryKey(c, mark) => CheckGoes(c, d)
    BY <1>1 DEF TryKey, CheckGoes, CheckStates
<1>k. k \in Nat /\ w \in SUBSET {"valid", "dnsFail"}
    <2>1. q.nth \in Nat /\ q.marks \in SUBSET {"valid", "dnsFail"}
        BY <1>1 DEF CheckStates
    <2>2. k \in Nat
        BY <2>1
    <2>3. w \in SUBSET {"valid", "dnsFail"}
        BY <2>1
    <2> QED
        BY <2>2, <2>3
<1> HIDE DEF q, k, w
<1>5. a \in CheckStates /\ a.at = "use" /\ a.nth = q.nth /\ a.now = 0
    <2>1. 0 \in 0 .. MaxTime
        BY AuthAssumption
    <2> QED
        BY <1>1, <2>1 DEF CheckStates
<1>6. b \in CheckStates /\ b.at = "look" /\ b.nth = k /\ b.now = q.now
    BY <1>1, <1>k DEF CheckStates
<1>7. d \in CheckStates /\ d.at = "look" /\ d.nth = k /\ d.now = q.now
    BY <1>1, <1>k DEF CheckStates
<1> HIDE DEF a, b, d
<1> QED
    BY <1>2, <1>3, <1>4, <1>5, <1>6, <1>7 DEF q, k

LEMMA StoreDoes ==
    ASSUME AuthTypeOK, NEW c \in Checks, StoreAnswer(c)
    PROVE  \E r \in CheckStates :
               CheckGoes(c, r) /\ r.at = "use" /\ r.nth = check[c].nth /\ r.now = 0
<1> DEFINE q == check[c]
           r == [q EXCEPT !.at = "use", !.now = 0]
<1>1. q \in CheckStates /\ check \in [Checks -> CheckStates] /\ 0 \in 0 .. MaxTime
    BY AnswersType, AuthAssumption
<1>2. CheckGoes(c, r)
    BY <1>1 DEF StoreAnswer, CheckGoes, CheckStates
<1> HIDE DEF q
<1>3. r \in CheckStates /\ r.at = "use" /\ r.nth = q.nth /\ r.now = 0
    BY <1>1 DEF CheckStates
<1> HIDE DEF r
<1> QED
    BY <1>2, <1>3 DEF q

-----------------------------------------------------------------------------
\* A step of a check that leaves DNS and the cache alone keeps the invariant
\* when its own record stays reliable.
LEMMA QuietCheck ==
    ASSUME AuthInv, NEW c \in Checks, NEW r \in CheckStates, CheckGoes(c, r), Quiet,
           UNCHANGED <<cache, order>>, Reliable(r)
    PROVE  AuthInv'
<1>1. check \in [Checks -> CheckStates]
    BY AnswersType DEF AuthInv
<1>2. check' \in [Checks -> CheckStates] /\ check'[c] = r /\ \A d \in Checks \ {c} : check'[d] = check[d]
    BY <1>1 DEF CheckGoes
<1>3. clock' = clock /\ dns' = dns /\ until' = until /\ changes' = changes
    BY DEF Quiet
<1>4. AuthTypeOK'
    BY <1>2, <1>3 DEF AuthInv, AuthTypeOK, CheckStates
<1>5. \A d \in Checks : check'[d] = r \/ check'[d] = check[d]
    BY <1>2
<1>6. \A d \in Checks : Reliable(check[d])'
    BY <1>3, <1>5 DEF AuthInv, Reliable
<1>7. DnsInv'
    BY <1>3 DEF AuthInv, DnsInv
<1>8. OrderInv'
    BY DEF AuthInv, OrderInv
<1>9. FreshInv'
    BY <1>3 DEF AuthInv, FreshInv
<1> QED
    BY <1>4, <1>6, <1>7, <1>8, <1>9 DEF AuthInv

\* A record with nothing to store, of a time that is past, is reliable.
LEMMA NothingToStore ==
    ASSUME AuthInv, NEW r \in CheckStates, r.at \in {"use", "look"}, r.nth >= 1, r.now <= clock
    PROVE  Reliable(r)
BY DEF Reliable

LEMMA JudgeKeeps ==
    ASSUME AuthInv, NEW c \in Checks, NEW v,
           \/ JudgeSpf(c, v) \/ JudgeDkim(c) \/ JudgeDmarc(c, v) \/ OutOfTime(c)
    PROVE  AuthInv'
<1>0. AuthTypeOK /\ clock \in Nat
    BY AnswersType DEF AuthInv
<1>1. Quiet /\ UNCHANGED <<cache, order>>
    BY DEF JudgeSpf, JudgeDkim, JudgeDmarc, OutOfTime
<1>2. \/ check[c].stage \in {"spf", "dkim"} /\ \E w : \E s \in Stages : Enter(c, w, s)
      \/ Conclude(c)
    <2>1. JudgeSpf(c, v) => check[c].stage = "spf" /\ Enter(c, v, "dkim")
        BY DEF JudgeSpf
    <2>2. JudgeDkim(c) => check[c].stage = "dkim" /\ \E w : Enter(c, w, "dmarc")
        BY DEF JudgeDkim
    <2>3. JudgeDmarc(c, v) => Conclude(c)
        BY DEF JudgeDmarc
    <2>4. OutOfTime(c) =>
              \/ check[c].stage = "spf" /\ \E w : Enter(c, w, "dkim")
              \/ check[c].stage = "dkim" /\ \E w : Enter(c, w, "dmarc")
              \/ Conclude(c)
        BY DEF OutOfTime, Stages
    <2>5. "dkim" \in Stages /\ "dmarc" \in Stages
        BY DEF Stages
    <2> QED
        BY <2>1, <2>2, <2>3, <2>4, <2>5
<1>3. PICK r \in CheckStates : CheckGoes(c, r) /\ r.at = "look" /\ r.nth = 1 /\ r.now = 0
    <2>1. ASSUME NEW w, NEW s \in Stages, check[c].stage \in {"spf", "dkim"}, Enter(c, w, s)
          PROVE  \E r \in CheckStates : CheckGoes(c, r) /\ r.at = "look" /\ r.nth = 1 /\ r.now = 0
        BY <1>0, <2>1, EnterDoes
    <2>2. ASSUME Conclude(c)
          PROVE  \E r \in CheckStates : CheckGoes(c, r) /\ r.at = "look" /\ r.nth = 1 /\ r.now = 0
        BY <2>2, ConcludeDoes
    <2> QED
        BY <1>2, <2>1, <2>2
<1>4. Reliable(r)
    BY <1>0, <1>3, NothingToStore
<1> QED
    BY <1>1, <1>3, <1>4, QuietCheck

LEMMA StartKeeps ==
    ASSUME AuthInv, NEW c \in Checks, StartCheck(c) \/ Expire(c)
    PROVE  AuthInv'
<1>0. AuthTypeOK /\ Reliable(check[c])
    BY DEF AuthInv
<1>1. PICK r \in CheckStates :
          /\ CheckGoes(c, r) /\ r.at = check[c].at /\ r.nth = check[c].nth
          /\ r.now = check[c].now /\ r.got = check[c].got
          /\ r.stage = check[c].stage \/ (r.stage \in Stages /\ check[c].stage = "idle")
    BY <1>0, StartDoes
<1>2. Reliable(r)
    <2>1. "idle" \notin Stages
        BY DEF Stages
    <2>2. r.at \in {"ask", "store"} => r.stage = check[c].stage
        BY <1>0, <1>1, <2>1 DEF Reliable
    <2> QED
        BY <1>0, <1>1, <2>2 DEF Reliable
<1>3. Quiet /\ UNCHANGED <<cache, order>>
    BY DEF StartCheck, Expire
<1> QED
    BY <1>1, <1>2, <1>3, QuietCheck

LEMMA LookUpKeeps ==
    ASSUME AuthInv, NEW c \in Checks, LookUp(c)
    PROVE  AuthInv'
<1>0. AuthTypeOK /\ Reliable(check[c]) /\ clock \in Nat
    BY AnswersType DEF AuthInv
<1>1. PICK r \in CheckStates :
          /\ CheckGoes(c, r) /\ r.stage = check[c].stage /\ r.nth = check[c].nth
          /\ r.at \in {"ask", "use"} /\ r.now \in {check[c].now, clock}
    BY <1>0, LookUpDoes
<1>2. check[c].stage \in Stages /\ check[c].nth <= Len(Asks[check[c].stage])
    BY DEF LookUp
<1>3. Reliable(r)
    BY <1>0, <1>1, <1>2 DEF Reliable
<1>4. Quiet /\ UNCHANGED <<cache, order>>
    BY DEF LookUp
<1> QED
    BY <1>1, <1>3, <1>4, QuietCheck

\* DNS answers at a time no earlier than the one noted.
LEMMA AskDnsKeeps ==
    ASSUME AuthInv, NEW c \in Checks, AskDns(c)
    PROVE  AuthInv'
<1>0. AuthTypeOK /\ Reliable(check[c])
    BY DEF AuthInv
<1>1. PICK r \in CheckStates :
          /\ CheckGoes(c, r) /\ r.stage = check[c].stage /\ r.nth = check[c].nth
          /\ r.at = "store" /\ r.now = check[c].now /\ r.got = dns[Name(c)]
          /\ Name(c) \in TxtNames
    BY <1>0, AskDnsDoes
<1>2. r.got \in Answers /\ until[Name(c)][r.got] = clock
    BY <1>0, <1>1, AnswersType DEF AuthInv, DnsInv
<1>3. check[c].at = "ask"
    BY DEF AskDns
<1>4. Reliable(r)
    BY <1>0, <1>1, <1>2, <1>3 DEF Reliable, Name
<1>5. Quiet /\ UNCHANGED <<cache, order>>
    BY DEF AskDns
<1> QED
    BY <1>1, <1>4, <1>5, QuietCheck

LEMMA UseKeeps ==
    ASSUME AuthInv, NEW c \in Checks, NEW mark \in {"valid", "dnsFail", "failed"},
           DnsFails(c) \/ FollowInclude(c) \/ TryKey(c, mark)
    PROVE  AuthInv'
<1>0. AuthTypeOK /\ Reliable(check[c]) /\ clock \in Nat
    BY AnswersType DEF AuthInv
<1>1. PICK r \in CheckStates :
          /\ CheckGoes(c, r) /\ r.at \in {"use", "look"}
          /\ r.nth \in {check[c].nth, check[c].nth + 1} /\ r.now \in {0, check[c].now}
    BY <1>0, UseDoes
<1>2. r.nth >= 1 /\ r.now <= clock
    <2>1. check[c].nth \in Nat /\ check[c].nth >= 1 /\ check[c].now <= clock
        BY <1>0, AnswersType DEF Reliable, CheckStates
    <2> QED
        BY <1>0, <1>1, <2>1
<1>3. Reliable(r)
    BY <1>1, <1>2, NothingToStore
<1>4. Quiet /\ UNCHANGED <<cache, order>>
    BY DEF DnsFails, FollowInclude, TryKey
<1> QED
    BY <1>1, <1>3, <1>4, QuietCheck

-----------------------------------------------------------------------------
\* Time and DNS.

\* What only moves the clock or DNS keeps the cache fresh and the checks
\* reliable, when nothing is answered at an earlier time than before.
LEMMA DnsSteps ==
    ASSUME AuthInv, UNCHANGED <<cache, order, check>>, AuthTypeOK', DnsInv', clock <= clock',
           \A n \in TxtNames : \A x \in Answers : until[n][x] <= until'[n][x]
    PROVE  AuthInv'
<1>0. AuthTypeOK
    BY DEF AuthInv
<1>1. OrderInv'
    BY DEF AuthInv, OrderInv
<1>2. FreshInv'
    <2> SUFFICES ASSUME NEW n \in DOMAIN cache
                 PROVE  cache[n].expires <= until'[n][cache[n].answer] + TtlOf(cache[n].answer)
        BY DEF FreshInv
    <2>1. cache[n].answer \in Answers /\ cache[n].expires \in Nat /\ n \in TxtNames
        BY <1>0, AnswersType
    <2>2. cache[n].expires <= until[n][cache[n].answer] + TtlOf(cache[n].answer)
        BY DEF AuthInv, FreshInv
    <2>3. until[n][cache[n].answer] <= until'[n][cache[n].answer]
        BY <2>1
    <2>4. until[n][cache[n].answer] \in Nat /\ until'[n][cache[n].answer] \in Nat
        BY <1>0, <2>1, AuthAssumption DEF AuthTypeOK
    <2>5. TtlOf(cache[n].answer) \in Nat
        BY <2>1, TtlType
    <2>6. \A e, u, v, l \in Nat : e <= u + l /\ u <= v => e <= v + l
        OBVIOUS
    <2> QED
        BY <2>1, <2>2, <2>3, <2>4, <2>5, <2>6, Zenon
<1>3. ASSUME NEW c \in Checks PROVE Reliable(check[c])'
    <2>1. check[c] \in CheckStates /\ Reliable(check[c])
        BY <1>0, AnswersType DEF AuthInv
    <2>2. clock \in Nat /\ clock' \in Nat /\ check[c].now \in Nat /\ check[c].nth \in Nat
        BY <1>0, <2>1, AuthAssumption DEF AuthTypeOK, CheckStates
    <2>3. check[c].now <= clock'
        BY <2>1, <2>2 DEF Reliable
    <2>4. ASSUME check[c].at = "store"
          PROVE  check[c].now <= until'[Asks[check[c].stage][check[c].nth]][check[c].got]
        <3> DEFINE n == Asks[check[c].stage][check[c].nth]
                   x == check[c].got
        <3>1. check[c].stage \in Stages /\ check[c].nth >= 1 /\ check[c].nth <= Len(Asks[check[c].stage])
            BY <2>1, <2>4 DEF Reliable
        <3>2. n \in TxtNames /\ x \in Answers
            BY <2>1, <2>2, <2>4, <3>1, AskedName DEF Reliable
        <3>3. check[c].now <= until[n][x]
            BY <2>1, <2>4 DEF Reliable
        <3> HIDE DEF n, x
        <3>4. until[n][x] \in Nat /\ until'[n][x] \in Nat
            BY <1>0, <3>2, AuthAssumption DEF AuthTypeOK
        <3>5. until[n][x] <= until'[n][x]
            BY <3>2
        <3>6. check[c].now <= until'[n][x]
            BY <2>2, <3>3, <3>4, <3>5
        <3> QED
            BY <3>6 DEF n, x
    <2> QED
        BY <2>1, <2>3, <2>4 DEF Reliable
<1> QED
    BY <1>1, <1>2, <1>3 DEF AuthInv

LEMMA TickKeeps ==
    ASSUME AuthInv, Tick
    PROVE  AuthInv'
<1>0. AuthTypeOK /\ clock \in Nat /\ MaxTime \in Nat
    BY AnswersType DEF AuthInv
<1>1. /\ clock' = clock + 1 /\ clock < MaxTime /\ UNCHANGED <<dns, changes, cache, order, check>>
      /\ until' = [n \in TxtNames |-> [until[n] EXCEPT ![dns[n]] = clock + 1]]
    BY DEF Tick
<1>2. clock' \in 0 .. MaxTime /\ clock <= clock'
    BY <1>0, <1>1
<1>3. ASSUME NEW n \in TxtNames
      PROVE  /\ until'[n] \in [Answers -> 0 .. MaxTime]
             /\ until'[n][dns[n]] = clock'
             /\ \A x \in Answers : until[n][x] <= until'[n][x] /\ until'[n][x] <= clock'
    <2>1. until[n] \in [Answers -> 0 .. MaxTime] /\ dns[n] \in Answers
        BY <1>0 DEF AuthTypeOK
    <2>2. until'[n] = [until[n] EXCEPT ![dns[n]] = clock']
        BY <1>1
    <2>3. \A x \in Answers : until[n][x] <= clock /\ until[n][x] \in Nat
        BY <1>0, AnswersType DEF AuthInv, DnsInv
    <2>4. until'[n] \in [Answers -> 0 .. MaxTime]
        BY <1>2, <2>1, <2>2
    <2>5. \A x \in Answers : until'[n][x] = IF x = dns[n] THEN clock' ELSE until[n][x]
        BY <2>1, <2>2
    <2>6. clock' \in Nat
        BY <1>0, <1>1
    <2>7. \A x \in Answers : until[n][x] <= clock'
        BY <1>0, <1>1, <2>3
    <2>8. \A x \in Answers : until[n][x] <= until'[n][x]
        BY <2>3, <2>5, <2>7
    <2>9. \A x \in Answers : until'[n][x] <= clock'
        BY <2>5, <2>6, <2>7
    <2> QED
        BY <2>1, <2>4, <2>5, <2>8, <2>9
<1>4. until' \in [TxtNames -> [Answers -> 0 .. MaxTime]]
    <2>1. \A n \in TxtNames : [until[n] EXCEPT ![dns[n]] = clock + 1] = until'[n]
        BY <1>1
    <2> QED
        BY <1>1, <1>3, <2>1
<1>5. AuthTypeOK'
    BY <1>0, <1>1, <1>2, <1>4 DEF AuthTypeOK
<1>6. DnsInv'
    BY <1>1, <1>3 DEF DnsInv
<1> QED
    BY <1>1, <1>2, <1>3, <1>5, <1>6, DnsSteps

LEMMA PublishKeeps ==
    ASSUME AuthInv, NEW m \in TxtNames, NEW y \in Answers, Publish(m, y)
    PROVE  AuthInv'
<1>0. /\ AuthTypeOK /\ clock \in Nat /\ clock \in 0 .. MaxTime
      /\ \A n \in TxtNames : \A x \in Answers : until[n][x] \in Nat
    BY AnswersType DEF AuthInv, AuthTypeOK
<1>1. /\ clock' = clock /\ UNCHANGED <<cache, order, check>>
      /\ dns' = [dns EXCEPT ![m] = y] /\ until' = [until EXCEPT ![m][y] = clock]
      /\ changes < MaxChanges /\ changes' = changes + 1
    BY DEF Publish
<1>2. changes' \in 0 .. MaxChanges
    BY <1>0, <1>1, AuthAssumption DEF AuthTypeOK
<1>3. dns \in [TxtNames -> Answers] /\ until \in [TxtNames -> [Answers -> 0 .. MaxTime]]
    BY <1>0 DEF AuthTypeOK
<1>4. /\ dns' \in [TxtNames -> Answers] /\ until' \in [TxtNames -> [Answers -> 0 .. MaxTime]]
    BY <1>0, <1>1, <1>3
<1>5. AuthTypeOK'
    BY <1>0, <1>1, <1>2, <1>4 DEF AuthTypeOK
<1>6. \A n \in TxtNames : \A x \in Answers :
          until'[n][x] = IF n = m /\ x = y THEN clock ELSE until[n][x]
    BY <1>1, <1>3
<1>7. \A n \in TxtNames : dns'[n] = IF n = m THEN y ELSE dns[n]
    BY <1>1, <1>3
<1>8. \A n \in TxtNames : \A x \in Answers : until[n][x] <= clock
    BY DEF AuthInv, DnsInv
<1>9. \A n \in TxtNames : \A x \in Answers : until[n][x] <= until'[n][x]
    BY <1>0, <1>6, <1>8
<1>10. DnsInv'
    <2>1. \A n \in TxtNames : until'[n][dns'[n]] = clock'
        BY <1>1, <1>3, <1>4, <1>6, <1>7 DEF AuthInv, DnsInv
    <2>2. \A n \in TxtNames : \A x \in Answers : until'[n][x] <= clock'
        BY <1>0, <1>1, <1>6, <1>8
    <2> QED
        BY <2>1, <2>2 DEF DnsInv
<1> QED
    BY <1>0, <1>1, <1>5, <1>9, <1>10, DnsSteps

-----------------------------------------------------------------------------
\* The cache.

\* A name is appended to the order of a cache with room.
LEMMA OrderGrows ==
    ASSUME NEW S, NEW o \in Seq(TxtNames), NEW n \in TxtNames, n \notin S, Lists(o, S)
    PROVE  /\ Append(o, n) \in Seq(TxtNames)
           /\ Lists(Append(o, n), S \cup {n})
           /\ Len(Append(o, n)) = Len(o) + 1
<1> DEFINE p == Append(o, n)
           k == Len(o)
<1>1. k \in Nat /\ p \in Seq(TxtNames) /\ Len(p) = k + 1
    BY DEF k
<1>2. \A i \in 1 .. k : p[i] = o[i]
    OBVIOUS
<1>3. p[k + 1] = n
    OBVIOUS
<1>4. IsFiniteSet(S \cup {n}) /\ Cardinality(S \cup {n}) = Cardinality(S) + 1
    BY FS_AddElement DEF Lists
<1>5. \A i \in 1 .. k : o[i] \in S
    BY DEF Lists
<1>6. \A i, j \in 1 .. k : o[i] = o[j] => i = j
    BY DEF Lists
<1>7. \A m \in S : \E i \in 1 .. k : o[i] = m
    BY DEF Lists
<1>8. k = Cardinality(S)
    BY DEF Lists
<1> HIDE DEF p, k
<1>9. \A i \in 1 .. Len(p) : i = k + 1 \/ i \in 1 .. k
    BY <1>1
<1>10. \A i \in 1 .. Len(p) : p[i] \in S \cup {n}
    BY <1>2, <1>3, <1>5, <1>9
<1>11. \A m \in S \cup {n} : \E i \in 1 .. Len(p) : p[i] = m
    <2>1. 1 .. k \subseteq 1 .. Len(p) /\ k + 1 \in 1 .. Len(p)
        BY <1>1
    <2> QED
        BY <1>2, <1>3, <1>7, <2>1
<1>12. \A i, j \in 1 .. Len(p) : p[i] = p[j] => i = j
    BY <1>2, <1>3, <1>5, <1>6, <1>9
<1> QED
    BY <1>1, <1>4, <1>8, <1>10, <1>11, <1>12 DEF Lists, p, k

\* The first name leaves the order of a cache that holds one.
LEMMA OrderShrinks ==
    ASSUME NEW S, NEW o \in Seq(TxtNames), Len(o) >= 1, Lists(o, S)
    PROVE  /\ Tail(o) \in Seq(TxtNames)
           /\ Lists(Tail(o), S \ {Head(o)})
           /\ Len(Tail(o)) = Len(o) - 1
<1> DEFINE p == Tail(o)
           h == Head(o)
           T == S \ {h}
           k == Len(o)
<1>1. k \in Nat /\ k >= 1 /\ p \in Seq(TxtNames) /\ Len(p) = k - 1 /\ h = o[1]
    OBVIOUS
<1>2. \A i \in 1 .. k - 1 : p[i] = o[i + 1]
    OBVIOUS
<1>3. h \in S
    BY <1>1 DEF Lists
<1>4. IsFiniteSet(T) /\ Cardinality(T) = Cardinality(S) - 1
    BY <1>3, FS_RemoveElement DEF Lists
<1>5. \A i \in 1 .. k : o[i] \in S
    BY DEF Lists
<1>6. \A i, j \in 1 .. k : o[i] = o[j] => i = j
    BY DEF Lists
<1>7. \A m \in S : \E i \in 1 .. k : o[i] = m
    BY DEF Lists
<1>8. k = Cardinality(S)
    BY DEF Lists
<1> HIDE DEF p, h, k
<1>9. \A i \in 1 .. k - 1 : i + 1 \in 1 .. k /\ i + 1 # 1
    BY <1>1
<1>10. \A i \in 1 .. k - 1 : p[i] \in T
    <2> SUFFICES ASSUME NEW i \in 1 .. k - 1 PROVE p[i] \in S /\ p[i] # h
        OBVIOUS
    <2>1. i + 1 \in 1 .. k /\ i + 1 # 1 /\ 1 \in 1 .. k
        BY <1>1, <1>9
    <2> QED
        BY <1>1, <1>2, <1>5, <1>6, <2>1
<1>11. \A m \in T : \E i \in 1 .. k - 1 : p[i] = m
    <2> SUFFICES ASSUME NEW m \in T PROVE \E i \in 1 .. k - 1 : p[i] = m
        OBVIOUS
    <2>1. PICK j \in 1 .. k : o[j] = m
        BY <1>7
    <2>2. j # 1
        BY <1>1, <2>1
    <2>3. j - 1 \in 1 .. k - 1 /\ (j - 1) + 1 = j
        BY <1>1, <2>2
    <2> QED
        BY <1>2, <2>1, <2>3
<1>12. \A i, j \in 1 .. k - 1 : p[i] = p[j] => i = j
    <2> SUFFICES ASSUME NEW i \in 1 .. k - 1, NEW j \in 1 .. k - 1, p[i] = p[j] PROVE i = j
        OBVIOUS
    <2>1. i + 1 = j + 1
        BY <1>2, <1>6, <1>9
    <2> QED
        BY <2>1
<1> QED
    BY <1>1, <1>4, <1>8, <1>10, <1>11, <1>12 DEF Lists, p, k, h

LEMMA StoreAnswerKeeps ==
    ASSUME AuthInv, NEW c \in Checks, StoreAnswer(c)
    PROVE  AuthInv'
<1> DEFINE q == check[c]
           n == Name(c)
           D == DOMAIN cache
           x == q.got
           full == n \notin D /\ Cardinality(D) >= CacheMax
           kept == IF full THEN D \ {Head(order)} ELSE D
           entry == [answer |-> x, expires |-> Expiry(c)]
<1>1. /\ cache' = [m \in kept \cup {n} |-> IF m = n THEN entry ELSE cache[m]]
      /\ order' = IF n \in D THEN order ELSE Append(IF full THEN Tail(order) ELSE order, n)
      /\ q.at = "store" /\ Quiet
    BY DEF StoreAnswer
<1>2. /\ AuthTypeOK /\ Reliable(q) /\ q \in CheckStates /\ OrderInv
      /\ order \in Seq(TxtNames)
    BY AnswersType DEF AuthInv, AuthTypeOK
<1>3. /\ clock' = clock /\ dns' = dns /\ until' = until /\ changes' = changes
    BY <1>1 DEF Quiet
<1>4. n \in TxtNames /\ x \in Answers /\ q.now \in Nat /\ q.now <= until[n][x]
    <2>1. q.stage \in Stages /\ q.nth \in Nat /\ q.nth >= 1 /\ q.nth <= Len(Asks[q.stage])
        BY <1>1, <1>2 DEF Reliable, CheckStates
    <2>2. n \in TxtNames
        BY <2>1, AskedName DEF Name
    <2>3. q.now \in Nat
        BY <1>2, AuthAssumption DEF CheckStates
    <2> QED
        BY <1>1, <1>2, <2>2, <2>3 DEF Reliable, Name
<1>5. entry \in [answer : Answers, expires : Nat] /\ entry.expires <= until[n][x] + TtlOf(x)
    <2>1. TtlOf(x) \in Nat /\ until[n][x] \in Nat
        BY <1>2, <1>4, TtlType, AnswersType
    <2>2. Expiry(c) = q.now + TtlOf(x)
        BY DEF Expiry
    <2>3. Expiry(c) \in Nat /\ Expiry(c) <= until[n][x] + TtlOf(x)
        BY <1>4, <2>1, <2>2
    <2> HIDE DEF x, n
    <2> QED
        BY <1>4, <2>3
<1>6. PICK r \in CheckStates :
          CheckGoes(c, r) /\ r.at = "use" /\ r.nth = check[c].nth /\ r.now = 0
    BY <1>2, StoreDoes
<1>7. Reliable(r)
    <2>1. clock \in Nat /\ r.nth >= 1
        BY <1>2, <1>6, AnswersType DEF Reliable
    <2> QED
        BY <1>6, <2>1, NothingToStore
<1>8. check' \in [Checks -> CheckStates] /\ \A d \in Checks : check'[d] = r \/ check'[d] = check[d]
    BY <1>2, <1>6, AnswersType DEF CheckGoes
<1>9. \A d \in Checks : Reliable(check[d])'
    BY <1>3, <1>7, <1>8 DEF AuthInv, Reliable
<1>10. D \subseteq TxtNames /\ kept \subseteq D
    BY <1>2 DEF AuthTypeOK
<1>11. /\ Lists(order, D) /\ Len(order) = Cardinality(D) /\ Len(order) <= CacheMax
       /\ Len(order) \in Nat
    BY <1>2 DEF OrderInv, Lists
<1> HIDE DEF D, n, x, q, entry
<1>12. DOMAIN cache' = kept \cup {n}
    BY <1>1
<1>13. \A m \in DOMAIN cache' : (m = n /\ cache'[m] = entry) \/ (m \in D /\ cache'[m] = cache[m])
    BY <1>1, <1>10, <1>12
<1> HIDE DEF kept
<1>14. OrderInv' /\ order' \in Seq(TxtNames)
    <2>1. CASE n \in D
        <3>1. DOMAIN cache' = D /\ order' = order
            BY <1>1, <1>12, <2>1 DEF kept
        <3> QED
            BY <1>2, <1>11, <3>1 DEF OrderInv
    <2>2. CASE n \notin D /\ ~(Cardinality(D) >= CacheMax)
        <3>1. DOMAIN cache' = D \cup {n} /\ order' = Append(order, n)
            BY <1>1, <1>12, <2>2 DEF kept
        <3>2. Len(order) + 1 <= CacheMax
            BY <1>11, <2>2, TtlType
        <3>3. /\ order' \in Seq(TxtNames) /\ Lists(order', D \cup {n})
              /\ Len(order') = Len(order) + 1
            BY <1>2, <1>4, <1>11, <2>2, <3>1, OrderGrows
        <3> QED
            BY <3>1, <3>2, <3>3 DEF OrderInv
    <2>3. CASE full
        <3> DEFINE T == D \ {Head(order)}
                   o == Tail(order)
        <3>1. DOMAIN cache' = T \cup {n} /\ order' = Append(o, n)
            BY <1>1, <1>12, <2>3 DEF kept
        <3>2. Len(order) >= 1
            BY <1>11, <2>3, TtlType
        <3>3. o \in Seq(TxtNames) /\ Lists(o, T) /\ Len(o) = Len(order) - 1
            BY <1>2, <1>11, <3>2, OrderShrinks
        <3>4. n \notin T
            BY <2>3
        <3> HIDE DEF T, o
        <3>5. /\ order' \in Seq(TxtNames) /\ Lists(order', T \cup {n})
              /\ Len(order') = Len(o) + 1
            BY <1>4, <3>1, <3>3, <3>4, OrderGrows
        <3>6. Len(order') <= CacheMax
            BY <1>11, <3>3, <3>5, TtlType
        <3> QED
            BY <3>1, <3>5, <3>6 DEF OrderInv
    <2> QED
        BY <2>1, <2>2, <2>3
<1>15. FreshInv'
    <2> SUFFICES ASSUME NEW m \in DOMAIN cache'
                 PROVE  cache'[m].expires <= until[m][cache'[m].answer] + TtlOf(cache'[m].answer)
        BY <1>3 DEF FreshInv
    <2>1. CASE m = n /\ cache'[m] = entry
        BY <1>5, <2>1 DEF entry
    <2>2. CASE m \in D /\ cache'[m] = cache[m]
        BY <2>2 DEF AuthInv, FreshInv, D
    <2> QED
        BY <1>13, <2>1, <2>2
<1>16. \A m \in DOMAIN cache' : m \in TxtNames /\ cache'[m] \in [answer : Answers, expires : Nat]
    <2>1. \A m \in D : m \in TxtNames /\ cache[m] \in [answer : Answers, expires : Nat]
        BY <1>2, AnswersType DEF D
    <2> QED
        BY <1>4, <1>5, <1>13, <2>1
<1>17. AuthTypeOK'
    BY <1>2, <1>3, <1>8, <1>14, <1>16 DEF AuthTypeOK, CheckStates
<1>18. DnsInv'
    BY <1>3 DEF AuthInv, DnsInv
<1> QED
    BY <1>9, <1>14, <1>15, <1>17, <1>18 DEF AuthInv

-----------------------------------------------------------------------------
LEMMA AuthInvStep ==
    ASSUME AuthInv, [AuthNext]_authVars
    PROVE  AuthInv'
<1>1. CASE UNCHANGED authVars
    BY <1>1 DEF authVars, AuthInv, AuthTypeOK, DnsInv, OrderInv, Lists, FreshInv, Reliable
<1>2. CASE AuthNext
    BY <1>2, TickKeeps, PublishKeeps, StartKeeps, LookUpKeeps, AskDnsKeeps, UseKeeps,
       StoreAnswerKeeps, JudgeKeeps DEF AuthNext
<1> QED
    BY <1>1, <1>2

LEMMA AuthInvInit ==
    ASSUME AuthInit
    PROVE  AuthInv
<1>1. 0 \in 0 .. MaxTime /\ 0 \in 0 .. MaxChanges /\ CacheMax \in Nat /\ CacheMax >= 1
    BY AuthAssumption
<1>2. DOMAIN cache = {} /\ Len(order) = 0 /\ order \in Seq(TxtNames)
    BY DEF AuthInit
<1>3. check \in [Checks -> CheckStates] /\ \A c \in Checks : check[c] = NotBegun
    BY NotBegunType DEF AuthInit
<1>4. dns \in [TxtNames -> Answers]
    BY DEF AuthInit, Answers
<1>5. /\ until \in [TxtNames -> [Answers -> 0 .. MaxTime]]
      /\ \A n \in TxtNames : \A x \in Answers : until[n][x] = 0
    BY <1>1 DEF AuthInit
<1>6. clock = 0 /\ changes = 0
    BY DEF AuthInit
<1>7. AuthTypeOK
    BY <1>1, <1>2, <1>3, <1>4, <1>5, <1>6 DEF AuthTypeOK, CheckStates
<1>8. DnsInv
    BY <1>4, <1>5, <1>6 DEF DnsInv
<1>9. OrderInv
    BY <1>1, <1>2, FS_EmptySet DEF OrderInv, Lists
<1>10. FreshInv
    BY <1>2 DEF FreshInv
<1>11. \A c \in Checks : Reliable(check[c])
    BY <1>3, <1>6, NotBegunType DEF Reliable
<1> QED
    BY <1>7, <1>8, <1>9, <1>10, <1>11 DEF AuthInv

LEMMA AuthInvHolds == AuthSpec => []AuthInv
<1>1. AuthInit => AuthInv
    BY AuthInvInit
<1>2. AuthInv /\ [AuthNext]_authVars => AuthInv'
    BY AuthInvStep
<1> QED
    BY <1>1, <1>2, PTL DEF AuthSpec

\* The state of the verifications keeps its type: a check only asks for names of
\* its stage and only caches what DNS answered.
THEOREM AuthTypeCorrect == AuthSpec => []AuthTypeOK
<1>1. AuthInv => AuthTypeOK
    BY DEF AuthInv
<1> QED
    BY <1>1, AuthInvHolds, PTL

\* The TXT cache is bounded, its eviction order lists what it holds, and it never
\* answers with what DNS has not said within the TTL, with any number of sessions
\* that look up one name at a time and store their answers in any order.
THEOREM CacheStaysSound == AuthSpec => []CacheIsSound
<1>1. ASSUME AuthInv PROVE CacheIsSound
    <2>1. AuthTypeOK /\ OrderInv /\ order \in Seq(TxtNames)
        BY <1>1 DEF AuthInv, AuthTypeOK
    <2>2. ToSet(order) = DOMAIN cache
        <3>1. DOMAIN order = 1 .. Len(order)
            BY <2>1
        <3>2. ToSet(order) = {order[i] : i \in 1 .. Len(order)}
            BY <3>1 DEF ToSet
        <3>3. \A i \in 1 .. Len(order) : order[i] \in DOMAIN cache
            BY <2>1 DEF OrderInv, Lists
        <3>4. \A m \in DOMAIN cache : \E i \in 1 .. Len(order) : order[i] = m
            BY <2>1 DEF OrderInv, Lists
        <3> QED
            BY <3>2, <3>3, <3>4
    <2>3. ASSUME NEW n \in TxtNames, Cached(n)
          PROVE  until[n][cache[n].answer] + TtlOf(cache[n].answer) > clock
        <3>1. n \in DOMAIN cache /\ clock < cache[n].expires
            BY <2>3 DEF Cached
        <3>2. cache[n].expires <= until[n][cache[n].answer] + TtlOf(cache[n].answer)
            BY <1>1, <3>1 DEF AuthInv, FreshInv
        <3>3. cache[n].answer \in Answers /\ cache[n].expires \in Nat /\ clock \in Nat
            BY <2>1, <3>1, AnswersType
        <3>4. until[n][cache[n].answer] \in Nat /\ TtlOf(cache[n].answer) \in Nat
            BY <2>1, <3>3, AnswersType, TtlType
        <3> QED
            BY <3>1, <3>2, <3>3, <3>4
    <2> QED
        BY <2>1, <2>2, <2>3 DEF CacheIsSound, OrderInv, Lists
<1>2. AuthInv => CacheIsSound
    BY <1>1
<1> QED
    BY <1>2, AuthInvHolds, PTL

-----------------------------------------------------------------------------
(* Spam training.                                                           *)

MoverStates ==
    [at : {"idle", "moving", "marking", "counting", "checking", "flooring", "unmarking"},
     msg : MovedMail, to : Folders, was : Folders \cup {"none"}, class : Classes,
     delta : {-1, 1}, batch : 1 .. Batches, low : SUBSET {"token", "total"}]

LEMMA RestingType == Resting \in MoverStates /\ Resting.at = "idle"
<1>1. (CHOOSE m \in MovedMail : TRUE) \in MovedMail
    BY TrainingAssumption
<1>2. 1 \in 1 .. Batches
    BY TrainingAssumption
<1> QED
    BY <1>1, <1>2 DEF Resting, MoverStates, Classes, Folders

LEMMA MoverType ==
    ASSUME TrainingTypeOK, NEW v \in Movers
    PROVE  mover[v] \in MoverStates
BY DEF TrainingTypeOK, MoverStates

\* A request is at r now, and the others are where they were.
Goes(v, r) == mover' = [mover EXCEPT ![v] = r]

LEMMA GoesType ==
    ASSUME TrainingTypeOK, NEW v \in Movers, NEW r \in MoverStates, Goes(v, r)
    PROVE  /\ mover' \in [Movers -> MoverStates]
           /\ mover'[v] = r
           /\ \A w \in Movers \ {v} : mover'[w] = mover[w]
BY DEF Goes, TrainingTypeOK, MoverStates

LEMMA NextStateTypes ==
    ASSUME TrainingTypeOK, NEW v \in Movers
    PROVE  /\ AfterBatch(v) \in MoverStates
           /\ AfterBatch(v).at \notin {"checking", "flooring"}
           /\ ToHam(v) \in MoverStates
           /\ ToHam(v).at = "marking"
<1> DEFINE r == mover[v]
           next == [r EXCEPT !.at = "counting", !.batch = @ + 1, !.low = {}]
           last == [r EXCEPT !.at = "unmarking", !.low = {}]
<1>1. r \in MoverStates
    BY MoverType
<1>2. Batches \in Nat /\ 1 \in 1 .. Batches
    BY TrainingAssumption
<1>3. ToHam(v) \in MoverStates /\ ToHam(v).at = "marking"
    BY <1>1, <1>2 DEF ToHam, MoverStates, Classes
<1>4. ASSUME r.batch < Batches PROVE r.batch + 1 \in 1 .. Batches
    BY <1>1, <1>2, <1>4 DEF MoverStates
<1>5. ASSUME r.batch < Batches PROVE next \in MoverStates /\ next.at = "counting"
    BY <1>1, <1>4, <1>5 DEF MoverStates
<1>6. last \in MoverStates /\ last.at = "unmarking"
    BY <1>1 DEF MoverStates
<1>7. AfterBatch(v) = IF r.batch < Batches THEN next ELSE IF r.delta = -1 THEN last ELSE Resting
    BY DEF AfterBatch
<1> HIDE DEF next, last
<1> QED
    BY <1>3, <1>5, <1>6, <1>7, RestingType

-----------------------------------------------------------------------------
\* One step of TrainingNext, with the request that takes it.
MoverStep(v) ==
    \/ \E m \in MovedMail, f \in Folders : ReadFolder(v, m, f)
    \/ CommitMove(v) \/ Mark(v) \/ Count(v) \/ Check(v) \/ Floor(v) \/ Unmark(v)
    \/ RedisFails(v)

\* Nothing but the request itself moves it, and its next state is one of its
\* states; the counts change in Count and Floor alone.
LEMMA MoverStepType ==
    ASSUME TrainingTypeOK, NEW v \in Movers, MoverStep(v)
    PROVE  \E r \in MoverStates : Goes(v, r)
<1> DEFINE q == mover[v]
<1>0. q \in MoverStates
    BY MoverType
<1>1. ASSUME NEW m \in MovedMail, NEW f \in Folders, ReadFolder(v, m, f)
      PROVE  \E r \in MoverStates : Goes(v, r)
    <2> DEFINE r == [Resting EXCEPT !.at = "moving", !.msg = m, !.to = f, !.was = folder[m]]
    <2>1. folder[m] \in Folders \cup {"none"}
        BY DEF TrainingTypeOK
    <2>2. r \in MoverStates
        BY <2>1, RestingType DEF MoverStates
    <2>3. Goes(v, r)
        BY <1>1 DEF ReadFolder, Goes
    <2> QED
        BY <2>2, <2>3
<1>2. ASSUME CommitMove(v) PROVE \E r \in MoverStates : Goes(v, r)
    <2> DEFINE a == CASE Lesson(v) = "spam" -> "marking"
                      [] Lesson(v) = "ham" -> "counting"
                      [] Lesson(v) = "none" -> "idle"
               d == IF Lesson(v) = "ham" THEN -1 ELSE 1
               r == [q EXCEPT !.at = a, !.delta = d]
    <2>1. Lesson(v) \in {"spam", "ham", "none"}
        BY DEF Lesson
    <2>2. a \in {"idle", "marking", "counting"} /\ d \in {-1, 1}
        BY <2>1
    <2> HIDE DEF a, d
    <2>3. r \in MoverStates
        BY <1>0, <2>2 DEF MoverStates
    <2>4. Goes(v, r)
        <3>1. mover' = [mover EXCEPT ![v].at = a, ![v].delta = d]
            BY <1>2 DEF CommitMove, a, d
        <3>2. mover \in [Movers -> MoverStates]
            BY DEF TrainingTypeOK, MoverStates
        <3> QED
            BY <3>1, <3>2 DEF Goes, MoverStates
    <2> QED
        BY <2>3, <2>4
<1>3. ASSUME Mark(v) PROVE \E r \in MoverStates : Goes(v, r)
    <2>1. [q EXCEPT !.at = "counting"] \in MoverStates
        BY <1>0 DEF MoverStates
    <2>2. Goes(v, [q EXCEPT !.at = "counting"]) \/ Goes(v, Resting)
        BY <1>3 DEF Mark, Goes, TrainingTypeOK
    <2> QED
        BY <2>1, <2>2, RestingType
<1>4. ASSUME Count(v) PROVE \E r \in MoverStates : Goes(v, r)
    <2>1. [q EXCEPT !.at = "checking"] \in MoverStates
        BY <1>0 DEF MoverStates
    <2>2. Goes(v, [q EXCEPT !.at = "checking"])
        BY <1>4 DEF Count, Goes, TrainingTypeOK
    <2> QED
        BY <2>1, <2>2
<1>5. ASSUME Check(v) PROVE \E r \in MoverStates : Goes(v, r)
    <2>1. Negative(v) \in SUBSET {"token", "total"}
        BY DEF Negative
    <2>2. [q EXCEPT !.at = "flooring", !.low = Negative(v)] \in MoverStates
        BY <1>0, <2>1 DEF MoverStates
    <2>3. \/ Goes(v, AfterBatch(v))
          \/ Goes(v, [q EXCEPT !.at = "flooring", !.low = Negative(v)])
        BY <1>5 DEF Check, Goes
    <2> QED
        BY <2>2, <2>3, NextStateTypes
<1>6. ASSUME Floor(v) PROVE \E r \in MoverStates : Goes(v, r)
    BY <1>6, NextStateTypes DEF Floor, Goes
<1>7. ASSUME Unmark(v) PROVE \E r \in MoverStates : Goes(v, r)
    BY <1>7, NextStateTypes DEF Unmark, Goes
<1>8. ASSUME RedisFails(v) PROVE \E r \in MoverStates : Goes(v, r)
    BY <1>8, NextStateTypes, RestingType DEF RedisFails, Goes
<1> QED
    BY <1>1, <1>2, <1>3, <1>4, <1>5, <1>6, <1>7, <1>8 DEF MoverStep

\* What Count and Floor make of the counts.
LEMMA CountsType ==
    ASSUME TrainingTypeOK, NEW v \in Movers, MoverStep(v)
    PROVE  /\ tokens' \in [1 .. Batches -> [Classes -> Int]]
           /\ learns' \in [Classes -> Int]
<1> DEFINE b == mover[v].batch
           c == mover[v].class
           d == mover[v].delta
<1>1. b \in 1 .. Batches /\ c \in Classes /\ d \in Int
    BY MoverType DEF MoverStates
<1> HIDE DEF b, c, d
<1>2. ASSUME Count(v) PROVE tokens' \in [1 .. Batches -> [Classes -> Int]] /\ learns' \in [Classes -> Int]
    BY <1>1, <1>2 DEF Count, TrainingTypeOK, b, c, d
<1>3. ASSUME Floor(v) PROVE tokens' \in [1 .. Batches -> [Classes -> Int]] /\ learns' \in [Classes -> Int]
    BY <1>1, <1>3 DEF Floor, TrainingTypeOK, b, c
<1>4. ASSUME ~Count(v), ~Floor(v) PROVE UNCHANGED <<tokens, learns>>
    BY <1>4 DEF MoverStep, ReadFolder, CommitMove, Mark, Check, Unmark, RedisFails
<1> QED
    BY <1>2, <1>3, <1>4 DEF TrainingTypeOK

LEMMA TrainingTypeStep ==
    ASSUME TrainingTypeOK, [TrainingNext]_trainingVars
    PROVE  TrainingTypeOK'
<1>1. ASSUME UNCHANGED trainingVars PROVE TrainingTypeOK'
    BY <1>1 DEF trainingVars, TrainingTypeOK
<1>2. ASSUME NEW m \in MovedMail, Arrive(m) PROVE TrainingTypeOK'
    BY <1>2 DEF Arrive, TrainingTypeOK, Folders
<1>3. ASSUME NEW v \in Movers, MoverStep(v) PROVE TrainingTypeOK'
    <2>1. mover' \in [Movers -> MoverStates]
        BY <1>3, MoverStepType, GoesType
    <2>2. mover[v].msg \in MovedMail /\ mover[v].to \in Folders /\ mover[v].class \in Classes
        BY MoverType DEF MoverStates
    <2>3. folder' \in [MovedMail -> Folders \cup {"none"}]
        BY <1>3, <2>2 DEF MoverStep, ReadFolder, CommitMove, Mark, Count, Check, Floor, Unmark,
            RedisFails, TrainingTypeOK
    <2>4. marker' \in [MovedMail -> Classes \cup {"none"}]
        <3>1. CASE Mark(v)
            <4>1. marker' = marker \/ marker' = [marker EXCEPT ![mover[v].msg] = mover[v].class]
                BY <3>1 DEF Mark
            <4>2. marker \in [MovedMail -> Classes \cup {"none"}]
                BY DEF TrainingTypeOK
            <4> QED
                BY <2>2, <4>1, <4>2
        <3>2. CASE Unmark(v)
            BY <2>2, <3>2 DEF Unmark, TrainingTypeOK
        <3>3. CASE ~Mark(v) /\ ~Unmark(v)
            <4>1. marker' = marker
                BY <1>3, <3>3 DEF MoverStep, ReadFolder, CommitMove, Count, Check, Floor, RedisFails
            <4> QED
                BY <4>1 DEF TrainingTypeOK
        <3> QED
            BY <3>1, <3>2, <3>3
    <2>5. moves' \in 0 .. MaxMoves
        <3>1. ASSUME NEW m \in MovedMail, NEW f \in Folders, ReadFolder(v, m, f)
              PROVE  moves' \in 0 .. MaxMoves
            BY <3>1, TrainingAssumption DEF ReadFolder, TrainingTypeOK
        <3>2. CASE ~\E m \in MovedMail, f \in Folders : ReadFolder(v, m, f)
            BY <1>3, <3>2 DEF MoverStep, CommitMove, Mark, Count, Check, Floor, Unmark, RedisFails,
                TrainingTypeOK
        <3> QED
            BY <3>1, <3>2
    <2>6. failed' \in BOOLEAN
        BY <1>3 DEF MoverStep, ReadFolder, CommitMove, Mark, Count, Check, Floor, Unmark,
            RedisFails, TrainingTypeOK
    <2> QED
        BY <1>3, <2>1, <2>3, <2>4, <2>5, <2>6, CountsType DEF TrainingTypeOK, MoverStates
<1> QED
    BY <1>1, <1>2, <1>3 DEF TrainingNext, MoverStep

LEMMA TrainingTypeInit == TrainingInit => TrainingTypeOK
<1> SUFFICES ASSUME TrainingInit PROVE TrainingTypeOK
    OBVIOUS
<1>1. mover \in [Movers -> MoverStates]
    BY RestingType DEF TrainingInit
<1>2. /\ folder \in [MovedMail -> Folders \cup {"none"}]
      /\ marker \in [MovedMail -> Classes \cup {"none"}]
      /\ failed \in BOOLEAN
    BY DEF TrainingInit
<1>3. moves \in 0 .. MaxMoves
    BY TrainingAssumption DEF TrainingInit
<1>4. learns \in [Classes -> Int]
    BY DEF TrainingInit
<1>5. tokens \in [1 .. Batches -> [Classes -> Int]]
    <2> DEFINE zero == [c \in Classes |-> 0]
    <2>1. zero \in [Classes -> Int]
        OBVIOUS
    <2>2. tokens = [b \in 1 .. Batches |-> zero]
        BY DEF TrainingInit
    <2> HIDE DEF zero
    <2> QED
        BY <2>1, <2>2
<1> QED
    BY <1>1, <1>2, <1>3, <1>4, <1>5 DEF TrainingTypeOK, MoverStates

\* The state of the spam training keeps its type: the records of the requests,
\* and counts that are integers, negative ones included.
THEOREM TrainingTypeCorrect == TrainingSpec => []TrainingTypeOK
<1>1. TrainingInit => TrainingTypeOK
    BY TrainingTypeInit
<1>2. TrainingTypeOK /\ [TrainingNext]_trainingVars => TrainingTypeOK'
    BY TrainingTypeStep
<1> QED
    BY <1>1, <1>2, PTL DEF TrainingSpec

-----------------------------------------------------------------------------
\* A request that has changed a count has yet to read it, or has read that it is
\* negative and has yet to write the zero.
OwesToken(v, b, c) ==
    /\ mover[v].class = c /\ mover[v].batch = b
    /\ \/ mover[v].at = "checking"
       \/ mover[v].at = "flooring" /\ "token" \in mover[v].low

OwesTotal(v, c) ==
    /\ mover[v].class = c
    /\ \/ mover[v].at = "checking"
       \/ mover[v].at = "flooring" /\ "total" \in mover[v].low

TokensOwed ==
    \A b \in 1 .. Batches, c \in Classes :
        tokens[b][c] < 0 => \E v \in Movers : OwesToken(v, b, c)

TotalsOwed == \A c \in Classes : learns[c] < 0 => \E v \in Movers : OwesTotal(v, c)

FloorInv == TrainingTypeOK /\ (failed \/ (TokensOwed /\ TotalsOwed))

\* The debts of the other requests stay; where the counts stay too, so does the
\* invariant if the request that moved owed nothing, or owes it still.
LEMMA DebtsStay ==
    ASSUME TrainingTypeOK, NEW v \in Movers, NEW r \in MoverStates, Goes(v, r),
           NEW w \in Movers \ {v}
    PROVE  /\ \A b \in 1 .. Batches, c \in Classes : OwesToken(w, b, c) => OwesToken(w, b, c)'
           /\ \A c \in Classes : OwesTotal(w, c) => OwesTotal(w, c)'
<1>1. mover'[w] = mover[w]
    BY GoesType
<1> QED
    BY <1>1 DEF OwesToken, OwesTotal

LEMMA DebtlessStep ==
    ASSUME FloorInv, NEW v \in Movers, NEW r \in MoverStates, Goes(v, r),
           mover[v].at \notin {"checking", "flooring"}, UNCHANGED <<tokens, learns, failed>>
    PROVE  (failed \/ (TokensOwed /\ TotalsOwed))'
<1>1. \A b \in 1 .. Batches, c \in Classes : ~OwesToken(v, b, c) /\ ~OwesTotal(v, c)
    BY DEF OwesToken, OwesTotal
<1>2. ASSUME TokensOwed PROVE TokensOwed'
    <2> SUFFICES ASSUME NEW b \in 1 .. Batches, NEW c \in Classes, tokens[b][c] < 0
                 PROVE  \E w \in Movers : OwesToken(w, b, c)'
        BY DEF TokensOwed
    <2>1. PICK w \in Movers : OwesToken(w, b, c)
        BY <1>2 DEF TokensOwed
    <2>2. w # v
        BY <1>1, <2>1
    <2> QED
        BY <2>1, <2>2, DebtsStay DEF FloorInv
<1>3. ASSUME TotalsOwed PROVE TotalsOwed'
    <2> SUFFICES ASSUME NEW c \in Classes, learns[c] < 0
                 PROVE  \E w \in Movers : OwesTotal(w, c)'
        BY DEF TotalsOwed
    <2>1. PICK w \in Movers : OwesTotal(w, c)
        BY <1>3 DEF TotalsOwed
    <2>2. 1 \in 1 .. Batches
        BY TrainingAssumption
    <2>3. w # v
        BY <1>1, <2>1, <2>2
    <2> QED
        BY <2>1, <2>3, DebtsStay DEF FloorInv
<1> QED
    BY <1>2, <1>3 DEF FloorInv

\* After Count the request owes what it has changed.
LEMMA CountFloors ==
    ASSUME FloorInv, NEW v \in Movers, Count(v)
    PROVE  (failed \/ (TokensOwed /\ TotalsOwed))'
<1> DEFINE q == mover[v]
           r == [q EXCEPT !.at = "checking"]
<1>1. TrainingTypeOK /\ q \in MoverStates /\ q.at = "counting"
    BY MoverType DEF FloorInv, Count
<1>2. r \in MoverStates /\ Goes(v, r) /\ r.class = q.class /\ r.batch = q.batch /\ r.at = "checking"
    BY <1>1 DEF MoverStates, Count, Goes, TrainingTypeOK
<1> HIDE DEF r
<1>3. mover'[v] = r
    BY <1>1, <1>2, GoesType
<1>4. \A b \in 1 .. Batches, c \in Classes :
          /\ b = q.batch /\ c = q.class => OwesToken(v, b, c)'
          /\ c = q.class => OwesTotal(v, c)'
    BY <1>2, <1>3 DEF OwesToken, OwesTotal
<1>5. \A b \in 1 .. Batches, c \in Classes : ~OwesToken(v, b, c) /\ ~OwesTotal(v, c)
    BY <1>1 DEF OwesToken, OwesTotal
<1>6. q.batch \in 1 .. Batches /\ q.class \in Classes /\ q.delta \in Int /\ 1 \in 1 .. Batches
    BY <1>1, TrainingAssumption DEF MoverStates
<1>7. \A b \in 1 .. Batches, c \in Classes :
          b # q.batch \/ c # q.class => tokens'[b][c] = tokens[b][c]
    BY <1>1, <1>6 DEF Count, TrainingTypeOK
<1>8. \A c \in Classes \ {q.class} : learns'[c] = learns[c]
    BY <1>1, <1>6 DEF Count, TrainingTypeOK
<1> HIDE DEF q
<1>9. ASSUME TokensOwed PROVE TokensOwed'
    <2> SUFFICES ASSUME NEW b \in 1 .. Batches, NEW c \in Classes, tokens'[b][c] < 0
                 PROVE  \E w \in Movers : OwesToken(w, b, c)'
        BY DEF TokensOwed
    <2>1. CASE b = q.batch /\ c = q.class
        BY <1>4, <2>1
    <2>2. CASE b # q.batch \/ c # q.class
        <3>1. PICK w \in Movers : OwesToken(w, b, c)
            BY <1>7, <1>9, <2>2 DEF TokensOwed
        <3> QED
            BY <1>1, <1>2, <1>5, <3>1, DebtsStay
    <2> QED
        BY <2>1, <2>2
<1>10. ASSUME TotalsOwed PROVE TotalsOwed'
    <2> SUFFICES ASSUME NEW c \in Classes, learns'[c] < 0
                 PROVE  \E w \in Movers : OwesTotal(w, c)'
        BY DEF TotalsOwed
    <2>1. CASE c = q.class
        BY <1>4, <1>6, <2>1
    <2>2. CASE c # q.class
        <3>1. PICK w \in Movers : OwesTotal(w, c)
            BY <1>8, <1>10, <2>2 DEF TotalsOwed
        <3> QED
            BY <1>1, <1>2, <1>5, <1>6, <3>1, DebtsStay
    <2> QED
        BY <2>1, <2>2
<1>11. failed' = failed
    BY DEF Count
<1> QED
    BY <1>9, <1>10, <1>11 DEF FloorInv

\* Check lets go of a debt only where it has read zero or more.
LEMMA CheckFloors ==
    ASSUME FloorInv, NEW v \in Movers, Check(v)
    PROVE  (failed \/ (TokensOwed /\ TotalsOwed))'
<1> DEFINE q == mover[v]
           r == [q EXCEPT !.at = "flooring", !.low = Negative(v)]
<1>1. TrainingTypeOK /\ q \in MoverStates /\ q.at = "checking"
    BY MoverType DEF FloorInv, Check
<1>2. UNCHANGED <<tokens, learns, failed>>
    BY DEF Check
<1>3. /\ "token" \in Negative(v) <=> tokens[q.batch][q.class] < 0
      /\ "total" \in Negative(v) <=> learns[q.class] < 0
      /\ Negative(v) \in SUBSET {"token", "total"}
    BY DEF Negative
<1>4. /\ r \in MoverStates /\ r.at = "flooring" /\ r.low = Negative(v)
      /\ r.class = q.class /\ r.batch = q.batch
    BY <1>1, <1>3 DEF MoverStates
<1> HIDE DEF r
<1>5. \/ Negative(v) = {} /\ Goes(v, AfterBatch(v))
      \/ Goes(v, r)
    BY DEF Check, Goes, r
<1>6. PICK s \in MoverStates : Goes(v, s) /\ (Negative(v) = {} \/ s = r)
    BY <1>1, <1>4, <1>5, NextStateTypes
<1>7. mover'[v] = s
    BY <1>1, <1>6, GoesType
<1>8. ASSUME NEW b \in 1 .. Batches, NEW c \in Classes, OwesToken(v, b, c), tokens[b][c] < 0
      PROVE  OwesToken(v, b, c)'
    <2>1. b = q.batch /\ c = q.class
        BY <1>8 DEF OwesToken
    <2>2. s = r /\ "token" \in r.low
        BY <1>3, <1>4, <1>6, <1>8, <2>1
    <2> QED
        BY <1>4, <1>7, <2>1, <2>2 DEF OwesToken
<1>9. ASSUME NEW c \in Classes, OwesTotal(v, c), learns[c] < 0
      PROVE  OwesTotal(v, c)'
    <2>1. c = q.class
        BY <1>9 DEF OwesTotal
    <2>2. s = r /\ "total" \in r.low
        BY <1>3, <1>4, <1>6, <1>9, <2>1
    <2> QED
        BY <1>4, <1>7, <2>1, <2>2 DEF OwesTotal
<1> HIDE DEF q
<1>10. ASSUME TokensOwed PROVE TokensOwed'
    <2> SUFFICES ASSUME NEW b \in 1 .. Batches, NEW c \in Classes, tokens[b][c] < 0
                 PROVE  \E w \in Movers : OwesToken(w, b, c)'
        BY <1>2 DEF TokensOwed
    <2>1. PICK w \in Movers : OwesToken(w, b, c)
        BY <1>10 DEF TokensOwed
    <2> QED
        BY <1>1, <1>6, <1>8, <2>1, DebtsStay
<1>11. ASSUME TotalsOwed PROVE TotalsOwed'
    <2> SUFFICES ASSUME NEW c \in Classes, learns[c] < 0
                 PROVE  \E w \in Movers : OwesTotal(w, c)'
        BY <1>2 DEF TotalsOwed
    <2>1. PICK w \in Movers : OwesTotal(w, c)
        BY <1>11 DEF TotalsOwed
    <2> QED
        BY <1>1, <1>6, <1>9, <2>1, DebtsStay
<1> QED
    BY <1>2, <1>10, <1>11 DEF FloorInv

\* Floor lets go of its debts where it writes the zero.
LEMMA FloorFloors ==
    ASSUME FloorInv, NEW v \in Movers, Floor(v)
    PROVE  (failed \/ (TokensOwed /\ TotalsOwed))'
<1> DEFINE q == mover[v]
<1>1. TrainingTypeOK /\ q \in MoverStates /\ q.at = "flooring" /\ failed' = failed
    BY MoverType DEF FloorInv, Floor
<1>2. PICK s \in MoverStates : Goes(v, s)
    BY <1>1, NextStateTypes DEF Floor, Goes
<1>3. q.batch \in 1 .. Batches /\ q.class \in Classes
    BY <1>1 DEF MoverStates
<1>4. ASSUME NEW b \in 1 .. Batches, NEW c \in Classes, tokens'[b][c] < 0
      PROVE  tokens[b][c] < 0 /\ ~OwesToken(v, b, c)
    <2>1. tokens \in [1 .. Batches -> [Classes -> Int]]
        BY <1>1 DEF TrainingTypeOK
    <2>2. tokens' = IF "token" \in q.low THEN [tokens EXCEPT ![q.batch][q.class] = 0] ELSE tokens
        BY DEF Floor
    <2>3. CASE "token" \in q.low
        <3>1. b # q.batch \/ c # q.class
            BY <1>3, <1>4, <2>1, <2>2, <2>3
        <3>2. tokens'[b][c] = tokens[b][c]
            BY <1>3, <2>1, <2>2, <2>3, <3>1
        <3> QED
            BY <1>4, <3>1, <3>2 DEF OwesToken
    <2>4. CASE "token" \notin q.low
        BY <1>1, <1>4, <2>2, <2>4 DEF OwesToken
    <2> QED
        BY <2>3, <2>4
<1>5. ASSUME NEW c \in Classes, learns'[c] < 0
      PROVE  learns[c] < 0 /\ ~OwesTotal(v, c)
    <2>1. learns \in [Classes -> Int]
        BY <1>1 DEF TrainingTypeOK
    <2>2. learns' = IF "total" \in q.low THEN [learns EXCEPT ![q.class] = 0] ELSE learns
        BY DEF Floor
    <2>3. CASE "total" \in q.low
        BY <1>3, <1>5, <2>1, <2>2, <2>3 DEF OwesTotal
    <2>4. CASE "total" \notin q.low
        BY <1>1, <1>5, <2>2, <2>4 DEF OwesTotal
    <2> QED
        BY <2>3, <2>4
<1>6. ASSUME TokensOwed PROVE TokensOwed'
    <2> SUFFICES ASSUME NEW b \in 1 .. Batches, NEW c \in Classes, tokens'[b][c] < 0
                 PROVE  \E w \in Movers : OwesToken(w, b, c)'
        BY DEF TokensOwed
    <2>1. PICK w \in Movers : OwesToken(w, b, c)
        BY <1>4, <1>6 DEF TokensOwed
    <2>2. w # v
        BY <1>4, <2>1
    <2> QED
        BY <1>1, <1>2, <2>1, <2>2, DebtsStay
<1>7. ASSUME TotalsOwed PROVE TotalsOwed'
    <2> SUFFICES ASSUME NEW c \in Classes, learns'[c] < 0
                 PROVE  \E w \in Movers : OwesTotal(w, c)'
        BY DEF TotalsOwed
    <2>1. PICK w \in Movers : OwesTotal(w, c)
        BY <1>5, <1>7 DEF TotalsOwed
    <2>2. w # v
        BY <1>5, <2>1
    <2> QED
        BY <1>1, <1>2, <2>1, <2>2, DebtsStay
<1> QED
    BY <1>1, <1>6, <1>7 DEF FloorInv

LEMMA FloorStep ==
    ASSUME FloorInv, [TrainingNext]_trainingVars
    PROVE  FloorInv'
<1>1. TrainingTypeOK'
    BY TrainingTypeStep DEF FloorInv
<1>2. ASSUME UNCHANGED <<tokens, learns, failed, mover>>
      PROVE  (failed \/ (TokensOwed /\ TotalsOwed))'
    BY <1>2 DEF FloorInv, TokensOwed, TotalsOwed, OwesToken, OwesTotal
<1>3. ASSUME NEW v \in Movers, MoverStep(v), mover[v].at \notin {"checking", "flooring"},
             ~Count(v), ~RedisFails(v)
      PROVE  (failed \/ (TokensOwed /\ TotalsOwed))'
    <2>1. UNCHANGED <<tokens, learns, failed>>
        BY <1>3 DEF MoverStep, ReadFolder, CommitMove, Mark, Check, Floor, Unmark
    <2> QED
        BY <1>3, <2>1, MoverStepType, DebtlessStep DEF FloorInv
<1>4. ASSUME NEW v \in Movers, RedisFails(v)
      PROVE  (failed \/ (TokensOwed /\ TotalsOwed))'
    BY <1>4 DEF RedisFails
<1>5. ASSUME NEW v \in Movers, MoverStep(v)
      PROVE  (failed \/ (TokensOwed /\ TotalsOwed))'
    <2>1. \/ Count(v) \/ Check(v) \/ Floor(v) \/ RedisFails(v)
          \/ mover[v].at \notin {"checking", "flooring"}
        BY <1>5 DEF MoverStep, ReadFolder, CommitMove, Mark, Unmark
    <2> QED
        BY <1>3, <1>4, <1>5, <2>1, CountFloors, CheckFloors, FloorFloors
<1>6. UNCHANGED trainingVars \/ (\E m \in MovedMail : Arrive(m)) => UNCHANGED <<tokens, learns, failed, mover>>
    BY DEF trainingVars, Arrive
<1> QED
    BY <1>1, <1>2, <1>5, <1>6 DEF TrainingNext, MoverStep, FloorInv

\* "Counts floor at 0" (store.go): however the increments, reads and writes of
\* the requests fall between each other, as long as no call failed no count is
\* negative once the requests are done.  Any number of messages, requests,
\* batches and moves.
THEOREM CountsFloor == TrainingSpec => []CountsFloorAtZero
<1>1. TrainingInit => FloorInv
    BY TrainingTypeInit DEF TrainingInit, FloorInv, TokensOwed, TotalsOwed
<1>2. FloorInv /\ [TrainingNext]_trainingVars => FloorInv'
    BY FloorStep
<1>3. FloorInv => CountsFloorAtZero
    <2> SUFFICES ASSUME FloorInv, Trained, ~failed
                 PROVE  \A c \in Classes : learns[c] >= 0
                            /\ \A b \in 1 .. Batches : tokens[b][c] >= 0
        BY DEF CountsFloorAtZero
    <2>1. \A v \in Movers, b \in 1 .. Batches, c \in Classes :
              ~OwesToken(v, b, c) /\ ~OwesTotal(v, c)
        BY DEF Trained, OwesToken, OwesTotal
    <2>2. 1 \in 1 .. Batches
        BY TrainingAssumption
    <2>3. \A b \in 1 .. Batches, c \in Classes : tokens[b][c] \in Int /\ learns[c] \in Int
        BY DEF FloorInv, TrainingTypeOK
    <2> QED
        BY <2>1, <2>2, <2>3 DEF FloorInv, TokensOwed, TotalsOwed
<1> QED
    BY <1>1, <1>2, <1>3, PTL DEF TrainingSpec

-----------------------------------------------------------------------------
(* The directory of domains, aliases and forwarding rules.                  *)

DomainRecords == [state : {"live"}, workspace : Workspaces, verified : BOOLEAN]
AliasRecords == [state : {"live", "gone"}, box : HostedBoxes, row : DomainRows]
RuleRecords == [state : {"live"}, alias : Aliases, destination : Destinations]

\* The requests by the fields they have.
DomainRequests == [op : {"provision", "insert domain"}, row : DomainRows, workspace : Workspaces]
RefreshRequests == [op : {"refresh"}, row : DomainRows, workspace : Workspaces]
SaveRequests ==
    [op : {"save"}, row : DomainRows, workspace : Workspaces, verified : BOOLEAN]
DeleteRequests == [op : {"count aliases", "delete identity", "delete domain"}, row : DomainRows]
AliasRequests ==
    [op : {"insert alias"}, alias : Aliases, box : HostedBoxes, row : DomainRows]
DeleteAliasRequests == [op : {"delete alias"}, alias : Aliases]
RuleRequests ==
    [op : {"insert rule"}, rule : Rules, alias : Aliases, destination : Destinations]

LEMMA RequestKinds ==
    /\ Requests = {NoAsk} \cup DomainRequests \cup RefreshRequests \cup SaveRequests
                  \cup DeleteRequests \cup AliasRequests \cup DeleteAliasRequests
                  \cup RuleRequests
    /\ NoAsk.op = "none"
    /\ \A q \in DomainRequests : q.op \in {"provision", "insert domain"}
    /\ \A q \in RefreshRequests : q.op = "refresh"
    /\ \A q \in SaveRequests : q.op = "save"
    /\ \A q \in DeleteRequests : q.op \in {"count aliases", "delete identity", "delete domain"}
    /\ \A q \in AliasRequests : q.op = "insert alias"
    /\ \A q \in DeleteAliasRequests : q.op = "delete alias"
    /\ \A q \in RuleRequests : q.op = "insert rule"
<1>1. Requests = {NoAsk} \cup DomainRequests \cup RefreshRequests \cup SaveRequests
                 \cup DeleteRequests \cup AliasRequests \cup DeleteAliasRequests
                 \cup RuleRequests
    BY DEF Requests, DomainRequests, RefreshRequests, SaveRequests, DeleteRequests,
        AliasRequests, DeleteAliasRequests, RuleRequests
<1>2. NoAsk.op = "none"
    BY DEF NoAsk
<1>3. \A q \in DomainRequests : q.op \in {"provision", "insert domain"}
    BY DEF DomainRequests
<1>4. \A q \in RefreshRequests : q.op = "refresh"
    BY DEF RefreshRequests
<1>5. \A q \in SaveRequests : q.op = "save"
    BY DEF SaveRequests
<1>6. \A q \in DeleteRequests : q.op \in {"count aliases", "delete identity", "delete domain"}
    BY DEF DeleteRequests
<1>7. \A q \in AliasRequests : q.op = "insert alias"
    BY DEF AliasRequests
<1>8. \A q \in DeleteAliasRequests : q.op = "delete alias"
    BY DEF DeleteAliasRequests
<1>9. \A q \in RuleRequests : q.op = "insert rule"
    BY DEF RuleRequests
<1> QED
    BY <1>1, <1>2, <1>3, <1>4, <1>5, <1>6, <1>7, <1>8, <1>9

\* The set a request is in, by its operation.
LEMMA RequestKind ==
    ASSUME DirectoryTypeOK, NEW c \in Callers
    PROVE  /\ asking[c].op \in {"provision", "insert domain"} => asking[c] \in DomainRequests
           /\ asking[c].op = "refresh" => asking[c] \in RefreshRequests
           /\ asking[c].op = "save" => asking[c] \in SaveRequests
           /\ asking[c].op \in {"count aliases", "delete identity", "delete domain"} =>
                  asking[c] \in DeleteRequests
           /\ asking[c].op = "insert alias" => asking[c] \in AliasRequests
           /\ asking[c].op = "delete alias" => asking[c] \in DeleteAliasRequests
           /\ asking[c].op = "insert rule" => asking[c] \in RuleRequests
<1>1. asking[c] \in Requests
    BY DEF DirectoryTypeOK
<1> QED
    BY <1>1, RequestKinds

\* What a request carries.
LEMMA RequestFields ==
    ASSUME DirectoryTypeOK, NEW c \in Callers
    PROVE  /\ asking[c].op \in {"provision", "insert domain", "refresh", "save"} =>
                  asking[c].row \in DomainRows /\ asking[c].workspace \in Workspaces
           /\ asking[c].op = "save" => asking[c].verified \in BOOLEAN
           /\ asking[c].op \in {"count aliases", "delete identity", "delete domain"} =>
                  asking[c].row \in DomainRows
           /\ asking[c].op = "insert alias" =>
                  /\ asking[c].alias \in Aliases /\ asking[c].box \in HostedBoxes
                  /\ asking[c].row \in DomainRows
           /\ asking[c].op = "delete alias" => asking[c].alias \in Aliases
           /\ asking[c].op = "insert rule" =>
                  /\ asking[c].rule \in Rules /\ asking[c].alias \in Aliases
                  /\ asking[c].destination \in Destinations
<1>1. \A q \in DomainRequests : q.row \in DomainRows /\ q.workspace \in Workspaces
    BY DEF DomainRequests
<1>2. \A q \in RefreshRequests : q.row \in DomainRows /\ q.workspace \in Workspaces
    BY DEF RefreshRequests
<1>3. \A q \in SaveRequests :
          q.row \in DomainRows /\ q.workspace \in Workspaces /\ q.verified \in BOOLEAN
    BY DEF SaveRequests
<1>4. \A q \in DeleteRequests : q.row \in DomainRows
    BY DEF DeleteRequests
<1>5. \A q \in AliasRequests :
          q.alias \in Aliases /\ q.box \in HostedBoxes /\ q.row \in DomainRows
    BY DEF AliasRequests
<1>6. \A q \in DeleteAliasRequests : q.alias \in Aliases
    BY DEF DeleteAliasRequests
<1>7. \A q \in RuleRequests :
          q.rule \in Rules /\ q.alias \in Aliases /\ q.destination \in Destinations
    BY DEF RuleRequests
<1> QED
    BY <1>1, <1>2, <1>3, <1>4, <1>5, <1>6, <1>7, RequestKind

\* The requests that the steps make.
LEMMA MakesRequests ==
    /\ \A d \in DomainRows, w \in Workspaces :
           /\ [op |-> "refresh", row |-> d, workspace |-> w] \in Requests
           /\ [op |-> "provision", row |-> d, workspace |-> w] \in Requests
    /\ \A d \in DomainRows, w \in Workspaces, v \in BOOLEAN :
           [op |-> "save", row |-> d, workspace |-> w, verified |-> v] \in Requests
    /\ \A d \in DomainRows : [op |-> "count aliases", row |-> d] \in Requests
    /\ \A a \in Aliases, b \in HostedBoxes, d \in DomainRows :
           [op |-> "insert alias", alias |-> a, box |-> b, row |-> d] \in Requests
    /\ \A a \in Aliases : [op |-> "delete alias", alias |-> a] \in Requests
    /\ \A r \in Rules, a \in Aliases, to \in Destinations :
           [op |-> "insert rule", rule |-> r, alias |-> a, destination |-> to] \in Requests
<1>1. \A d \in DomainRows, w \in Workspaces :
          /\ [op |-> "refresh", row |-> d, workspace |-> w] \in RefreshRequests
          /\ [op |-> "provision", row |-> d, workspace |-> w] \in DomainRequests
    BY DEF RefreshRequests, DomainRequests
<1>2. \A d \in DomainRows, w \in Workspaces, v \in BOOLEAN :
          [op |-> "save", row |-> d, workspace |-> w, verified |-> v] \in SaveRequests
    BY DEF SaveRequests
<1>3. \A d \in DomainRows : [op |-> "count aliases", row |-> d] \in DeleteRequests
    BY DEF DeleteRequests
<1>4. \A a \in Aliases, b \in HostedBoxes, d \in DomainRows :
          [op |-> "insert alias", alias |-> a, box |-> b, row |-> d] \in AliasRequests
    BY DEF AliasRequests
<1>5. \A a \in Aliases : [op |-> "delete alias", alias |-> a] \in DeleteAliasRequests
    BY DEF DeleteAliasRequests
<1>6. \A r \in Rules, a \in Aliases, to \in Destinations :
          [op |-> "insert rule", rule |-> r, alias |-> a, destination |-> to] \in RuleRequests
    BY DEF RuleRequests
<1> QED
    BY <1>1, <1>2, <1>3, <1>4, <1>5, <1>6, RequestKinds

LEMMA NextRequests ==
    ASSUME DirectoryTypeOK, NEW c \in Callers
    PROVE  /\ asking[c].op = "provision" =>
                  /\ [asking[c] EXCEPT !.op = "insert domain"] \in Requests
                  /\ [asking[c] EXCEPT !.op = "insert domain"].op = "insert domain"
           /\ asking[c].op = "count aliases" =>
                  /\ [asking[c] EXCEPT !.op = "delete identity"] \in Requests
                  /\ [asking[c] EXCEPT !.op = "delete identity"].op = "delete identity"
                  /\ [asking[c] EXCEPT !.op = "delete identity"].row = asking[c].row
           /\ asking[c].op = "delete identity" =>
                  /\ [asking[c] EXCEPT !.op = "delete domain"] \in Requests
                  /\ [asking[c] EXCEPT !.op = "delete domain"].op = "delete domain"
                  /\ [asking[c] EXCEPT !.op = "delete domain"].row = asking[c].row
<1>1. ASSUME NEW q \in DomainRequests
      PROVE  /\ [q EXCEPT !.op = "insert domain"] \in DomainRequests
             /\ [q EXCEPT !.op = "insert domain"].op = "insert domain"
    BY DEF DomainRequests
<1>2. ASSUME NEW q \in DeleteRequests, NEW o \in {"delete identity", "delete domain"}
      PROVE  /\ [q EXCEPT !.op = o] \in DeleteRequests /\ [q EXCEPT !.op = o].op = o
             /\ [q EXCEPT !.op = o].row = q.row
    BY DEF DeleteRequests
<1>3. DomainRequests \subseteq Requests /\ DeleteRequests \subseteq Requests
    BY RequestKinds
<1> QED
    BY <1>1, <1>2, <1>3, RequestKind

LEMMA GoType ==
    ASSUME DirectoryTypeOK, NEW c \in Callers, NEW q \in Requests, Go(c, q)
    PROVE  /\ asking' \in [Callers -> Requests]
           /\ asking'[c] = q
           /\ \A x \in Callers \ {c} : asking'[x] = asking[x]
BY DEF Go, DirectoryTypeOK

LEMMA ReplyGoes ==
    /\ NoAsk \in Requests /\ NoAsk.op = "none"
    /\ \A c : Reply(c) <=> Go(c, NoAsk)
BY RequestKinds DEF Reply, Go

\* The rows that are there.
LEMMA PresentRows ==
    ASSUME DirectoryTypeOK
    PROVE  /\ Present(domain) = {d \in DomainRows : domain[d].state = "live"}
           /\ Present(alias) = {a \in Aliases : alias[a].state = "live"}
           /\ Present(rule) = {r \in Rules : rule[r].state = "live"}
           /\ \A d \in Present(domain) : domain[d] \in DomainRecords
           /\ \A a \in Present(alias) : alias[a] \in AliasRecords
           /\ \A r \in Present(rule) : rule[r] \in RuleRecords
<1>1. /\ \A d \in DomainRows : domain[d] \in {New, Gone} \cup DomainRecords
      /\ \A a \in Aliases : alias[a] \in {New} \cup AliasRecords
      /\ \A r \in Rules : rule[r] \in {New, Gone} \cup RuleRecords
    BY DEF DirectoryTypeOK, DomainTable, AliasTable, RuleTable, DomainRecords, AliasRecords,
        RuleRecords
<1>2. New.state # "live" /\ Gone.state # "live"
    BY DEF New, Gone
<1>3. DOMAIN domain = DomainRows /\ DOMAIN alias = Aliases /\ DOMAIN rule = Rules
    BY DEF DirectoryTypeOK, DomainTable, AliasTable, RuleTable
<1>4. /\ Present(domain) = {d \in DomainRows : domain[d].state = "live"}
      /\ Present(alias) = {a \in Aliases : alias[a].state = "live"}
      /\ Present(rule) = {r \in Rules : rule[r].state = "live"}
    BY <1>3 DEF Present
<1> QED
    BY <1>1, <1>2, <1>4

-----------------------------------------------------------------------------
\* One step of a caller's request; the steps that only read leave the tables.
CallerStep(c) ==
    \/ \E w \in Workspaces : AskDomain(c, w)
    \/ Provision(c) \/ InsertDomain(c) \/ GetIdentity(c) \/ SaveDomain(c)
    \/ \E d \in DomainRows : AskRefresh(c, d) \/ AskDeleteDomain(c, d)
    \/ CountAliases(c) \/ DeleteIdentity(c) \/ DeleteDomain(c)
    \/ \E b \in HostedBoxes, a \in Aliases : AskAlias(c, b, a)
    \/ \E a \in Aliases : AskDeleteAlias(c, a)
    \/ InsertAlias(c) \/ DeleteAlias(c) \/ InsertRule(c)
    \/ \E r \in Rules, a \in Aliases, to \in Destinations : AskRule(c, r, a, to)

Writes(c) ==
    InsertDomain(c) \/ SaveDomain(c) \/ DeleteDomain(c) \/ InsertAlias(c) \/ DeleteAlias(c)
    \/ InsertRule(c)

\* DeleteAlias, whether the row is there or not.
LEMMA AliasGoes ==
    ASSUME DirectoryTypeOK, NEW c \in Callers, DeleteAlias(c)
    PROVE  LET a == asking[c].alias
           IN  /\ alias'[a].state # "live"
               /\ alias[a].state # "new" => alias'[a].state # "new" /\ alias'[a].box = alias[a].box
               /\ \A b \in Aliases \ {a} : alias'[b] = alias[b]
<1> DEFINE a == asking[c].alias
<1>1. a \in Aliases /\ alias \in [Aliases -> {New} \cup AliasRecords]
    BY RequestFields DEF DeleteAlias, DirectoryTypeOK, AliasTable, AliasRecords
<1>2. CASE a \in Present(alias)
    <2>1. alias' = [alias EXCEPT ![a].state = "gone"] /\ alias[a] \in AliasRecords
        BY <1>2, PresentRows DEF DeleteAlias
    <2>2. alias'[a] = [alias[a] EXCEPT !.state = "gone"]
        BY <1>1, <2>1
    <2>3. alias'[a].state = "gone" /\ alias'[a].box = alias[a].box
        BY <2>1, <2>2 DEF AliasRecords
    <2> QED
        BY <1>1, <2>1, <2>3
<1>3. CASE a \notin Present(alias)
    <2>1. alias' = alias /\ alias[a].state # "live"
        BY <1>1, <1>3, PresentRows DEF DeleteAlias
    <2> QED
        BY <2>1
<1> QED
    BY <1>2, <1>3

\* What a request that reads goes on with: only one that has counted goes on to
\* delete.
UnusedDomain(d) ==
    \A a \in Aliases : alias[a].state = "live" /\ alias[a].row = d => a \in insertedLate

UnusedAlias(b) ==
    \A r \in Rules : rule[r].state = "live" /\ rule[r].alias = b => r \in insertedLate

CountStands(q) ==
    /\ q.op \in {"delete identity", "delete domain"} => UnusedDomain(q.row)
    /\ q.op = "delete alias" => UnusedAlias(q.alias)

Going == \A c \in Callers : CountStands(asking[c])

LEMMA CallerGoes ==
    ASSUME DirectoryTypeOK, Going, NEW c \in Callers, CallerStep(c), ~Writes(c)
    PROVE  \E q \in Requests : Go(c, q) /\ CountStands(q)
<1> DEFINE Ok(q) == q \in Requests /\ Go(c, q) /\ CountStands(q)
<1>reads. \A q : q.op \notin {"delete identity", "delete domain", "delete alias"} => CountStands(q)
    BY DEF CountStands
<1>0. /\ NoAsk \in Requests /\ CountStands(NoAsk)
      /\ Reply(c) => Go(c, NoAsk)
    BY <1>reads, ReplyGoes
<1>1. ASSUME NEW w \in Workspaces, AskDomain(c, w) PROVE \E q : Ok(q)
    <2>1. CASE \E d \in RowsOf(w) : Go(c, [op |-> "refresh", row |-> d, workspace |-> w])
        <3>1. PICK d \in RowsOf(w) : Go(c, [op |-> "refresh", row |-> d, workspace |-> w])
            BY <2>1
        <3>2. d \in DomainRows
            BY PresentRows DEF RowsOf
        <3> QED
            BY <1>reads, <3>1, <3>2, MakesRequests
    <2>2. CASE \E d \in DomainRows : Go(c, [op |-> "provision", row |-> d, workspace |-> w])
        BY <1>reads, <2>2, MakesRequests
    <2> QED
        BY <1>1, <2>1, <2>2 DEF AskDomain
<1>2. ASSUME Provision(c) PROVE \E q : Ok(q)
    <2>1. CountStands([asking[c] EXCEPT !.op = "insert domain"])
        BY <1>2, NextRequests DEF Provision, CountStands
    <2> QED
        BY <1>0, <1>2, <2>1, NextRequests DEF Provision
<1>3. ASSUME GetIdentity(c) PROVE \E q : Ok(q)
    <2> DEFINE q == [op |-> "save", row |-> asking[c].row, workspace |-> asking[c].workspace,
                     verified |-> identity = "verified"]
    <2>1. asking[c].row \in DomainRows /\ asking[c].workspace \in Workspaces
        BY <1>3, RequestFields DEF GetIdentity
    <2>2. q \in Requests
        BY <2>1, MakesRequests
    <2>3. CountStands(q)
        BY <1>reads
    <2>4. Reply(c) \/ Go(c, q)
        BY <1>3 DEF GetIdentity
    <2> QED
        BY <1>0, <2>2, <2>3, <2>4
<1>4. ASSUME NEW d \in DomainRows, AskRefresh(c, d) PROVE \E q : Ok(q)
    <2>1. domain[d].workspace \in Workspaces
        BY <1>4, PresentRows DEF AskRefresh, DomainRecords
    <2> QED
        BY <1>4, <1>reads, <2>1, MakesRequests DEF AskRefresh
<1>5. ASSUME NEW d \in DomainRows, AskDeleteDomain(c, d) PROVE \E q : Ok(q)
    BY <1>5, <1>reads, MakesRequests DEF AskDeleteDomain
<1>6. ASSUME CountAliases(c) PROVE \E q : Ok(q)
    <2> DEFINE q == [asking[c] EXCEPT !.op = "delete identity"]
    <2>1. q \in Requests /\ q.op = "delete identity" /\ q.row = asking[c].row
        BY <1>6, NextRequests DEF CountAliases
    <2> HIDE DEF q
    <2>2. CASE AliasesOn(asking[c].row) = {}
        <3>1. Go(c, q)
            BY <1>6, <2>2 DEF CountAliases, q
        <3> QED
            BY <2>1, <2>2, <3>1, PresentRows DEF CountStands, UnusedDomain, AliasesOn
    <2>3. CASE AliasesOn(asking[c].row) # {}
        BY <1>0, <1>6, <2>3 DEF CountAliases
    <2> QED
        BY <2>2, <2>3
<1>7. ASSUME DeleteIdentity(c) PROVE \E q : Ok(q)
    <2> DEFINE q == [asking[c] EXCEPT !.op = "delete domain"]
    <2>1. q \in Requests /\ q.op = "delete domain" /\ q.row = asking[c].row
        BY <1>7, NextRequests DEF DeleteIdentity
    <2>2. Go(c, q) \/ Reply(c)
        BY <1>7 DEF DeleteIdentity
    <2> HIDE DEF q
    <2>3. UnusedDomain(q.row)
        BY <1>7, <2>1 DEF Going, CountStands, DeleteIdentity
    <2> QED
        BY <1>0, <2>1, <2>2, <2>3 DEF CountStands
<1>8. ASSUME NEW b \in HostedBoxes, NEW a \in Aliases, AskAlias(c, b, a) PROVE \E q : Ok(q)
    <2>1. PICK d \in RowsOf(WorkspaceOf[b]) :
              Go(c, [op |-> "insert alias", alias |-> a, box |-> b, row |-> d])
        BY <1>8 DEF AskAlias
    <2>2. d \in DomainRows
        BY PresentRows DEF RowsOf
    <2> QED
        BY <1>reads, <2>1, <2>2, MakesRequests
<1>9. ASSUME NEW a \in Aliases, AskDeleteAlias(c, a) PROVE \E q : Ok(q)
    <2> DEFINE q == [op |-> "delete alias", alias |-> a]
    <2>1. q \in Requests /\ q.op = "delete alias" /\ q.alias = a
        BY MakesRequests
    <2>2. Go(c, q) /\ RulesOf(a) = {}
        BY <1>9 DEF AskDeleteAlias
    <2> HIDE DEF q
    <2> QED
        BY <2>1, <2>2, PresentRows DEF CountStands, UnusedAlias, RulesOf
<1>10. ASSUME NEW r \in Rules, NEW a \in Aliases, NEW to \in Destinations, AskRule(c, r, a, to)
       PROVE  \E q : Ok(q)
    BY <1>10, <1>reads, MakesRequests DEF AskRule
<1> QED
    BY <1>1, <1>2, <1>3, <1>4, <1>5, <1>6, <1>7, <1>8, <1>9, <1>10 DEF CallerStep, Writes

-----------------------------------------------------------------------------
\* What the writing steps make of the tables.
Tables(d, a, r) == domain' = d /\ alias' = a /\ rule' = r

LEMMA WritesType ==
    ASSUME DirectoryTypeOK, NEW c \in Callers, Writes(c)
    PROVE  /\ Go(c, NoAsk)
           /\ domain' \in DomainTable /\ alias' \in AliasTable /\ rule' \in RuleTable
           /\ insertedLate' \subseteq Aliases \cup Rules
           /\ UNCHANGED <<identity, arriving, sends>>
<1>1. /\ Reply(c) /\ UNCHANGED <<identity, arriving, sends>>
    BY DEF Writes, InsertDomain, SaveDomain, DeleteDomain, InsertAlias, DeleteAlias, InsertRule
<1>2. /\ Gone \in {New, Gone} \cup DomainRecords
      /\ domain \in [DomainRows -> {New, Gone} \cup DomainRecords]
      /\ alias \in [Aliases -> {New} \cup AliasRecords]
      /\ rule \in [Rules -> {New, Gone} \cup RuleRecords]
      /\ insertedLate \subseteq Aliases \cup Rules
    BY DEF DirectoryTypeOK, DomainTable, AliasTable, RuleTable, DomainRecords, AliasRecords,
        RuleRecords
<1>3. /\ domain' \in [DomainRows -> {New, Gone} \cup DomainRecords]
      /\ alias' \in [Aliases -> {New} \cup AliasRecords]
      /\ rule' \in [Rules -> {New, Gone} \cup RuleRecords]
      /\ insertedLate' \subseteq Aliases \cup Rules
    <2> DEFINE D == {New, Gone} \cup DomainRecords
               A == {New} \cup AliasRecords
               R == {New, Gone} \cup RuleRecords
    <2>1. \A w \in Workspaces, v \in BOOLEAN :
              [state |-> "live", workspace |-> w, verified |-> v] \in D
        BY DEF DomainRecords
    <2>2. \A b \in HostedBoxes, d \in DomainRows : [state |-> "live", box |-> b, row |-> d] \in A
        BY DEF AliasRecords
    <2>3. \A a \in Aliases, to \in Destinations :
              [state |-> "live", alias |-> a, destination |-> to] \in R
        BY DEF RuleRecords
    <2> HIDE DEF D, A, R
    <2>4. ASSUME InsertDomain(c)
          PROVE  domain' \in [DomainRows -> D] /\ UNCHANGED <<alias, rule, insertedLate>>
        <3>1. asking[c].row \in DomainRows /\ asking[c].workspace \in Workspaces
            BY <2>4, RequestFields DEF InsertDomain
        <3> QED
            BY <1>2, <2>1, <2>4, <3>1 DEF InsertDomain, D
    <2>5. ASSUME SaveDomain(c)
          PROVE  domain' \in [DomainRows -> D] /\ UNCHANGED <<alias, rule, insertedLate>>
        <3>1. /\ asking[c].row \in DomainRows /\ asking[c].workspace \in Workspaces
              /\ asking[c].verified \in BOOLEAN
            BY <2>5, RequestFields DEF SaveDomain
        <3>2. [state |-> "live", workspace |-> asking[c].workspace,
               verified |-> asking[c].verified] \in D
            BY <2>1, <3>1
        <3> QED
            BY <1>2, <2>5, <3>1, <3>2 DEF SaveDomain, D
    <2>6. ASSUME DeleteDomain(c)
          PROVE  domain' \in [DomainRows -> D] /\ UNCHANGED <<alias, rule, insertedLate>>
        BY <1>2, <2>6 DEF DeleteDomain, D
    <2>7. ASSUME InsertAlias(c)
          PROVE  /\ alias' \in [Aliases -> A] /\ insertedLate' \subseteq Aliases \cup Rules
                 /\ UNCHANGED <<domain, rule>>
        <3>1. /\ asking[c].alias \in Aliases /\ asking[c].box \in HostedBoxes
              /\ asking[c].row \in DomainRows
            BY <2>7, RequestFields DEF InsertAlias
        <3> DEFINE new == [state |-> "live", box |-> asking[c].box, row |-> asking[c].row]
        <3>2. new \in A
            BY <2>2, <3>1
        <3>3. /\ alias' = alias \/ alias' = [alias EXCEPT ![asking[c].alias] = new]
              /\ insertedLate' \subseteq insertedLate \cup {asking[c].alias}
              /\ UNCHANGED <<domain, rule>>
            BY <2>7 DEF InsertAlias
        <3> HIDE DEF new
        <3> QED
            BY <1>2, <3>1, <3>2, <3>3 DEF A
    <2>8. ASSUME DeleteAlias(c)
          PROVE  /\ alias' \in [Aliases -> A] /\ insertedLate' \subseteq Aliases \cup Rules
                 /\ UNCHANGED <<domain, rule>>
        <3> DEFINE a == asking[c].alias
        <3>1. CASE a \in Present(alias)
            <4>1. a \in Aliases /\ alias[a] \in AliasRecords
                BY <3>1, PresentRows
            <4>2. [alias[a] EXCEPT !.state = "gone"] \in A
                BY <4>1 DEF AliasRecords, A
            <4>3. alias' = [alias EXCEPT ![a] = [alias[a] EXCEPT !.state = "gone"]]
                BY <2>8, <3>1 DEF DeleteAlias
            <4> QED
                BY <1>2, <2>8, <4>1, <4>2, <4>3 DEF DeleteAlias, A
        <3>2. CASE a \notin Present(alias)
            BY <1>2, <2>8, <3>2 DEF DeleteAlias, A
        <3> QED
            BY <3>1, <3>2
    <2>9. ASSUME InsertRule(c)
          PROVE  /\ rule' \in [Rules -> R] /\ insertedLate' \subseteq Aliases \cup Rules
                 /\ UNCHANGED <<domain, alias>>
        <3>1. /\ asking[c].rule \in Rules /\ asking[c].alias \in Aliases
              /\ asking[c].destination \in Destinations
            BY <2>9, RequestFields DEF InsertRule
        <3> DEFINE new == [state |-> "live", alias |-> asking[c].alias,
                           destination |-> asking[c].destination]
        <3>2. new \in R
            BY <2>3, <3>1
        <3>3. /\ rule' = rule \/ rule' = [rule EXCEPT ![asking[c].rule] = new]
              /\ insertedLate' \subseteq insertedLate \cup {asking[c].rule}
              /\ UNCHANGED <<domain, alias>>
            BY <2>9 DEF InsertRule
        <3> HIDE DEF new
        <3> QED
            BY <1>2, <3>1, <3>2, <3>3 DEF R
    <2> QED
        BY <1>2, <2>4, <2>5, <2>6, <2>7, <2>8, <2>9 DEF Writes, D, A, R
<1> QED
    BY <1>1, <1>3, ReplyGoes
       DEF DomainTable, AliasTable, RuleTable, DomainRecords, AliasRecords, RuleRecords

\* A step that only asks leaves the tables and the mail.
LEMMA ReadsOnly ==
    ASSUME NEW c \in Callers, CallerStep(c), ~Writes(c)
    PROVE  UNCHANGED <<domain, alias, rule, arriving, sends, insertedLate>>
BY DEF CallerStep, Writes, AskDomain, Provision, GetIdentity, AskRefresh, AskDeleteDomain,
    CountAliases, DeleteIdentity, AskAlias, AskDeleteAlias, AskRule

LEMMA IdentityType ==
    ASSUME DirectoryTypeOK, NEW c \in Callers, CallerStep(c)
    PROVE  identity' \in Identities
<1>1. identity \in Identities
    BY DEF DirectoryTypeOK
<1>2. identity' = identity \/ identity' = "pending" \/ identity' = "absent"
    BY DEF CallerStep, AskDomain, Provision, InsertDomain, GetIdentity, SaveDomain, AskRefresh,
        AskDeleteDomain, CountAliases, DeleteIdentity, DeleteDomain, AskAlias, AskDeleteAlias,
        InsertAlias, DeleteAlias, InsertRule, AskRule
<1> QED
    BY <1>1, <1>2 DEF Identities

-----------------------------------------------------------------------------
\* Mail under way: the rules left to it are rules that were found.
Mails == [receipt : Receipts, box : HostedBoxes, left : SUBSET (Aliases \X Destinations)]
Counts == [Receipts -> [Aliases \X Destinations -> Nat]]

\* A copy starts nothing.
LEMMA CopiesEnd ==
    ASSUME NEW l, NEW b, NEW addresses
    PROVE  Received(l, b, addresses, TRUE) = {}
<1>1. RulesFor(addresses, TRUE) = {}
    BY DEF RulesFor
<1> QED
    BY <1>1 DEF Received

LEMMA ReceivedType ==
    ASSUME DirectoryTypeOK, NEW l \in Receipts, NEW b \in HostedBoxes, NEW addresses
    PROVE  \A m \in Received(l, b, addresses, FALSE) :
               m \in Mails /\ m.receipt = l
<1> DEFINE found == {<<rule[r].alias, rule[r].destination>> : r \in RulesFor(addresses, FALSE)}
<1>1. \A r \in RulesFor(addresses, FALSE) : r \in Present(rule)
    BY DEF RulesFor, RulesOf
<1>2. \A r \in Present(rule) : rule[r].alias \in Aliases /\ rule[r].destination \in Destinations
    BY PresentRows DEF RuleRecords
<1>3. found \subseteq Aliases \X Destinations
    <2>1. ASSUME NEW k \in found PROVE k \in Aliases \X Destinations
        <3>1. PICK r \in RulesFor(addresses, FALSE) : k = <<rule[r].alias, rule[r].destination>>
            BY <2>1
        <3> QED
            BY <1>1, <1>2, <3>1
    <2> QED
        BY <2>1
<1>4. Received(l, b, addresses, FALSE)
          \subseteq {[receipt |-> l, box |-> b, left |-> found]}
    BY DEF Received
<1> HIDE DEF found
<1>5. /\ [receipt |-> l, box |-> b, left |-> found] \in Mails
      /\ [receipt |-> l, box |-> b, left |-> found].receipt = l
    BY <1>3 DEF Mails
<1> QED
    BY <1>4, <1>5

\* What one rule of a message does.
LEMMA ForwardDoes ==
    ASSUME DirectoryTypeOK, NEW m \in arriving, NEW key \in m.left, Forward(m, key)
    PROVE  /\ m \in Mails /\ key \in Aliases \X Destinations
           /\ [m EXCEPT !.left = @ \ {key}] \in Mails
           /\ [m EXCEPT !.left = @ \ {key}].receipt = m.receipt
           /\ [m EXCEPT !.left = @ \ {key}].left = m.left \ {key}
           /\ arriving' \subseteq (arriving \ {m}) \cup {[m EXCEPT !.left = @ \ {key}]}
           /\ sends' = sends \/ sends' = [sends EXCEPT ![m.receipt][key] = @ + 1]
<1> DEFINE n == [m EXCEPT !.left = @ \ {key}]
           rest == (arriving \ {m}) \cup {x \in {n} : x.left # {}}
<1>1. m \in Mails
    BY DEF DirectoryTypeOK, Mails
<1>2. key \in Aliases \X Destinations
    BY <1>1 DEF Mails
<1>3. n \in Mails /\ n.receipt = m.receipt /\ n.left = m.left \ {key}
    BY <1>1 DEF Mails
<1>4. arriving' = rest
    BY CopiesEnd DEF Forward
<1>5. sends' = sends \/ sends' = [sends EXCEPT ![m.receipt][key] = @ + 1]
    BY DEF Forward
<1> QED
    BY <1>1, <1>2, <1>3, <1>4, <1>5

\* One more copy.
LEMMA CountsUp ==
    ASSUME NEW f \in Counts, NEW l \in Receipts, NEW k \in Aliases \X Destinations
    PROVE  /\ [f EXCEPT ![l][k] = @ + 1] \in Counts
           /\ [f EXCEPT ![l][k] = @ + 1][l][k] = f[l][k] + 1
           /\ \A x \in Receipts, y \in Aliases \X Destinations :
                  x # l \/ y # k => [f EXCEPT ![l][k] = @ + 1][x][y] = f[x][y]
<1> DEFINE K == Aliases \X Destinations
<1>1. f \in [Receipts -> [K -> Nat]] /\ k \in K
    BY DEF Counts
<1> HIDE DEF K
<1>2. [f[l] EXCEPT ![k] = @ + 1] \in [K -> Nat]
    BY <1>1
<1>3. [f EXCEPT ![l][k] = @ + 1] = [f EXCEPT ![l] = [f[l] EXCEPT ![k] = @ + 1]]
    BY <1>1
<1>4. [f EXCEPT ![l][k] = @ + 1] \in [Receipts -> [K -> Nat]]
    BY <1>1, <1>2, <1>3
<1>5. [f EXCEPT ![l][k] = @ + 1][l][k] = f[l][k] + 1
    BY <1>1, <1>3
<1>6. ASSUME NEW x \in Receipts, NEW y \in K, x # l \/ y # k
      PROVE  [f EXCEPT ![l][k] = @ + 1][x][y] = f[x][y]
    BY <1>1, <1>6
<1> QED
    BY <1>4, <1>5, <1>6 DEF Counts, K

LEMMA DirectoryTypeStep ==
    ASSUME DirectoryTypeOK, Going, [DirectoryNext]_directoryVars
    PROVE  DirectoryTypeOK'
<1>1. ASSUME UNCHANGED directoryVars PROVE DirectoryTypeOK'
    BY <1>1 DEF directoryVars, DirectoryTypeOK
<1>2. ASSUME NEW c \in Callers, CallerStep(c) PROVE DirectoryTypeOK'
    <2>1. identity' \in Identities
        BY <1>2, IdentityType
    <2>2. CASE Writes(c)
        BY <2>1, <2>2, WritesType, GoType, ReplyGoes DEF DirectoryTypeOK
    <2>3. CASE ~Writes(c)
        <3>1. asking' \in [Callers -> Requests]
            BY <1>2, <2>3, CallerGoes, GoType
        <3> QED
            BY <1>2, <2>1, <2>3, <3>1, ReadsOnly DEF DirectoryTypeOK
    <2> QED
        BY <2>2, <2>3
<1>3. ASSUME Verify PROVE DirectoryTypeOK'
    BY <1>3 DEF Verify, DirectoryTypeOK, Identities
<1>4. ASSUME NEW r \in Rules, DeleteRule(r) PROVE DirectoryTypeOK'
    <2>1. rule' \in RuleTable
        BY <1>4 DEF DeleteRule, DirectoryTypeOK, RuleTable
    <2> QED
        BY <1>4, <2>1 DEF DeleteRule, DirectoryTypeOK
<1>5. ASSUME NEW l \in Receipts, NEW b \in HostedBoxes, Receive(l, b) PROVE DirectoryTypeOK'
    <2>1. PICK addresses : arriving' = arriving \cup Received(l, b, addresses, FALSE)
        BY <1>5 DEF Receive
    <2>2. arriving' \subseteq Mails
        BY <2>1, ReceivedType DEF DirectoryTypeOK, Mails
    <2> QED
        BY <1>5, <2>2 DEF Receive, DirectoryTypeOK, Mails
<1>6. ASSUME NEW m \in arriving, Leave(m) PROVE DirectoryTypeOK'
    BY <1>6 DEF Leave, DirectoryTypeOK
<1>7. ASSUME NEW m \in arriving, NEW key \in m.left, Forward(m, key) PROVE DirectoryTypeOK'
    <2>1. arriving' \subseteq Mails
        <3> DEFINE n == [m EXCEPT !.left = @ \ {key}]
        <3>1. n \in Mails /\ arriving' \subseteq (arriving \ {m}) \cup {n}
            BY <1>7, ForwardDoes
        <3>2. arriving \subseteq Mails
            BY DEF DirectoryTypeOK, Mails
        <3> HIDE DEF n
        <3> QED
            BY <3>1, <3>2
    <2>2. m.receipt \in Receipts /\ key \in Aliases \X Destinations
        BY <1>7, ForwardDoes DEF Mails
    <2>3. sends \in Counts
        BY DEF DirectoryTypeOK, Counts
    <2>4. sends' \in Counts
        <3>1. sends' = sends \/ sends' = [sends EXCEPT ![m.receipt][key] = @ + 1]
            BY <1>7, ForwardDoes
        <3> QED
            BY <2>2, <2>3, <3>1, CountsUp
    <2> QED
        BY <1>7, <2>1, <2>4 DEF Forward, DirectoryTypeOK, Mails, Counts
<1> QED
    BY <1>1, <1>2, <1>3, <1>4, <1>5, <1>6, <1>7 DEF DirectoryNext, CallerStep

-----------------------------------------------------------------------------
\* NothingDangles, of the rows themselves.
Named ==
    /\ \A a \in Aliases : alias[a].state = "live" /\ a \notin insertedLate =>
           domain[alias[a].row].state = "live"
    /\ \A r \in Rules : rule[r].state = "live" /\ r \notin insertedLate =>
           alias[rule[r].alias].state = "live"

DangleInv == DirectoryTypeOK /\ Going /\ Named

\* The requests of the other callers are the same; what they have counted is
\* still so if no alias or rule came that is not marked late.
LEMMA GoingStays ==
    ASSUME DirectoryTypeOK, Going, NEW c \in Callers, NEW q \in Requests, Go(c, q), CountStands(q)',
           \A d \in DomainsGoing : UnusedDomain(d)',
           \A b \in AliasesGoing : UnusedAlias(b)'
    PROVE  Going'
<1>1. asking'[c] = q /\ \A x \in Callers \ {c} : asking'[x] = asking[x]
    BY GoType
<1>2. ASSUME NEW x \in Callers \ {c}
      PROVE  /\ asking[x].op \in {"delete identity", "delete domain"} =>
                    UnusedDomain(asking[x].row)'
             /\ asking[x].op = "delete alias" => UnusedAlias(asking[x].alias)'
    <2>1. asking[x].op \in {"delete identity", "delete domain"} => asking[x].row \in DomainsGoing
        BY DEF DomainsGoing
    <2>2. asking[x].op = "delete alias" => asking[x].alias \in AliasesGoing
        BY DEF AliasesGoing
    <2> QED
        BY <1>1, <2>1, <2>2 DEF UnusedDomain, UnusedAlias
<1> QED
    BY <1>1, <1>2 DEF Going, CountStands, UnusedDomain, UnusedAlias

\* A step that adds a domain row, or one of the requests that only read.
LEMMA DomainsKept ==
    ASSUME DangleInv, UNCHANGED <<alias, rule, insertedLate>>,
           \A d \in DomainRows : domain[d].state = "live" => domain'[d].state = "live"
    PROVE  /\ Named'
           /\ \A d : UnusedDomain(d) => UnusedDomain(d)'
           /\ \A b : UnusedAlias(b) => UnusedAlias(b)'
<1>1. \A a \in Aliases : alias[a].state = "live" => alias[a].row \in DomainRows
    BY PresentRows DEF DangleInv, AliasRecords
<1>2. Named'
    BY <1>1 DEF DangleInv, Named
<1> QED
    BY <1>2 DEF UnusedDomain, UnusedAlias

\* What is going away has been counted.
LEMMA GoingIsUnused ==
    ASSUME Going
    PROVE  /\ \A d \in DomainsGoing : UnusedDomain(d)
           /\ \A b \in AliasesGoing : UnusedAlias(b)
<1>1. ASSUME NEW d \in DomainsGoing PROVE UnusedDomain(d)
    <2>1. PICK x \in Callers : /\ asking[x].op \in {"delete identity", "delete domain"}
                               /\ d = asking[x].row
        BY <1>1 DEF DomainsGoing
    <2> QED
        BY <2>1 DEF Going, CountStands
<1>2. ASSUME NEW b \in AliasesGoing PROVE UnusedAlias(b)
    <2>1. PICK x \in Callers : asking[x].op = "delete alias" /\ b = asking[x].alias
        BY <1>2 DEF AliasesGoing
    <2> QED
        BY <2>1 DEF Going, CountStands
<1> QED
    BY <1>1, <1>2

\* The three facts that a writing step has to keep.
Kept ==
    /\ Named'
    /\ \A d \in DomainsGoing : UnusedDomain(d)'
    /\ \A b \in AliasesGoing : UnusedAlias(b)'

LEMMA DomainWritesKeep ==
    ASSUME DangleInv, NEW c \in Callers, InsertDomain(c) \/ SaveDomain(c) \/ DeleteDomain(c)
    PROVE  Kept
<1>1. DirectoryTypeOK /\ Going
    BY DEF DangleInv
<1>2. UNCHANGED <<alias, rule, insertedLate>>
    BY DEF InsertDomain, SaveDomain, DeleteDomain
<1>3. domain \in [DomainRows -> {New, Gone} \cup DomainRecords]
    BY <1>1 DEF DirectoryTypeOK, DomainTable, DomainRecords
<1>4. ASSUME InsertDomain(c) \/ SaveDomain(c) PROVE Kept
    <2>1. \A d \in DomainRows : domain[d].state = "live" => domain'[d].state = "live"
        <3>1. PICK new : /\ new.state = "live"
                         /\ domain' = domain \/ domain' = [domain EXCEPT ![asking[c].row] = new]
            <4>1. \A w, v : [state |-> "live", workspace |-> w, verified |-> v].state = "live"
                OBVIOUS
            <4>2. \/ domain' = domain
                  \/ \E w, v : domain' = [domain EXCEPT ![asking[c].row] =
                                      [state |-> "live", workspace |-> w, verified |-> v]]
                BY <1>4 DEF InsertDomain, SaveDomain
            <4> QED
                BY <4>1, <4>2
        <3> QED
            BY <1>3, <3>1
    <2> QED
        BY <1>1, <1>2, <2>1, DomainsKept, GoingIsUnused DEF Kept
<1>5. ASSUME DeleteDomain(c) PROVE Kept
    <2> DEFINE g == asking[c].row
    <2>1. UnusedDomain(g)
        BY <1>1, <1>5 DEF DeleteDomain, Going, CountStands
    <2>2. \A d \in DomainRows : d # g /\ domain[d].state = "live" => domain'[d].state = "live"
        BY <1>3, <1>5 DEF DeleteDomain
    <2> HIDE DEF g
    <2>3. \A a \in Aliases : alias[a].state = "live" => alias[a].row \in DomainRows
        BY <1>1, PresentRows DEF AliasRecords
    <2>4. Named'
        BY <1>2, <2>1, <2>2, <2>3 DEF DangleInv, Named, UnusedDomain
    <2> QED
        BY <1>1, <1>2, <2>4, GoingIsUnused DEF Kept, UnusedDomain, UnusedAlias
<1> QED
    BY <1>4, <1>5

LEMMA InsertAliasKeeps ==
    ASSUME DangleInv, NEW c \in Callers, InsertAlias(c)
    PROVE  Kept
<1> DEFINE a == asking[c].alias
           d == asking[c].row
           new == [state |-> "live", box |-> asking[c].box, row |-> d]
<1>1. DirectoryTypeOK /\ Going
    BY DEF DangleInv
<1>2. a \in Aliases /\ d \in DomainRows /\ new.state = "live" /\ new.row = d
    BY <1>1, RequestFields DEF InsertAlias
<1>3. UNCHANGED <<domain, rule>>
    BY DEF InsertAlias
<1>4. \/ UNCHANGED <<alias, insertedLate>>
      \/ /\ alias[a].state = "new"
         /\ alias' = [alias EXCEPT ![a] = new]
         /\ insertedLate' = IF d \in Present(domain) \ DomainsGoing
                              THEN insertedLate ELSE insertedLate \cup {a}
    BY DEF InsertAlias
<1>5. CASE UNCHANGED <<alias, insertedLate>>
    BY <1>1, <1>3, <1>5, GoingIsUnused DEF Kept, DangleInv, Named, UnusedDomain, UnusedAlias
<1>6. CASE /\ alias[a].state = "new"
           /\ alias' = [alias EXCEPT ![a] = new]
           /\ insertedLate' = IF d \in Present(domain) \ DomainsGoing
                                THEN insertedLate ELSE insertedLate \cup {a}
    <2>1. alias'[a] = new /\ \A b \in Aliases \ {a} : alias'[b] = alias[b]
        BY <1>1, <1>2, <1>6 DEF DirectoryTypeOK, AliasTable
    <2>2. /\ insertedLate \subseteq insertedLate'
          /\ a \notin insertedLate' => domain[d].state = "live" /\ d \notin DomainsGoing
        BY <1>1, <1>6, PresentRows
    <2> HIDE DEF a, d, new
    <2>3. \A r \in Rules : rule[r].state = "live" => rule[r].alias \in Aliases
        BY <1>1, PresentRows DEF RuleRecords
    <2>4. Named'
        <3>1. ASSUME NEW b \in Aliases, alias'[b].state = "live", b \notin insertedLate'
              PROVE  domain[alias'[b].row].state = "live"
            BY <1>2, <2>1, <2>2, <3>1 DEF DangleInv, Named
        <3>2. ASSUME NEW r \in Rules, rule[r].state = "live", r \notin insertedLate'
              PROVE  alias'[rule[r].alias].state = "live"
            BY <1>2, <2>1, <2>2, <2>3, <3>2 DEF DangleInv, Named
        <3> QED
            BY <1>3, <3>1, <3>2 DEF Named
    <2>5. ASSUME NEW g \in DomainsGoing PROVE UnusedDomain(g)'
        <3> SUFFICES ASSUME NEW b \in Aliases, alias'[b].state = "live", alias'[b].row = g
                     PROVE  b \in insertedLate'
            BY DEF UnusedDomain
        <3>1. CASE b = a
            BY <1>2, <2>1, <2>2, <3>1
        <3>2. CASE b # a
            BY <1>1, <2>1, <2>2, <3>2, GoingIsUnused DEF UnusedDomain
        <3> QED
            BY <3>1, <3>2
    <2>6. \A b \in AliasesGoing : UnusedAlias(b)'
        BY <1>1, <1>3, <2>2, GoingIsUnused DEF UnusedAlias
    <2> QED
        BY <2>4, <2>5, <2>6 DEF Kept
<1> QED
    BY <1>4, <1>5, <1>6

LEMMA DeleteAliasKeeps ==
    ASSUME DangleInv, NEW c \in Callers, DeleteAlias(c)
    PROVE  Kept
<1> DEFINE a == asking[c].alias
<1>1. DirectoryTypeOK /\ Going
    BY DEF DangleInv
<1>2. a \in Aliases /\ UnusedAlias(a)
    BY <1>1, RequestFields DEF DeleteAlias, Going, CountStands
<1>3. UNCHANGED <<domain, rule>>
    BY DEF DeleteAlias
<1>4. insertedLate' = insertedLate \ {a}
    BY DEF DeleteAlias
<1>5. alias'[a].state # "live" /\ \A b \in Aliases \ {a} : alias'[b] = alias[b]
    BY <1>1, <1>2, AliasGoes
<1> HIDE DEF a
<1>6. \A r \in Rules : r # a /\ (rule[r].state = "live" => rule[r].alias \in Aliases)
    BY <1>1, <1>2, PresentRows, DirectoryAssumption DEF RuleRecords
<1>7. Named'
    <2>1. ASSUME NEW b \in Aliases, alias'[b].state = "live", b \notin insertedLate'
          PROVE  domain[alias'[b].row].state = "live"
        BY <1>4, <1>5, <2>1 DEF DangleInv, Named
    <2>2. ASSUME NEW r \in Rules, rule[r].state = "live", r \notin insertedLate'
          PROVE  alias'[rule[r].alias].state = "live"
        <3>1. r \notin insertedLate /\ rule[r].alias # a
            BY <1>2, <1>4, <1>6, <2>2 DEF UnusedAlias
        <3> QED
            BY <1>5, <1>6, <2>2, <3>1 DEF DangleInv, Named
    <2> QED
        BY <1>3, <2>1, <2>2 DEF Named
<1>8. \A d \in DomainsGoing : UnusedDomain(d)'
    <2>1. ASSUME NEW d \in DomainsGoing, NEW b \in Aliases, alias'[b].state = "live",
                 alias'[b].row = d
          PROVE  b \in insertedLate'
        BY <1>1, <1>4, <1>5, <2>1, GoingIsUnused DEF UnusedDomain
    <2> QED
        BY <2>1 DEF UnusedDomain
<1>9. \A b \in AliasesGoing : UnusedAlias(b)'
    BY <1>1, <1>3, <1>4, <1>6, GoingIsUnused DEF UnusedAlias
<1> QED
    BY <1>7, <1>8, <1>9 DEF Kept

LEMMA InsertRuleKeeps ==
    ASSUME DangleInv, NEW c \in Callers, InsertRule(c)
    PROVE  Kept
<1> DEFINE r == asking[c].rule
           a == asking[c].alias
           new == [state |-> "live", alias |-> a, destination |-> asking[c].destination]
<1>1. DirectoryTypeOK /\ Going
    BY DEF DangleInv
<1>2. r \in Rules /\ a \in Aliases /\ new.state = "live" /\ new.alias = a
    BY <1>1, RequestFields DEF InsertRule
<1>3. UNCHANGED <<domain, alias>>
    BY DEF InsertRule
<1>4. \/ UNCHANGED <<rule, insertedLate>>
      \/ /\ rule' = [rule EXCEPT ![r] = new]
         /\ insertedLate' = IF a \in Present(alias) \ AliasesGoing
                              THEN insertedLate ELSE insertedLate \cup {r}
    BY DEF InsertRule
<1>5. CASE UNCHANGED <<rule, insertedLate>>
    BY <1>1, <1>3, <1>5, GoingIsUnused DEF Kept, DangleInv, Named, UnusedDomain, UnusedAlias
<1>6. CASE /\ rule' = [rule EXCEPT ![r] = new]
           /\ insertedLate' = IF a \in Present(alias) \ AliasesGoing
                                THEN insertedLate ELSE insertedLate \cup {r}
    <2>1. rule'[r] = new /\ \A x \in Rules \ {r} : rule'[x] = rule[x]
        BY <1>1, <1>2, <1>6 DEF DirectoryTypeOK, RuleTable
    <2>2. /\ insertedLate \subseteq insertedLate'
          /\ r \notin insertedLate' => alias[a].state = "live" /\ a \notin AliasesGoing
        BY <1>1, <1>6, PresentRows
    <2> HIDE DEF r, a, new
    <2>3. Named'
        <3>1. ASSUME NEW b \in Aliases, alias[b].state = "live", b \notin insertedLate'
              PROVE  domain[alias[b].row].state = "live"
            BY <2>2, <3>1 DEF DangleInv, Named
        <3>2. ASSUME NEW x \in Rules, rule'[x].state = "live", x \notin insertedLate'
              PROVE  alias[rule'[x].alias].state = "live"
            BY <1>2, <2>1, <2>2, <3>2 DEF DangleInv, Named
        <3> QED
            BY <1>3, <3>1, <3>2 DEF Named
    <2>4. \A d \in DomainsGoing : UnusedDomain(d)'
        BY <1>1, <1>3, <2>2, GoingIsUnused DEF UnusedDomain
    <2>5. ASSUME NEW g \in AliasesGoing PROVE UnusedAlias(g)'
        <3> SUFFICES ASSUME NEW x \in Rules, rule'[x].state = "live", rule'[x].alias = g
                     PROVE  x \in insertedLate'
            BY DEF UnusedAlias
        <3>1. CASE x = r
            BY <1>2, <2>1, <2>2, <3>1
        <3>2. CASE x # r
            BY <1>1, <2>1, <2>2, <3>2, GoingIsUnused DEF UnusedAlias
        <3> QED
            BY <3>1, <3>2
    <2> QED
        BY <2>3, <2>4, <2>5 DEF Kept
<1> QED
    BY <1>4, <1>5, <1>6

LEMMA DangleStep ==
    ASSUME DangleInv, [DirectoryNext]_directoryVars
    PROVE  DangleInv'
<1>1. DirectoryTypeOK /\ Going /\ DirectoryTypeOK'
    BY DirectoryTypeStep DEF DangleInv
<1>2. ASSUME UNCHANGED <<domain, alias, rule, asking, insertedLate>> PROVE (Going /\ Named)'
    BY <1>2 DEF DangleInv, Going, CountStands, UnusedDomain, UnusedAlias, Named
<1>3. ASSUME NEW c \in Callers, CallerStep(c) PROVE (Going /\ Named)'
    <2>1. CASE Writes(c)
        <3>1. Kept
            BY <2>1, DomainWritesKeep, InsertAliasKeeps, DeleteAliasKeeps, InsertRuleKeeps
               DEF Writes
        <3>2. Go(c, NoAsk) /\ NoAsk \in Requests /\ NoAsk.op = "none"
            BY <1>1, <2>1, WritesType, ReplyGoes
        <3>3. CountStands(NoAsk)'
            BY <3>2 DEF CountStands
        <3> QED
            BY <1>1, <3>1, <3>2, <3>3, GoingStays DEF Kept
    <2>2. CASE ~Writes(c)
        <3>1. UNCHANGED <<domain, alias, rule, insertedLate>>
            BY <1>3, <2>2, ReadsOnly
        <3>2. PICK q \in Requests : Go(c, q) /\ CountStands(q)
            BY <1>1, <1>3, <2>2, CallerGoes
        <3>3. CountStands(q)'
            BY <3>1, <3>2 DEF CountStands, UnusedDomain, UnusedAlias
        <3>4. Named' /\ (\A d \in DomainsGoing : UnusedDomain(d)')
                 /\ (\A b \in AliasesGoing : UnusedAlias(b)')
            BY <1>1, <3>1, DomainsKept, GoingIsUnused
        <3> QED
            BY <1>1, <3>2, <3>3, <3>4, GoingStays
    <2> QED
        BY <2>1, <2>2
<1>4. ASSUME NEW r \in Rules, DeleteRule(r) PROVE (Going /\ Named)'
    <2>1. /\ rule' = [rule EXCEPT ![r] = Gone] /\ insertedLate' = insertedLate \ {r}
          /\ UNCHANGED <<domain, alias, asking>> /\ Gone.state # "live"
        BY <1>4 DEF DeleteRule, Gone
    <2>2. rule'[r] = Gone /\ \A x \in Rules \ {r} : rule'[x] = rule[x]
        BY <1>1, <2>1 DEF DirectoryTypeOK, RuleTable
    <2>3. r \notin Aliases
        BY DirectoryAssumption
    <2>4. Named'
        BY <2>1, <2>2, <2>3 DEF DangleInv, Named
    <2>5. /\ \A d : UnusedDomain(d) => UnusedDomain(d)'
          /\ \A b : UnusedAlias(b) => UnusedAlias(b)'
        BY <2>1, <2>2, <2>3 DEF UnusedDomain, UnusedAlias
    <2>6. ASSUME NEW x \in Callers PROVE CountStands(asking[x])'
        BY <1>1, <2>1, <2>5 DEF Going, CountStands, UnusedDomain, UnusedAlias
    <2> QED
        BY <2>4, <2>6 DEF Going
<1>5. \/ Verify \/ UNCHANGED directoryVars
      \/ \E l \in Receipts, b \in HostedBoxes : Receive(l, b)
      \/ \E m \in arriving : Leave(m) \/ \E key \in m.left : Forward(m, key)
      => UNCHANGED <<domain, alias, rule, asking, insertedLate>>
    BY DEF Verify, directoryVars, Receive, Leave, Forward
<1> QED
    BY <1>1, <1>2, <1>3, <1>4, <1>5 DEF DirectoryNext, CallerStep, DangleInv

LEMMA DirectoryTypeInit == DirectoryInit => DirectoryTypeOK
<1> SUFFICES ASSUME DirectoryInit PROVE DirectoryTypeOK
    OBVIOUS
<1>1. sends \in [Receipts -> [Aliases \X Destinations -> Nat]]
    <2> DEFINE K == Aliases \X Destinations
               zero == [k \in K |-> 0]
    <2>1. zero \in [K -> Nat]
        OBVIOUS
    <2>2. sends = [l \in Receipts |-> zero]
        BY DEF DirectoryInit
    <2> HIDE DEF zero, K
    <2>3. sends \in [Receipts -> [K -> Nat]]
        BY <2>1, <2>2
    <2> QED
        BY <2>3 DEF K
<1>2. domain \in DomainTable /\ alias \in AliasTable /\ rule \in RuleTable
    BY DEF DirectoryInit, DomainTable, AliasTable, RuleTable
<1>3. asking \in [Callers -> Requests]
    BY ReplyGoes DEF DirectoryInit
<1> QED
    BY <1>1, <1>2, <1>3 DEF DirectoryInit, DirectoryTypeOK, Identities

LEMMA DangleInit == DirectoryInit => DangleInv
<1> SUFFICES ASSUME DirectoryInit PROVE DangleInv
    OBVIOUS
<1>1. /\ \A c \in Callers : asking[c] = NoAsk
      /\ \A a \in Aliases : alias[a] = New
      /\ \A r \in Rules : rule[r] = New
    BY DEF DirectoryInit
<1>2. New.state # "live" /\ NoAsk.op = "none"
    BY ReplyGoes DEF New
<1> QED
    BY <1>1, <1>2, DirectoryTypeInit DEF DangleInv, Going, CountStands, Named

\* The state of the directory keeps its type: rows are inserted and deleted
\* whole, and a request carries what its next statement needs.
THEOREM DirectoryTypeCorrect == DirectorySpec => []DirectoryTypeOK
<1>1. DangleInv /\ [DirectoryNext]_directoryVars => DangleInv'
    BY DangleStep
<1>2. DangleInv => DirectoryTypeOK
    BY DEF DangleInv
<1> QED
    BY <1>1, <1>2, DangleInit, PTL DEF DirectorySpec

\* No alias is left without its domain and no rule without its alias, but for
\* what was inserted between the count of a deletion and the deletion, or after
\* it.  Any number of workspaces, rows and concurrent requests.
THEOREM NothingIsLeftDangling == DirectorySpec => []NothingDangles
<1>1. DangleInv /\ [DirectoryNext]_directoryVars => DangleInv'
    BY DangleStep
<1>2. DangleInv => NothingDangles
    BY PresentRows DEF DangleInv, Named, NothingDangles, AliasRecords, RuleRecords
<1> QED
    BY <1>1, <1>2, DangleInit, PTL DEF DirectorySpec

-----------------------------------------------------------------------------
\* A row of an alias, once inserted, tells whose it is even when it is deleted.
LEMMA AliasesStay ==
    ASSUME DangleInv, NEW c \in Callers, CallerStep(c), NEW a \in Aliases, alias[a].state # "new"
    PROVE  alias'[a].state # "new" /\ alias'[a].box = alias[a].box
<1>1. CASE InsertAlias(c)
    <2>1. alias' = alias \/ \E n : asking[c].alias # a /\ alias' = [alias EXCEPT ![asking[c].alias] = n]
        BY <1>1 DEF InsertAlias
    <2> QED
        BY <2>1 DEF DangleInv, DirectoryTypeOK, AliasTable
<1>2. CASE DeleteAlias(c)
    BY <1>2, AliasGoes DEF DangleInv
<1>3. CASE ~InsertAlias(c) /\ ~DeleteAlias(c)
    <2>1. CASE Writes(c)
        BY <1>3, <2>1 DEF Writes, InsertDomain, SaveDomain, DeleteDomain, InsertRule
    <2>2. CASE ~Writes(c)
        BY <2>2, ReadsOnly
    <2> QED
        BY <2>1, <2>2
<1> QED
    BY <1>1, <1>2, <1>3

Keys == Aliases \X Destinations

\* The alias of key k was inserted, for mailbox b.
OfBox(k, b) == alias[k[1]].state # "new" /\ alias[k[1]].box = b

\* A message under way has sent none of the copies that are left to it, and a
\* receipt is under way once.
ArrivingInv ==
    /\ \A m \in arriving : \A k \in m.left : sends[m.receipt][k] = 0
    /\ \A m, n \in arriving : m.receipt = n.receipt => m = n

\* What is sent and what is left are rules of one mailbox.
OneBoxInv ==
    /\ \A m \in arriving : \A k \in m.left : OfBox(k, m.box)
    /\ \A l \in Receipts, k \in Keys : sends[l][k] > 0 => alias[k[1]].state # "new"
    /\ \A m \in arriving, k \in Keys : sends[m.receipt][k] > 0 => OfBox(k, m.box)

\* ForwardingStops by its two conjuncts.
OneCopy == \A l \in Receipts, k \in Keys : sends[l][k] <= 1
OneSender ==
    \A l \in Receipts, j, k \in Keys :
        sends[l][j] > 0 /\ sends[l][k] > 0 => alias[j[1]].box = alias[k[1]].box

Forwarding == ArrivingInv /\ OneBoxInv /\ OneCopy /\ OneSender
ForwardInv == DangleInv /\ Forwarding

LEMMA StopsByParts == ForwardingStops <=> OneCopy /\ OneSender
BY DEF ForwardingStops, OneCopy, OneSender, Keys

LEMMA KeyAlias == \A k \in Keys : k[1] \in Aliases
BY DEF Keys

\* The rules that were found are of the mailbox's aliases.
LEMMA FoundInBox ==
    ASSUME DirectoryTypeOK, NEW l \in Receipts, NEW b \in HostedBoxes,
           NEW addresses \in SUBSET {a \in Present(alias) : alias[a].box = b},
           NEW m \in Received(l, b, addresses, FALSE)
    PROVE  m.box = b /\ \A k \in m.left : OfBox(k, b)
<1> DEFINE found == {<<rule[r].alias, rule[r].destination>> : r \in RulesFor(addresses, FALSE)}
<1>1. m = [receipt |-> l, box |-> b, left |-> found]
    BY DEF Received
<1>2. ASSUME NEW k \in found PROVE OfBox(k, b)
    <2>1. PICK r \in RulesFor(addresses, FALSE) : k = <<rule[r].alias, rule[r].destination>>
        BY <1>2
    <2>2. rule[r].alias \in addresses
        BY DEF RulesFor, RulesOf
    <2>3. k[1] \in Present(alias) /\ alias[k[1]].box = b
        BY <2>1, <2>2
    <2> QED
        BY <2>3, PresentRows DEF OfBox
<1> QED
    BY <1>1, <1>2

LEMMA ReceiveForwards ==
    ASSUME ForwardInv, NEW l \in Receipts, NEW b \in HostedBoxes, Receive(l, b)
    PROVE  Forwarding'
<1>1. PICK addresses \in SUBSET {a \in Present(alias) : alias[a].box = b} :
          arriving' = arriving \cup Received(l, b, addresses, FALSE)
    BY DEF Receive
<1>2. /\ sends' = sends /\ alias' = alias /\ \A m \in arriving : m.receipt # l
      /\ \A k \in Keys : sends[l][k] = 0
    BY DEF Receive, Keys
<1>3. \A m \in Received(l, b, addresses, FALSE) : m \in Mails /\ m.receipt = l
    BY ReceivedType DEF ForwardInv, DangleInv
<1>4. \A m, n \in Received(l, b, addresses, FALSE) : m = n
    BY DEF Received
<1>5. \A m \in arriving' : \A k \in m.left : sends[m.receipt][k] = 0
    <2>1. \A m \in Mails : m.left \subseteq Keys
        BY DEF Mails, Keys
    <2> QED
        BY <1>1, <1>2, <1>3, <2>1 DEF ForwardInv, Forwarding, ArrivingInv
<1>6. \A m, n \in arriving' : m.receipt = n.receipt => m = n
    BY <1>1, <1>2, <1>3, <1>4 DEF ForwardInv, Forwarding, ArrivingInv
<1>7. \A m \in Received(l, b, addresses, FALSE) : m.box = b /\ \A k \in m.left : OfBox(k, b)
    BY FoundInBox DEF ForwardInv, DangleInv
<1>8. OneBoxInv'
    <2>1. OneBoxInv
        BY DEF ForwardInv, Forwarding
    <2>2. \A m \in arriving' : \A k \in m.left : OfBox(k, m.box)
        BY <1>1, <1>7, <2>1 DEF OneBoxInv
    <2>3. ASSUME NEW m \in arriving', NEW k \in Keys, sends[m.receipt][k] > 0
          PROVE  OfBox(k, m.box)
        <3>1. CASE m \in arriving
            BY <2>1, <2>3, <3>1 DEF OneBoxInv
        <3>2. CASE m \in Received(l, b, addresses, FALSE)
            <4>1. m.receipt = l
                BY <1>3, <3>2
            <4>2. sends[m.receipt][k] = 0
                BY <1>2, <4>1
            <4> QED
                BY <2>3, <4>2
        <3> QED
            BY <1>1, <3>1, <3>2
    <2> QED
        BY <1>2, <2>1, <2>2, <2>3 DEF OneBoxInv, OfBox
<1> QED
    BY <1>2, <1>5, <1>6, <1>8 DEF ForwardInv, Forwarding, ArrivingInv, OneCopy, OneSender

LEMMA ForwardForwards ==
    ASSUME ForwardInv, NEW m \in arriving, NEW key \in m.left, Forward(m, key)
    PROVE  Forwarding'
<1> DEFINE n == [m EXCEPT !.left = @ \ {key}]
           l == m.receipt
<1>1. DirectoryTypeOK /\ arriving \subseteq Mails /\ sends \in Counts /\ alias' = alias
    BY DEF ForwardInv, DangleInv, DirectoryTypeOK, Mails, Counts, Forward
<1>2. /\ m \in Mails /\ key \in Keys /\ l \in Receipts
      /\ n.receipt = l /\ n.left = m.left \ {key} /\ n.box = m.box
      /\ arriving' \subseteq (arriving \ {m}) \cup {n}
    BY <1>1, ForwardDoes DEF Mails, Keys
<1>3. sends[l][key] = 0 /\ OfBox(key, m.box)
    BY DEF ForwardInv, Forwarding, ArrivingInv, OneBoxInv
<1>4. sends' = sends \/ sends' = [sends EXCEPT ![l][key] = @ + 1]
    BY <1>1, ForwardDoes
<1> HIDE DEF n, l
<1>5. /\ sends'[l][key] <= 1
      /\ \A x \in Receipts, y \in Keys : x # l \/ y # key => sends'[x][y] = sends[x][y]
    <2>1. CASE sends' = sends
        BY <1>3, <2>1
    <2>2. CASE sends' = [sends EXCEPT ![l][key] = @ + 1]
        <3>1. /\ sends'[l][key] = sends[l][key] + 1
              /\ \A x \in Receipts, y \in Keys : x # l \/ y # key => sends'[x][y] = sends[x][y]
            BY <1>1, <1>2, <2>2, CountsUp DEF Keys
        <3> QED
            BY <1>3, <3>1
    <2> QED
        BY <1>4, <2>1, <2>2
<1>6. \A x \in Mails : x.receipt \in Receipts /\ x.left \subseteq Keys
    BY DEF Mails, Keys
<1>7. \A x \in arriving \ {m} : x.receipt # l
    BY DEF ForwardInv, Forwarding, ArrivingInv, l
<1>8. \A x \in arriving' : \A k \in x.left : sends'[x.receipt][k] = 0
    <2>1. ASSUME NEW x \in arriving \ {m}, NEW k \in x.left PROVE sends'[x.receipt][k] = 0
        <3>1. sends[x.receipt][k] = 0
            BY <2>1 DEF ForwardInv, Forwarding, ArrivingInv
        <3> QED
            BY <1>1, <1>5, <1>6, <1>7, <2>1, <3>1
    <2>2. ASSUME NEW k \in n.left PROVE sends'[n.receipt][k] = 0
        <3>1. k \in m.left /\ k # key
            BY <1>2, <2>2
        <3>2. sends[l][k] = 0
            BY <3>1 DEF ForwardInv, Forwarding, ArrivingInv, l
        <3> QED
            BY <1>2, <1>5, <1>6, <3>1, <3>2
    <2> QED
        BY <1>2, <2>1, <2>2
<1>9. \A x, y \in arriving' : x.receipt = y.receipt => x = y
    BY <1>2, <1>7 DEF ForwardInv, Forwarding, ArrivingInv
<1>10. OneCopy'
    BY <1>5 DEF ForwardInv, Forwarding, OneCopy
\* What the receipt has sent, this copy included, is the mailbox's.
<1>11. \A k \in Keys : sends'[l][k] > 0 => OfBox(k, m.box)
    <2>1. \A k \in Keys : sends[l][k] > 0 => OfBox(k, m.box)
        BY DEF ForwardInv, Forwarding, OneBoxInv, l
    <2> QED
        BY <1>2, <1>3, <1>5, <2>1
<1>12. OneBoxInv'
    <2>1. \A x \in arriving' : \A k \in x.left : OfBox(k, x.box)
        BY <1>2 DEF ForwardInv, Forwarding, OneBoxInv
    <2>2. \A x \in Receipts, k \in Keys : sends'[x][k] > 0 => alias[k[1]].state # "new"
        BY <1>2, <1>5, <1>11 DEF ForwardInv, Forwarding, OneBoxInv, OfBox
    <2>3. ASSUME NEW x \in arriving', NEW k \in Keys, sends'[x.receipt][k] > 0
          PROVE  OfBox(k, x.box)
        <3>1. CASE x = n
            BY <1>2, <1>11, <2>3, <3>1
        <3>2. CASE x \in arriving \ {m}
            BY <1>1, <1>5, <1>6, <1>7, <2>3, <3>2 DEF ForwardInv, Forwarding, OneBoxInv
        <3> QED
            BY <1>2, <3>1, <3>2
    <2> QED
        BY <1>1, <2>1, <2>2, <2>3 DEF OneBoxInv, OfBox
<1>13. OneSender'
    <2>1. ASSUME NEW x \in Receipts, NEW j \in Keys, NEW k \in Keys,
                 sends'[x][j] > 0, sends'[x][k] > 0
          PROVE  alias[j[1]].box = alias[k[1]].box
        <3>1. CASE x = l
            BY <1>11, <2>1, <3>1 DEF OfBox
        <3>2. CASE x # l
            BY <1>5, <2>1, <3>2 DEF ForwardInv, Forwarding, OneSender
        <3> QED
            BY <3>1, <3>2
    <2> QED
        BY <1>1, <2>1 DEF OneSender
<1> QED
    BY <1>8, <1>9, <1>10, <1>12, <1>13 DEF Forwarding, ArrivingInv

\* The rows of aliases change, the mail does not.
LEMMA CallersForward ==
    ASSUME ForwardInv, NEW c \in Callers, CallerStep(c)
    PROVE  Forwarding'
<1>1. DangleInv /\ UNCHANGED <<arriving, sends>>
    BY ReadsOnly, WritesType DEF ForwardInv, DangleInv
<1>2. \A a \in Aliases : alias[a].state # "new" =>
          alias'[a].state # "new" /\ alias'[a].box = alias[a].box
    BY <1>1, AliasesStay
<1>3. arriving \subseteq Mails /\ \A m \in Mails : m.left \subseteq Keys
    BY <1>1 DEF DangleInv, DirectoryTypeOK, Mails, Keys
<1>4. \A k \in Keys, b \in HostedBoxes : OfBox(k, b) => OfBox(k, b)'
    BY <1>2, KeyAlias DEF OfBox
<1>5. \A m \in Mails : m.box \in HostedBoxes
    BY DEF Mails
<1>6. OneBoxInv'
    BY <1>1, <1>2, <1>3, <1>4, <1>5, KeyAlias DEF ForwardInv, Forwarding, OneBoxInv
<1>7. OneSender'
    BY <1>1, <1>2, KeyAlias DEF ForwardInv, Forwarding, OneBoxInv, OneSender
<1> QED
    BY <1>1, <1>6, <1>7 DEF ForwardInv, Forwarding, ArrivingInv, OneCopy

LEMMA ForwardStep ==
    ASSUME ForwardInv, [DirectoryNext]_directoryVars
    PROVE  ForwardInv'
<1>1. DangleInv'
    BY DangleStep DEF ForwardInv
<1>2. ASSUME UNCHANGED <<alias, arriving, sends>> PROVE Forwarding'
    BY <1>2 DEF ForwardInv, Forwarding, ArrivingInv, OneBoxInv, OfBox, OneCopy, OneSender
<1>3. ASSUME NEW m \in arriving, Leave(m) PROVE Forwarding'
    <2>1. arriving' \subseteq arriving /\ UNCHANGED <<alias, sends>>
        BY <1>3 DEF Leave
    <2> QED
        BY <2>1 DEF ForwardInv, Forwarding, ArrivingInv, OneBoxInv, OfBox, OneCopy, OneSender
<1>4. Verify \/ UNCHANGED directoryVars \/ (\E r \in Rules : DeleteRule(r))
      => UNCHANGED <<alias, arriving, sends>>
    BY DEF Verify, directoryVars, DeleteRule
<1> QED
    BY <1>1, <1>2, <1>3, <1>4, CallersForward, ReceiveForwards, ForwardForwards
       DEF DirectoryNext, CallerStep, ForwardInv

\* Each time a mailbox stores mail, its aliases send each destination at most one
\* copy and no other mailbox's send any, whatever cycle the rules of the mailboxes
\* make and however they change meanwhile.
THEOREM ForwardingEnds == DirectorySpec => []ForwardingStops
<1>1. DirectoryInit => ForwardInv
    <2> SUFFICES ASSUME DirectoryInit PROVE ForwardInv
        OBVIOUS
    <2>1. \A l \in Receipts, k \in Keys : sends[l][k] = 0
        BY DEF DirectoryInit, Keys
    <2>2. arriving = {}
        BY DEF DirectoryInit
    <2> QED
        BY <2>1, <2>2, DangleInit
           DEF ForwardInv, Forwarding, ArrivingInv, OneBoxInv, OneCopy, OneSender
<1>2. ForwardInv /\ [DirectoryNext]_directoryVars => ForwardInv'
    BY ForwardStep
<1>3. ForwardInv => ForwardingStops
    BY StopsByParts DEF ForwardInv, Forwarding
<1> QED
    BY <1>1, <1>2, <1>3, PTL DEF DirectorySpec

-----------------------------------------------------------------------------
(* The application's start and stop.                                        *)

Steps == {"start", "close", "wait", "cancel", "shut"}
         \X (Optional \cup {"grpc", "http", "clients"})

\* The steps left of the sequence all, which has n of them.
StepsLeft(all, n) ==
    /\ steps \in Seq(Steps)
    /\ Len(steps) \in 0 .. n
    /\ \A i \in 1 .. Len(steps) : steps[i] = all[n - Len(steps) + i]

\* No work of the server is in hand and it takes none.
NotThere(server) == server \notin taking /\ \A w \in Under(server) : doing[w] = "none"

JobsQuiet == cancelled /\ \A w \in Under("queue") : doing[w] # "storing"

OnlyJobsAreCalled == \A w \in Work : doing[w] = "called" => Kind[w] = "job"

\* What Stop has achieved with k of its steps left.
StopsInOrder ==
    LET k == Len(steps) IN
    /\ StepsLeft(StopOrder, 13)
    /\ k <= 10 => "pop3" \notin taking
    /\ k <= 9 => NotThere("pop3")
    /\ k <= 8 => cancelled
    /\ k <= 6 => JobsQuiet
    /\ k <= 4 => "http" \notin taking
    /\ k <= 3 => NotThere("http")
    /\ k <= 2 => "grpc" \notin taking
    /\ k <= 1 => NotThere("grpc")
    /\ "queue" \in shut => k <= 5
    /\ "clients" \in shut => k = 0

\* What a failed Start has undone with k steps left.
UndoesInOrder ==
    LET k == Len(steps) IN
    /\ StepsLeft(UndoOrder, 5)
    /\ k <= 3 => cancelled
    /\ k <= 1 => JobsQuiet
    /\ "queue" \in shut => k = 0
    /\ "clients" \notin shut

StopInv ==
    /\ phase \in Phases
    /\ doing \in [Work -> Progress]
    /\ OnlyJobsAreCalled
    /\ phase \in {"starting", "running"} => shut = {}
    /\ phase = "stopping" => StopsInOrder
    /\ phase = "undoing" => UndoesInOrder
    /\ phase \in {"ended", "failed"} => shut = {} \/ \A w \in Work : doing[w] = "none"

-----------------------------------------------------------------------------
\* A server that is gone stays so, and so do quiet jobs, whatever the work in
\* hand does; a step of it leaves the rest of the process alone.
WorkStep(w) ==
    \/ BeginWork(w) \/ JoinGroup(w) \/ OpenTransaction(w) \/ CloseTransaction(w) \/ Finish(w)

LEMMA WorkStepKeeps ==
    ASSUME StopInv, NEW w \in Work, WorkStep(w)
    PROVE  /\ UNCHANGED <<phase, steps, taking, cancelled, shut>>
           /\ doing' \in [Work -> Progress]
           /\ OnlyJobsAreCalled'
           /\ \A server : NotThere(server) => NotThere(server)'
           /\ JobsQuiet => JobsQuiet'
<1>1. PICK p \in Progress : doing' = [doing EXCEPT ![w] = p]
    BY DEF WorkStep, BeginWork, JoinGroup, OpenTransaction, CloseTransaction, Finish, Progress
<1>2. doing \in [Work -> Progress]
    BY DEF StopInv
<1>3. doing'[w] = p /\ \A v \in Work \ {w} : doing'[v] = doing[v]
    BY <1>1, <1>2
<1>4. UNCHANGED <<phase, steps, taking, cancelled, shut>>
    BY DEF WorkStep, BeginWork, JoinGroup, OpenTransaction, CloseTransaction, Finish
<1>5. p = "called" => Kind[w] = "job"
    BY <1>2, <1>3 DEF WorkStep, BeginWork, JoinGroup, OpenTransaction, CloseTransaction, Finish
<1>6. OnlyJobsAreCalled'
    BY <1>3, <1>5 DEF StopInv, OnlyJobsAreCalled
<1>7. ASSUME NEW server, NotThere(server) PROVE NotThere(server)'
    <2>1. w \notin Under(server)
        BY <1>7 DEF NotThere, Under, WorkStep, BeginWork, JoinGroup, OpenTransaction,
            CloseTransaction, Finish
    <2>2. Under(server) \subseteq Work
        BY DEF Under
    <2> QED
        BY <1>3, <1>4, <1>7, <2>1, <2>2 DEF NotThere, Under
<1>8. ASSUME JobsQuiet PROVE JobsQuiet'
    <2>1. w \in Under("queue") => Kind[w] = "job"
        BY KindAssumption DEF Under, Entry
    <2>2. w \in Under("queue") => p # "storing"
        BY <1>2, <1>3, <1>8, <2>1 DEF JobsQuiet, WorkStep, BeginWork, JoinGroup, OpenTransaction,
            CloseTransaction, Finish, Permitted
    <2> QED
        BY <1>3, <1>4, <1>8, <2>2 DEF JobsQuiet, Under
<1> QED
    BY <1>1, <1>2, <1>4, <1>6, <1>7, <1>8

LEMMA WorkStepStop ==
    ASSUME StopInv, NEW w \in Work, WorkStep(w)
    PROVE  StopInv'
<1>1. /\ UNCHANGED <<phase, steps, taking, cancelled, shut>>
      /\ doing' \in [Work -> Progress]
      /\ OnlyJobsAreCalled'
      /\ JobsQuiet => JobsQuiet'
      /\ NotThere("pop3") => NotThere("pop3")'
      /\ NotThere("http") => NotThere("http")'
      /\ NotThere("grpc") => NotThere("grpc")'
    BY WorkStepKeeps
<1>2. phase \notin {"ended", "failed"}
    BY DEF WorkStep, BeginWork, JoinGroup, OpenTransaction, CloseTransaction, Finish, Alive
<1>3. StopsInOrder => StopsInOrder'
    BY <1>1 DEF StopsInOrder, StepsLeft
<1>4. UndoesInOrder => UndoesInOrder'
    BY <1>1 DEF UndoesInOrder, StepsLeft
<1> QED
    BY <1>1, <1>2, <1>3, <1>4 DEF StopInv

-----------------------------------------------------------------------------
\* Stop takes its thirteen steps in this order, a failed Start its five.
LEMMA StopSteps ==
    /\ StopOrder \in Seq(Steps) /\ Len(StopOrder) = 13
    /\ StopOrder[1] = <<"close", "smtp">> /\ StopOrder[2] = <<"close", "imap">>
    /\ StopOrder[3] = <<"close", "pop3">> /\ StopOrder[4] = <<"wait", "pop3">>
    /\ StopOrder[5] = <<"cancel", "queue">> /\ StopOrder[6] = <<"close", "queue">>
    /\ StopOrder[7] = <<"wait", "queue">> /\ StopOrder[8] = <<"shut", "queue">>
    /\ StopOrder[9] = <<"close", "http">> /\ StopOrder[10] = <<"wait", "http">>
    /\ StopOrder[11] = <<"close", "grpc">> /\ StopOrder[12] = <<"wait", "grpc">>
    /\ StopOrder[13] = <<"shut", "clients">>
<1>1. /\ <<"close", "smtp">> \in Steps /\ <<"close", "imap">> \in Steps
      /\ <<"close", "pop3">> \in Steps /\ <<"wait", "pop3">> \in Steps
      /\ <<"cancel", "queue">> \in Steps /\ <<"close", "queue">> \in Steps
      /\ <<"wait", "queue">> \in Steps /\ <<"shut", "queue">> \in Steps
      /\ <<"close", "http">> \in Steps /\ <<"wait", "http">> \in Steps
      /\ <<"close", "grpc">> \in Steps /\ <<"wait", "grpc">> \in Steps
      /\ <<"shut", "clients">> \in Steps
    BY DEF Steps, Optional
<1> QED
    BY <1>1 DEF StopOrder

LEMMA UndoSteps ==
    /\ UndoOrder \in Seq(Steps) /\ Len(UndoOrder) = 5
    /\ UndoOrder[1] = <<"close", "smtp">> /\ UndoOrder[2] = <<"cancel", "queue">>
    /\ UndoOrder[3] = <<"close", "queue">> /\ UndoOrder[4] = <<"wait", "queue">>
    /\ UndoOrder[5] = <<"shut", "queue">>
<1>1. /\ <<"close", "smtp">> \in Steps /\ <<"cancel", "queue">> \in Steps
      /\ <<"close", "queue">> \in Steps /\ <<"wait", "queue">> \in Steps
      /\ <<"shut", "queue">> \in Steps
    BY DEF Steps, Optional
<1> QED
    BY <1>1 DEF UndoOrder

LEMMA NextStep ==
    ASSUME NEW all, NEW n \in Nat, StepsLeft(all, n), steps # <<>>, steps' = Tail(steps)
    PROVE  /\ Len(steps) \in 1 .. n
           /\ steps' \in Seq(Steps)
           /\ \A i \in 1 .. Len(steps') : steps'[i] = all[n - Len(steps') + i]
           /\ Len(steps') = Len(steps) - 1 /\ Len(steps') \in 0 .. n
           /\ Head(steps) = all[n + 1 - Len(steps)]
BY DEF StepsLeft

\* The wait for a server that waits for all its work leaves none of it; the wait
\* for the jobs leaves none that has reached wg.Add.
LEMMA Waits ==
    ASSUME StopInv, UNCHANGED <<doing, taking>>
    PROVE  /\ \A server \in {"pop3", "http", "grpc"} :
                  server \notin taking /\ Waited("wait", server) => NotThere(server)'
           /\ cancelled' /\ Waited("wait", "queue") => JobsQuiet'
<1>1. ASSUME NEW server \in {"pop3", "http", "grpc"}, server \notin taking, Waited("wait", server)
      PROVE  NotThere(server)'
    <2> SUFFICES ASSUME NEW w \in Under(server) PROVE doing[w] = "none"
        BY <1>1 DEF NotThere, Under
    <2>1. w \in Work /\ Kind[w] # "job"
        BY <1>1 DEF Under, Entry
    <2>2. doing[w] \in Progress /\ doing[w] # "called"
        BY <2>1 DEF StopInv, OnlyJobsAreCalled
    <2>3. ~InHand(w)
        BY <1>1 DEF Waited
    <2> QED
        BY <2>2, <2>3 DEF InHand, Progress
<1>2. ASSUME cancelled', Waited("wait", "queue") PROVE JobsQuiet'
    BY <1>2 DEF JobsQuiet, Waited, InHand, Under
<1> QED
    BY <1>1, <1>2

LEMMA StopStep ==
    ASSUME StopInv, phase = "stopping", CloseStep
    PROVE  StopsInOrder'
<1> DEFINE verb == Head(steps)[1]
           server == Head(steps)[2]
<1>1. StepsLeft(StopOrder, 13) /\ steps # <<>> /\ steps' = Tail(steps) /\ doing' = doing
    BY DEF StopInv, StopsInOrder, CloseStep
<1>2. StepsLeft(StopOrder, 13)'
    <2>1. steps' \in Seq(Steps)
        BY <1>1, NextStep
    <2>2. Len(steps') \in 0 .. 13
        BY <1>1, NextStep
    <2>3. \A i \in 1 .. Len(steps') : steps'[i] = StopOrder[13 - Len(steps') + i]
        BY <1>1, NextStep
    <2> QED
        BY <2>1, <2>2, <2>3 DEF StepsLeft
<1>3. PICK k \in 1 .. 13 : k = Len(steps)
    BY <1>1, NextStep
<1>4. Len(steps') = k - 1
    BY <1>1, <1>3, NextStep
<1>5. Head(steps) = StopOrder[13 + 1 - k]
    BY <1>1, <1>3, NextStep
<1>6. /\ k = 13 => verb = "close" /\ server = "smtp"
      /\ k = 12 => verb = "close" /\ server = "imap"
      /\ k = 11 => verb = "close" /\ server = "pop3"
      /\ k = 10 => verb = "wait" /\ server = "pop3"
      /\ k = 9 => verb = "cancel" /\ server = "queue"
      /\ k = 8 => verb = "close" /\ server = "queue"
      /\ k = 7 => verb = "wait" /\ server = "queue"
      /\ k = 6 => verb = "shut" /\ server = "queue"
      /\ k = 5 => verb = "close" /\ server = "http"
      /\ k = 4 => verb = "wait" /\ server = "http"
      /\ k = 3 => verb = "close" /\ server = "grpc"
      /\ k = 2 => verb = "wait" /\ server = "grpc"
      /\ k = 1 => verb = "shut" /\ server = "clients"
    BY <1>5, StopSteps
<1>7. /\ Waited(verb, server)
      /\ taking' = IF verb = "close" THEN taking \ {server} ELSE taking
      /\ cancelled' = (cancelled \/ verb = "cancel")
      /\ shut' = IF verb = "shut" THEN shut \cup {server} ELSE shut
    BY DEF CloseStep
<1> HIDE DEF verb, server
<1>8. /\ \A s : s \notin taking => s \notin taking'
      /\ verb = "close" => server \notin taking'
      /\ verb = "wait" => taking' = taking
    BY <1>7
<1>9. \A s : NotThere(s) => NotThere(s)'
    BY <1>1, <1>8 DEF NotThere, Under
<1>10. (cancelled => cancelled') /\ (verb = "cancel" => cancelled')
    BY <1>7
<1>11. JobsQuiet => JobsQuiet'
    BY <1>1, <1>10 DEF JobsQuiet, Under
<1>12. /\ k <= 10 => "pop3" \notin taking
       /\ k <= 9 => NotThere("pop3")
       /\ k <= 8 => cancelled
       /\ k <= 6 => JobsQuiet
       /\ k <= 4 => "http" \notin taking
       /\ k <= 3 => NotThere("http")
       /\ k <= 2 => "grpc" \notin taking
       /\ k <= 1 => NotThere("grpc")
       /\ "queue" \in shut => k <= 5
       /\ "clients" \in shut => k = 0
    BY <1>3 DEF StopInv, StopsInOrder
<1>13. /\ k <= 11 => "pop3" \notin taking'
       /\ k <= 5 => "http" \notin taking'
       /\ k <= 3 => "grpc" \notin taking'
    BY <1>6, <1>8, <1>12
<1>14. k <= 9 => cancelled'
    BY <1>6, <1>10, <1>12
<1>15. ASSUME NEW s \in {"pop3", "http", "grpc"}, s \notin taking, verb = "wait", server = s
       PROVE  NotThere(s)'
    BY <1>1, <1>7, <1>8, <1>15, Waits
<1>16. /\ k <= 10 => NotThere("pop3")'
       /\ k <= 4 => NotThere("http")'
       /\ k <= 2 => NotThere("grpc")'
    BY <1>6, <1>9, <1>12, <1>15
<1>17. k <= 7 => JobsQuiet'
    <2>1. verb = "wait" /\ server = "queue" /\ cancelled' => JobsQuiet'
        BY <1>1, <1>7, <1>8, Waits
    <2> QED
        BY <1>6, <1>11, <1>12, <1>14, <2>1
<1>18. ("queue" \in shut' => k <= 6) /\ ("clients" \in shut' => k = 1)
    BY <1>6, <1>7, <1>12
<1> QED
    BY <1>2, <1>4, <1>13, <1>14, <1>16, <1>17, <1>18 DEF StopsInOrder

LEMMA UndoStep ==
    ASSUME StopInv, phase = "undoing", CloseStep
    PROVE  UndoesInOrder'
<1> DEFINE verb == Head(steps)[1]
           server == Head(steps)[2]
<1>1. StepsLeft(UndoOrder, 5) /\ steps # <<>> /\ steps' = Tail(steps) /\ doing' = doing
    BY DEF StopInv, UndoesInOrder, CloseStep
<1>2. StepsLeft(UndoOrder, 5)'
    <2>1. steps' \in Seq(Steps)
        BY <1>1, NextStep
    <2>2. Len(steps') \in 0 .. 5
        BY <1>1, NextStep
    <2>3. \A i \in 1 .. Len(steps') : steps'[i] = UndoOrder[5 - Len(steps') + i]
        BY <1>1, NextStep
    <2> QED
        BY <2>1, <2>2, <2>3 DEF StepsLeft
<1>3. PICK k \in 1 .. 5 : k = Len(steps)
    BY <1>1, NextStep
<1>4. Len(steps') = k - 1
    BY <1>1, <1>3, NextStep
<1>5. Head(steps) = UndoOrder[5 + 1 - k]
    BY <1>1, <1>3, NextStep
<1>6. /\ k = 5 => verb = "close" /\ server = "smtp"
      /\ k = 4 => verb = "cancel" /\ server = "queue"
      /\ k = 3 => verb = "close" /\ server = "queue"
      /\ k = 2 => verb = "wait" /\ server = "queue"
      /\ k = 1 => verb = "shut" /\ server = "queue"
    BY <1>5, UndoSteps
<1>7. /\ Waited(verb, server)
      /\ taking' = IF verb = "close" THEN taking \ {server} ELSE taking
      /\ cancelled' = (cancelled \/ verb = "cancel")
      /\ shut' = IF verb = "shut" THEN shut \cup {server} ELSE shut
    BY DEF CloseStep
<1> HIDE DEF verb, server
<1>8. (cancelled => cancelled') /\ (verb = "cancel" => cancelled')
    BY <1>7
<1>9. JobsQuiet => JobsQuiet'
    BY <1>1, <1>8 DEF JobsQuiet, Under
<1>10. /\ k <= 3 => cancelled
       /\ k <= 1 => JobsQuiet
       /\ "queue" \in shut => k = 0
       /\ "clients" \notin shut
    BY <1>3 DEF StopInv, UndoesInOrder
<1>11. k <= 4 => cancelled'
    BY <1>6, <1>8, <1>10
<1>12. k <= 2 => JobsQuiet'
    <2>1. verb = "wait" /\ server = "queue" /\ cancelled' => JobsQuiet'
        BY <1>1, <1>7, Waits
    <2> QED
        BY <1>6, <1>9, <1>10, <1>11, <2>1
<1>13. ("queue" \in shut' => k = 1) /\ "clients" \notin shut'
    BY <1>6, <1>7, <1>10
<1> QED
    BY <1>2, <1>4, <1>11, <1>12, <1>13 DEF UndoesInOrder

LEMMA Started ==
    /\ steps' = StopOrder => StepsLeft(StopOrder, 13)'
    /\ steps' = UndoOrder => StepsLeft(UndoOrder, 5)'
<1>1. ASSUME steps' = StopOrder PROVE StepsLeft(StopOrder, 13)'
    BY <1>1, StopSteps DEF StepsLeft
<1>2. ASSUME steps' = UndoOrder PROVE StepsLeft(UndoOrder, 5)'
    BY <1>2, UndoSteps DEF StepsLeft
<1> QED
    BY <1>1, <1>2

LEMMA ProcessStop ==
    ASSUME StopInv, [LifecycleNext]_lifecycleVars
    PROVE  StopInv'
<1>1. ASSUME UNCHANGED <<phase, steps, taking, cancelled, shut, doing>> PROVE StopInv'
    BY <1>1 DEF StopInv, OnlyJobsAreCalled, StopsInOrder, UndoesInOrder, StepsLeft, NotThere,
        JobsQuiet, Under
<1>2. CASE StartServer
    BY <1>2 DEF StartServer, StopInv, OnlyJobsAreCalled
<1>3. CASE Serve
    BY <1>3 DEF Serve, StopInv, OnlyJobsAreCalled, Phases
<1>4. CASE StartFails
    <2>1. shut = {} /\ UNCHANGED <<shut, doing, taking>>
        BY <1>4 DEF StartFails, StopInv
    <2>2. \/ phase' = "undoing" /\ steps' = UndoOrder
          \/ phase' = "failed"
        BY <1>4 DEF StartFails
    <2>3. ASSUME steps' = UndoOrder PROVE UndoesInOrder'
        <3>1. Len(steps') = 5 /\ shut' = {}
            BY <2>1, <2>3, UndoSteps
        <3> QED
            BY <2>3, <3>1, Started DEF UndoesInOrder
    <2> QED
        BY <2>1, <2>2, <2>3 DEF StopInv, OnlyJobsAreCalled, Phases
<1>5. CASE BeginStop
    <2>1. shut = {} /\ UNCHANGED <<shut, doing, taking>> /\ phase' = "stopping" /\ steps' = StopOrder
        BY <1>5 DEF BeginStop, StopInv
    <2>2. StopsInOrder'
        BY <2>1, StopSteps, Started DEF StopsInOrder
    <2> QED
        BY <2>1, <2>2 DEF StopInv, OnlyJobsAreCalled, Phases
<1>6. CASE CloseStep
    <2>1. phase \in {"stopping", "undoing"} /\ phase' = phase /\ doing' = doing
        BY <1>6 DEF CloseStep
    <2> QED
        BY <1>6, <2>1, StopStep, UndoStep DEF StopInv, OnlyJobsAreCalled
<1>7. CASE Exit
    <2>1. phase' \in {"ended", "failed"} /\ doing' = [w \in Work |-> "none"]
        BY <1>7 DEF Exit
    <2> QED
        BY <2>1 DEF StopInv, OnlyJobsAreCalled, Phases, Progress
<1>8. ASSUME NEW w \in Work, WorkStep(w) PROVE StopInv'
    BY <1>8, WorkStepStop
<1>9. Signal \/ UNCHANGED lifecycleVars => UNCHANGED <<phase, steps, taking, cancelled, shut, doing>>
    BY DEF Signal, lifecycleVars
<1> QED
    BY <1>1, <1>2, <1>3, <1>4, <1>5, <1>6, <1>7, <1>8, <1>9 DEF LifecycleNext, WorkStep

\* The queue is shut only when no job has a transaction open, also the jobs that
\* Close could not wait for; the clients of the other services are closed only
\* when no request, no POP3 session and no Watch stream is left.  Any number of
\* handlers, sessions and jobs, however long each of them takes.
THEOREM StopIsOrderly == LifecycleSpec => []OrderlyStop
<1>1. LifecycleInit => StopInv
    BY DEF LifecycleInit, StopInv, Phases, Progress, OnlyJobsAreCalled
<1>2. StopInv /\ [LifecycleNext]_lifecycleVars => StopInv'
    BY ProcessStop
<1>3. StopInv => OrderlyStop
    <2> SUFFICES ASSUME StopInv PROVE OrderlyStop
        OBVIOUS
    <2>1. \A s : Under(s) \subseteq Work
        BY DEF Under
    <2>2. CASE phase \in {"starting", "running"}
        BY <2>2 DEF StopInv, OrderlyStop
    <2>3. CASE phase = "stopping"
        BY <2>3 DEF StopInv, OrderlyStop, StopsInOrder, StepsLeft, JobsQuiet, NotThere
    <2>4. CASE phase = "undoing"
        BY <2>4 DEF StopInv, OrderlyStop, UndoesInOrder, StepsLeft, JobsQuiet
    <2>5. CASE phase \in {"ended", "failed"}
        BY <2>1, <2>5 DEF StopInv, OrderlyStop
    <2> QED
        BY <2>2, <2>3, <2>4, <2>5 DEF StopInv, Phases
<1> QED
    BY <1>1, <1>2, <1>3, PTL DEF LifecycleSpec

-----------------------------------------------------------------------------
\* While Start has steps left they are its own, and the last is the HTTP server's.
Starts == {"start"} \X (Optional \cup {"grpc", "http"})

Starting ==
    phase = "starting" =>
        /\ steps \in Seq(Starts)
        /\ steps # <<>>
        /\ steps[Len(steps)] = <<"start", "http">>

\* What Stop or a failed Start has left closes servers, waits for them, cancels
\* the queue's context, or shuts the queue or the clients of other services.
Stops == ({"close", "wait", "cancel"} \X (Optional \cup {"grpc", "http"}))
         \cup ({"shut"} \X {"queue", "clients"})

Stopping == phase \in {"stopping", "undoing"} => steps \in Seq(Stops)

LifecycleInv == LifecycleTypeOK /\ Starting /\ Stopping

LEMMA StopOrders == StopOrder \in Seq(Stops) /\ UndoOrder \in Seq(Stops)
<1>1. /\ <<"close", "smtp">> \in Stops /\ <<"close", "imap">> \in Stops
      /\ <<"close", "pop3">> \in Stops /\ <<"wait", "pop3">> \in Stops
      /\ <<"cancel", "queue">> \in Stops /\ <<"close", "queue">> \in Stops
      /\ <<"wait", "queue">> \in Stops /\ <<"shut", "queue">> \in Stops
      /\ <<"close", "http">> \in Stops /\ <<"wait", "http">> \in Stops
      /\ <<"close", "grpc">> \in Stops /\ <<"wait", "grpc">> \in Stops
      /\ <<"shut", "clients">> \in Stops
    BY DEF Stops, Optional
<1> QED
    BY <1>1 DEF StopOrder, UndoOrder

LEMMA StartOrderType ==
    ASSUME NEW built \in SUBSET Optional
    PROVE  /\ StartOrder(built) \in Seq(Starts)
           /\ StartOrder(built) # <<>>
           /\ StartOrder(built)[Len(StartOrder(built))] = <<"start", "http">>
<1> DEFINE front == StartOf("queue", built) \o StartOf("smtp", built) \o StartOf("imap", built)
                    \o StartOf("pop3", built)
           back == << <<"start", "grpc">>, <<"start", "http">> >>
<1>1. ASSUME NEW server \in Optional PROVE StartOf(server, built) \in Seq(Starts)
    <2>1. <<"start", server>> \in Starts
        BY <1>1 DEF Starts
    <2> QED
        BY <2>1 DEF StartOf
<1>2. front \in Seq(Starts)
    <2>1. {"queue", "smtp", "imap", "pop3"} = Optional
        BY DEF Optional
    <2>2. \A s, t \in Seq(Starts) : s \o t \in Seq(Starts)
        OBVIOUS
    <2> QED
        BY <1>1, <2>1, <2>2
<1>3. back \in Seq(Starts) /\ Len(back) = 2 /\ back[2] = <<"start", "http">>
    <2>1. <<"start", "grpc">> \in Starts /\ <<"start", "http">> \in Starts
        BY DEF Starts
    <2> QED
        BY <2>1
<1>4. StartOrder(built) = front \o back
    BY DEF StartOrder
<1> HIDE DEF front, back
<1>5. front \o back \in Seq(Starts)
    BY <1>2, <1>3
<1>6. Len(front \o back) = Len(front) + 2 /\ Len(front) \in Nat
    <2>1. Len(front \o back) = Len(front) + Len(back)
        BY <1>2, <1>3, ConcatProperties, Zenon
    <2>2. Len(front) \in Nat
        BY <1>2
    <2> QED
        BY <1>3, <2>1, <2>2
<1>7. (front \o back)[Len(front) + 2] = back[2]
    <2>1. \A i \in 1 .. Len(front) + Len(back) :
              (front \o back)[i] = IF i <= Len(front) THEN front[i] ELSE back[i - Len(front)]
        BY <1>2, <1>3, ConcatProperties
    <2>2. Len(front) + 2 \in 1 .. Len(front) + Len(back) /\ ~(Len(front) + 2 <= Len(front))
        BY <1>3, <1>6
    <2>3. (front \o back)[Len(front) + 2] = back[(Len(front) + 2) - Len(front)]
        BY <2>1, <2>2
    <2>4. (Len(front) + 2) - Len(front) = 2
        BY <1>6
    <2> QED
        BY <2>3, <2>4
<1>8. front \o back # <<>>
    <2>1. Len(<<>>) = 0
        OBVIOUS
    <2>2. Len(front \o back) # 0
        BY <1>6
    <2> QED
        BY <2>1, <2>2
<1> QED
    BY <1>3, <1>4, <1>5, <1>6, <1>7, <1>8

LEMMA TailType ==
    ASSUME NEW S, NEW s \in Seq(S), s # <<>>
    PROVE  /\ Tail(s) \in Seq(S)
           /\ Head(s) = s[1] /\ Head(s) \in S
           /\ Len(s) > 1 => Tail(s) # <<>> /\ Tail(s)[Len(Tail(s))] = s[Len(s)]
<1>1. Len(s) \in Nat /\ Len(s) >= 1
    OBVIOUS
<1>2. Tail(s) \in Seq(S) /\ Len(Tail(s)) = Len(s) - 1
    OBVIOUS
<1>3. \A i \in 1 .. Len(s) - 1 : Tail(s)[i] = s[i + 1]
    OBVIOUS
<1>4. Head(s) = s[1] /\ Head(s) \in S
    BY <1>1
<1>5. ASSUME Len(s) > 1
      PROVE  Tail(s) # <<>> /\ Tail(s)[Len(Tail(s))] = s[Len(s)]
    <2>1. Len(s) - 1 \in 1 .. Len(s) - 1 /\ (Len(s) - 1) + 1 = Len(s)
        BY <1>1, <1>5
    <2>2. Tail(s)[Len(s) - 1] = s[Len(s)]
        BY <1>3, <2>1
    <2>3. Tail(s) # <<>>
        <3>1. Len(<<>>) = 0
            OBVIOUS
        <3>2. Len(Tail(s)) # 0
            BY <1>1, <1>2, <1>5
        <3> QED
            BY <3>1, <3>2
    <2> QED
        BY <1>2, <2>2, <2>3
<1> QED
    BY <1>2, <1>4, <1>5

LEMMA LifecycleInvStep == LifecycleInv /\ [LifecycleNext]_lifecycleVars => LifecycleInv'
<1> SUFFICES ASSUME LifecycleInv, [LifecycleNext]_lifecycleVars PROVE LifecycleInv'
    OBVIOUS
<1> USE DEF LifecycleInv, LifecycleTypeOK, Starting, Stopping
<1>0. /\ LifecycleTypeOK <=> /\ phase \in Phases
                             /\ steps \in Seq(Steps)
                             /\ taking \subseteq Optional \cup {"grpc", "http", "tick"}
                             /\ signalled \in BOOLEAN /\ cancelled \in BOOLEAN
                             /\ shut \subseteq {"queue", "clients"}
                             /\ doing \in [Work -> Progress]
      /\ <<>> \in Seq(Steps)
    BY DEF Steps
<1>1. CASE StartServer
    <2>1. steps \in Seq(Starts) /\ steps # <<>> /\ steps[Len(steps)] = <<"start", "http">>
        BY <1>1 DEF StartServer
    <2>2. Len(steps) > 1
        <3>1. Len(steps) = 1 => Head(steps)[2] = "http"
            BY <2>1, TailType
        <3> QED
            BY <1>1, <2>1, <3>1 DEF StartServer
    <2>3. Head(steps)[2] \in Optional \cup {"grpc", "http"}
        BY <2>1, TailType DEF Starts
    <2>4. steps' \in Seq(Starts) /\ steps' # <<>> /\ steps'[Len(steps')] = <<"start", "http">>
        BY <1>1, <2>1, <2>2, TailType DEF StartServer
    <2>5. steps' \in Seq(Steps)
        BY <1>0, <1>1, <2>1, TailType DEF StartServer
    <2> QED
        BY <1>1, <2>3, <2>4, <2>5 DEF StartServer, Steps
<1>2. CASE Serve
    BY <1>0, <1>2 DEF Serve, Phases, Steps
<1>3. CASE StartFails
    BY <1>0, <1>3, UndoSteps, StopOrders DEF StartFails, Phases, Steps
<1>4. CASE Signal
    BY <1>4 DEF Signal
<1>5. CASE BeginStop
    BY <1>5, StopSteps, StopOrders DEF BeginStop, Phases, Steps
<1>6. CASE CloseStep
    <2> DEFINE verb == Head(steps)[1]
               server == Head(steps)[2]
    <2>1. steps' \in Seq(Steps)
        BY <1>0, <1>6, TailType DEF CloseStep
    <2>5. steps' \in Seq(Stops) /\ Head(steps) \in Stops
        BY <1>6, TailType DEF CloseStep
    <2>2. phase' = phase /\ phase \in {"stopping", "undoing"} /\ doing' = doing /\ signalled' = signalled
        BY <1>6 DEF CloseStep
    <2>3. taking' \subseteq taking /\ cancelled' \in BOOLEAN
        BY <1>6 DEF CloseStep
    <2>4. shut' \subseteq {"queue", "clients"}
        <3>1. verb = "shut" => server \in {"queue", "clients"}
            BY <2>5 DEF Stops
        <3> QED
            BY <1>6, <3>1 DEF CloseStep
    <2> QED
        BY <2>1, <2>2, <2>3, <2>4, <2>5 DEF Steps
<1>7. CASE Exit
    BY <1>7 DEF Exit, Phases, Progress
<1>8. ASSUME NEW w \in Work, WorkStep(w) PROVE LifecycleInv'
    <2>1. PICK p \in Progress : doing' = [doing EXCEPT ![w] = p]
        BY <1>8 DEF WorkStep, BeginWork, JoinGroup, OpenTransaction, CloseTransaction, Finish, Progress
    <2>2. UNCHANGED <<phase, steps, taking, signalled, cancelled, shut>>
        BY <1>8 DEF WorkStep, BeginWork, JoinGroup, OpenTransaction, CloseTransaction, Finish
    <2> QED
        BY <2>1, <2>2
<1>9. CASE UNCHANGED lifecycleVars
    BY <1>9 DEF lifecycleVars
<1> QED
    BY <1>1, <1>2, <1>3, <1>4, <1>5, <1>6, <1>7, <1>8, <1>9 DEF LifecycleNext, WorkStep

\* The state of the process keeps its type: what is left to do is a sequence of
\* steps, whichever servers the configuration names and wherever a signal comes.
THEOREM LifecycleTypeCorrect == LifecycleSpec => []LifecycleTypeOK
<1>1. LifecycleInit => LifecycleInv
    <2> SUFFICES ASSUME LifecycleInit PROVE LifecycleInv
        OBVIOUS
    <2>1. /\ steps \in Seq(Starts) /\ steps # <<>>
          /\ steps[Len(steps)] = <<"start", "http">>
        BY StartOrderType DEF LifecycleInit
    <2>2. steps \in Seq({"start", "close", "wait", "cancel", "shut"}
                        \X (Optional \cup {"grpc", "http", "clients"}))
        BY <2>1 DEF Starts
    <2> QED
        BY <2>1, <2>2 DEF LifecycleInit, LifecycleInv, LifecycleTypeOK, Starting, Stopping, Phases,
            Progress
<1> QED
    BY <1>1, LifecycleInvStep, PTL DEF LifecycleSpec, LifecycleInv

-----------------------------------------------------------------------------
(* Relays.                                                                  *)

AttemptStates ==
    [at : {"idle", "routing", "storing", "dialling", "done", "failed", "over"},
     of : Outgoing, from : {"web", "smtp"}, todo : SUBSET Domains,
     batch : SUBSET Recipients, local : SUBSET Recipients,
     hosts : 0 .. Hosts, named : BOOLEAN, retry : BOOLEAN, hurt : BOOLEAN]

LEMMA NotStartedType == NotStarted \in AttemptStates
<1>1. (CHOOSE m \in Outgoing : TRUE) \in Outgoing
    BY RelayingAssumption
<1>2. 0 \in 0 .. Hosts
    BY RelayingAssumption
<1> QED
    BY <1>1, <1>2 DEF NotStarted, AttemptStates

LEMMA AddressTypes ==
    ASSUME NEW m \in Outgoing
    PROVE  /\ To[m] \in SUBSET Recipients
           /\ \A S \in SUBSET Recipients : DomainsOf(S) \in SUBSET Domains
           /\ \A a \in Recipients : DomainOf[a] \in Domains
<1>1. To[m] \in SUBSET Recipients
    BY RelayingAssumption
<1> QED
    BY <1>1 DEF DomainsOf, Domains

LEMMA RelayingInitType == RelayingInit => RelayingTypeOK
BY NotStartedType DEF RelayingInit, RelayingTypeOK, AttemptStates

-----------------------------------------------------------------------------
(* Where each recipient is.                                                 *)

\* Where attempt t, not yet ended, has address a.
Placed(t, a) ==
    \/ a \in t.local
    \/ a \in t.batch
    \/ <<t.of, a>> \in accepted
    \/ (t.from = "web" \/ a \notin Resolved) /\ (DomainOf[a] \in t.todo \/ router = "ses")

AttemptOK(t) ==
    /\ t.at \in {"routing", "storing", "dialling"} =>
        /\ \A a \in t.local : <<t.of, BoxOf[a]>> \in copies
        /\ \A a \in To[t.of] : Placed(t, a)
        /\ t.at = "routing" => t.batch = {}
    /\ t.at = "done" => Served(t.of)

AttemptAdvances == \A r \in Attempts : AttemptOK(attempt[r])
SentServed == \A m \in Outgoing : status[m] = "sent" => Served(m)
RelayInv == RelayingTypeOK /\ AttemptAdvances /\ SentServed

\* What a step that serves more does to the attempts and messages it leaves alone.
LEMMA Grows ==
    ASSUME router' = router, copies \subseteq copies', accepted \subseteq accepted'
    PROVE  /\ \A m : Served(m) => Served(m)'
           /\ \A t : AttemptOK(t) => AttemptOK(t)'
<1>1. ASSUME NEW m, Served(m) PROVE Served(m)'
    BY <1>1 DEF Served
<1>2. ASSUME NEW t, NEW a, Placed(t, a) PROVE Placed(t, a)'
    BY <1>2 DEF Placed
<1> QED
    BY <1>1, <1>2 DEF AttemptOK

\* A step of one attempt: it has to be checked for that attempt only.
LEMMA OneAttempt ==
    ASSUME RelayInv, NEW r \in Attempts, NEW t \in AttemptStates,
           attempt' = [attempt EXCEPT ![r] = t], AttemptOK(t)',
           router' = router, copies \subseteq copies', accepted \subseteq accepted',
           copies' \subseteq Outgoing \X Boxes, accepted' \subseteq Outgoing \X Recipients,
           indexed' \subseteq Outgoing \X Boxes,
           status' \in [Outgoing -> {"none", "pending", "sent", "failed"}],
           \A m \in Outgoing : status'[m] = "sent" => status[m] = "sent" \/ Served(m)'
    PROVE  RelayInv'
<1>1. /\ attempt' \in [Attempts -> AttemptStates]
      /\ attempt'[r] = t /\ \A q \in Attempts \ {r} : attempt'[q] = attempt[q]
    BY DEF RelayInv, RelayingTypeOK, AttemptStates
<1>2. RelayingTypeOK'
    BY <1>1 DEF RelayInv, RelayingTypeOK, AttemptStates
<1>3. AttemptAdvances'
    <2>1. ASSUME NEW q \in Attempts PROVE AttemptOK(attempt[q])'
        BY <1>1, Grows DEF RelayInv, AttemptAdvances
    <2> QED
        BY <2>1 DEF AttemptAdvances
<1>4. SentServed'
    BY Grows DEF RelayInv, SentServed
<1> QED
    BY <1>2, <1>3, <1>4 DEF RelayInv

\* An attempt that fails or has its outcome written promises nothing.
LEMMA EndedOK ==
    ASSUME NEW t, t.at \in {"idle", "failed", "over"} PROVE AttemptOK(t)
BY DEF AttemptOK

LEMMA AttemptType ==
    ASSUME RelayInv, NEW r \in Attempts
    PROVE  attempt[r] \in AttemptStates /\ AttemptOK(attempt[r])
BY DEF RelayInv, RelayingTypeOK, AttemptStates, AttemptAdvances

LEMMA PlaceType ==
    ASSUME RelayInv, NEW r \in Attempts
    PROVE  /\ attempt[r].of \in Outgoing /\ To[attempt[r].of] \in SUBSET Recipients
           /\ Bound(r) \in SUBSET Recipients
           /\ \A a \in To[attempt[r].of] :
                a \in Bound(r) <=> attempt[r].from = "web" \/ a \notin Resolved
<1>1. attempt[r].of \in Outgoing /\ attempt[r].from \in {"web", "smtp"}
    BY AttemptType DEF AttemptStates
<1> QED
    BY <1>1, AddressTypes DEF Bound

-----------------------------------------------------------------------------
(* The steps of an attempt.                                                 *)

LEMMA BeginStep ==
    ASSUME RelayInv, NEW r \in Attempts, NEW m \in Outgoing,
           SendWeb(r, m) \/ Resend(r, m) \/ Submit(r, m)
    PROVE  RelayInv'
<1> DEFINE Web(n, b) == [NotStarted EXCEPT !.at = "routing", !.of = m,
                            !.todo = DomainsOf(To[m]), !.named = n, !.retry = b]
           Smtp == [NotStarted EXCEPT !.at = "storing", !.of = m, !.from = "smtp",
                        !.batch = To[m] \cap Resolved, !.todo = DomainsOf(To[m] \ Resolved),
                        !.named = (m \in ClientNamed)]
<1>1. /\ To[m] \in SUBSET Recipients /\ DomainsOf(To[m]) \in SUBSET Domains
      /\ DomainsOf(To[m] \ Resolved) \in SUBSET Domains
    BY AddressTypes
<1>2. \A S : \A a \in S : DomainOf[a] \in DomainsOf(S)
    BY DEF DomainsOf
<1>3. /\ NotStarted.local = {} /\ NotStarted.batch = {} /\ NotStarted.from = "web"
      /\ NotStarted.retry = FALSE
    BY DEF NotStarted
<1>4. ASSUME NEW n \in BOOLEAN, NEW b \in BOOLEAN
      PROVE  Web(n, b) \in AttemptStates /\ AttemptOK(Web(n, b))'
    <2>1. Web(n, b) \in AttemptStates
        BY <1>1, NotStartedType DEF AttemptStates
    <2>2. PICK t \in AttemptStates : t = Web(n, b)
        BY <2>1
    <2>3. /\ t.at = "routing" /\ t.of = m /\ t.from = "web" /\ t.local = {} /\ t.batch = {}
          /\ t.todo = DomainsOf(To[m])
        BY <2>2, <1>3, NotStartedType DEF AttemptStates
    <2>4. AttemptOK(t)'
        BY <2>3, <1>2 DEF AttemptOK, Placed
    <2> QED
        BY <2>1, <2>2, <2>4
<1>5. Smtp \in AttemptStates /\ AttemptOK(Smtp)'
    <2>1. To[m] \cap Resolved \in SUBSET Recipients
        BY <1>1
    <2>2. Smtp \in AttemptStates
        <3>1. (m \in ClientNamed) \in BOOLEAN
            OBVIOUS
        <3>2. PICK n \in BOOLEAN : n = (m \in ClientNamed)
            BY <3>1
        <3> QED
            BY <1>1, <2>1, <3>2, NotStartedType DEF AttemptStates
    <2>3. PICK t \in AttemptStates : t = Smtp
        BY <2>2
    <2>4. /\ t.at = "storing" /\ t.of = m /\ t.from = "smtp" /\ t.local = {}
          /\ t.batch = To[m] \cap Resolved /\ t.todo = DomainsOf(To[m] \ Resolved)
        BY <2>3, <1>3, NotStartedType DEF AttemptStates
    <2>5. AttemptOK(t)'
        BY <2>4, <1>2 DEF AttemptOK, Placed
    <2> QED
        BY <2>2, <2>3, <2>5
<1>6. status \in [Outgoing -> {"none", "pending", "sent", "failed"}]
    BY DEF RelayInv, RelayingTypeOK
<1>7. CASE SendWeb(r, m)
    <2>1. PICK n \in BOOLEAN : attempt' = [attempt EXCEPT ![r] = Web(n, FALSE)]
        <3>1. PICK n \in BOOLEAN :
                attempt' = [attempt EXCEPT ![r] = [NotStarted EXCEPT
                    !.at = "routing", !.of = m, !.todo = DomainsOf(To[m]), !.named = n]]
            BY <1>7 DEF SendWeb
        <3>2. Web(n, FALSE) = [NotStarted EXCEPT
                    !.at = "routing", !.of = m, !.todo = DomainsOf(To[m]), !.named = n]
            BY <1>3, NotStartedType DEF AttemptStates
        <3> QED
            BY <3>1, <3>2
    <2> HIDE DEF Web
    <2> QED
        BY <1>4, <1>6, <1>7, <2>1, OneAttempt DEF SendWeb, RelayInv, RelayingTypeOK
<1>8. CASE Resend(r, m)
    <2>1. attempt' = [attempt EXCEPT ![r] = Web(TRUE, status[m] = "failed")]
        BY <1>8 DEF Resend
    <2>2. (status[m] = "failed") \in BOOLEAN
        OBVIOUS
    <2>3. PICK b \in BOOLEAN : attempt' = [attempt EXCEPT ![r] = Web(TRUE, b)]
        BY <2>1, <2>2
    <2> HIDE DEF Web
    <2> QED
        BY <1>4, <1>6, <1>8, <2>3, OneAttempt DEF Resend, RelayInv, RelayingTypeOK
<1>9. CASE Submit(r, m)
    <2>1. attempt' = [attempt EXCEPT ![r] = Smtp]
        BY <1>9 DEF Submit
    <2> HIDE DEF Smtp
    <2> QED
        BY <1>5, <1>6, <1>9, <2>1, OneAttempt DEF Submit, RelayInv, RelayingTypeOK
<1> QED
    BY <1>7, <1>8, <1>9

LEMMA StoringStep ==
    ASSUME RelayInv, NEW r \in Attempts, NEW a \in Recipients,
           StoreCopy(r, a) \/ CopyExists(r, a) \/ NoCopy(r, a) \/ CopyKeptButFails(r, a)
    PROVE  RelayInv'
<1>1. /\ attempt[r] \in AttemptStates /\ AttemptOK(attempt[r]) /\ attempt[r].of \in Outgoing
      /\ Delivered(r, a) \in SUBSET Recipients
    BY AttemptType, PlaceType DEF Delivered
<1>2. /\ copies \subseteq Outgoing \X Boxes /\ accepted \subseteq Outgoing \X Recipients
      /\ indexed \subseteq Outgoing \X Boxes
      /\ status \in [Outgoing -> {"none", "pending", "sent", "failed"}]
      /\ a \in Resolved => BoxOf[a] \in Boxes
    BY RelayingAssumption DEF RelayInv, RelayingTypeOK, Resolved
<1>3. CASE StoreCopy(r, a)
    <2>1. PICK t \in AttemptStates :
            t = [attempt[r] EXCEPT !.batch = @ \ Delivered(r, a), !.local = @ \cup Delivered(r, a)]
        BY <1>1 DEF AttemptStates
    <2>2. attempt' = [attempt EXCEPT ![r] = t]
        BY <1>3, <2>1 DEF StoreCopy, RelayInv, RelayingTypeOK
    <2>3. /\ t.at = "storing" /\ t.of = attempt[r].of /\ t.from = attempt[r].from
          /\ t.todo = attempt[r].todo
          /\ t.batch = attempt[r].batch \ Delivered(r, a)
          /\ t.local = attempt[r].local \cup Delivered(r, a)
        BY <1>1, <1>3, <2>1 DEF AttemptStates, StoreCopy
    <2>4. \A b \in Delivered(r, a) : BoxOf[b] = BoxOf[a]
        BY DEF Delivered
    <2>5. /\ copies' = copies \cup {<<attempt[r].of, BoxOf[a]>>} /\ a \in Resolved
          /\ router' = router /\ status' = status /\ accepted' = accepted
          /\ attempt[r].at = "storing"
          /\ indexed' \subseteq indexed \cup {<<attempt[r].of, BoxOf[a]>>}
        BY <1>3 DEF StoreCopy, Inserts
    <2>6. AttemptOK(t)'
        <3>1. \A b \in t.local : <<t.of, BoxOf[b]>> \in copies'
            BY <1>1, <2>3, <2>4, <2>5 DEF AttemptOK
        <3>2. \A b \in To[t.of] : Placed(t, b)'
            BY <1>1, <2>3, <2>5 DEF AttemptOK, Placed
        <3> QED
            BY <2>3, <3>1, <3>2 DEF AttemptOK
    <2>7. copies' \subseteq Outgoing \X Boxes /\ indexed' \subseteq Outgoing \X Boxes
        BY <1>1, <1>2, <2>5
    <2> QED
        BY <1>2, <2>2, <2>5, <2>6, <2>7, OneAttempt
<1>4. CASE CopyExists(r, a)
    <2>1. PICK t \in AttemptStates : t = [attempt[r] EXCEPT !.at = "failed"]
        BY <1>1 DEF AttemptStates
    <2>2. attempt' = [attempt EXCEPT ![r] = t] /\ t.at = "failed"
        BY <1>1, <1>4, <2>1 DEF CopyExists, Ends, AttemptStates
    <2>3. AttemptOK(t)'
        BY <2>2 DEF AttemptOK
    <2> QED
        BY <1>2, <1>4, <2>2, <2>3, OneAttempt DEF CopyExists
<1>5. CASE NoCopy(r, a) \/ CopyKeptButFails(r, a)
    <2>1. PICK t \in AttemptStates : t = [attempt[r] EXCEPT !.at = "failed", !.hurt = TRUE]
        BY <1>1 DEF AttemptStates
    <2>2. attempt' = [attempt EXCEPT ![r] = t] /\ t.at = "failed"
        BY <1>1, <1>5, <2>1
        DEF NoCopy, Aborts, CopyKeptButFails, AttemptStates, RelayInv, RelayingTypeOK
    <2>3. AttemptOK(t)'
        BY <2>2 DEF AttemptOK
    <2>4. /\ router' = router /\ status' = status /\ accepted' = accepted
          /\ copies \subseteq copies' /\ copies' \subseteq Outgoing \X Boxes
          /\ indexed' \subseteq Outgoing \X Boxes
        BY <1>1, <1>2, <1>5 DEF NoCopy, Aborts, CopyKeptButFails, Inserts
    <2> QED
        BY <1>2, <2>2, <2>3, <2>4, OneAttempt
<1> QED
    BY <1>3, <1>4, <1>5

LEMMA RouteStep ==
    ASSUME RelayInv, NEW r \in Attempts, NEW d \in Domains,
           RouteLocal(r, d) \/ RouteToProvider(r, d) \/ RouteDirect(r, d)
    PROVE  RelayInv'
<1>1. /\ attempt[r] \in AttemptStates /\ AttemptOK(attempt[r]) /\ attempt[r].at = "routing"
      /\ UNCHANGED <<router, status, copies, indexed, accepted>>
    BY AttemptType DEF RouteLocal, RouteToProvider, RouteDirect
<1>2. /\ copies \subseteq Outgoing \X Boxes /\ accepted \subseteq Outgoing \X Recipients
      /\ indexed \subseteq Outgoing \X Boxes
      /\ status \in [Outgoing -> {"none", "pending", "sent", "failed"}]
    BY DEF RelayInv, RelayingTypeOK
<1>3. /\ Of(r, d) \in SUBSET Recipients
      /\ \A a \in To[attempt[r].of] :
            DomainOf[a] = d /\ (attempt[r].from = "web" \/ a \notin Resolved) => a \in Of(r, d)
    BY PlaceType DEF Of, At
<1>4. CASE RouteLocal(r, d) \/ RouteDirect(r, d)
    <2>1. PICK at \in {"storing", "dialling"}, h \in 0 .. Hosts :
            attempt' = [attempt EXCEPT ![r] =
                [attempt[r] EXCEPT !.at = at, !.todo = @ \ {d}, !.batch = Of(r, d), !.hosts = h]]
        <3>1. CASE RouteLocal(r, d)
            <4>1. attempt[r].hosts \in 0 .. Hosts
                BY <1>1 DEF AttemptStates
            <4>2. attempt' = [attempt EXCEPT ![r] = [attempt[r] EXCEPT !.at = "storing",
                        !.todo = @ \ {d}, !.batch = Of(r, d), !.hosts = attempt[r].hosts]]
                BY <1>1, <3>1 DEF RouteLocal, AttemptStates, RelayInv, RelayingTypeOK
            <4> QED
                BY <4>1, <4>2
        <3>2. CASE RouteDirect(r, d)
            <4>1. Hosts \in 0 .. Hosts
                BY RelayingAssumption
            <4>2. attempt' = [attempt EXCEPT ![r] = [attempt[r] EXCEPT !.at = "dialling",
                        !.todo = @ \ {d}, !.batch = Of(r, d), !.hosts = Hosts]]
                BY <1>1, <3>2 DEF RouteDirect, AttemptStates, RelayInv, RelayingTypeOK
            <4> QED
                BY <4>1, <4>2
        <3> QED
            BY <1>4, <3>1, <3>2
    <2>2. PICK t \in AttemptStates : t =
            [attempt[r] EXCEPT !.at = at, !.todo = @ \ {d}, !.batch = Of(r, d), !.hosts = h]
        BY <1>1, <1>3 DEF AttemptStates
    <2>3. /\ t.at = at /\ t.of = attempt[r].of /\ t.from = attempt[r].from
          /\ t.local = attempt[r].local /\ t.todo = attempt[r].todo \ {d} /\ t.batch = Of(r, d)
        BY <1>1, <2>2 DEF AttemptStates
    <2>4. AttemptOK(t)'
        BY <1>1, <1>3, <2>3 DEF AttemptOK, Placed
    <2>5. attempt' = [attempt EXCEPT ![r] = t]
        BY <2>1, <2>2
    <2> QED
        BY <1>1, <1>2, <2>4, <2>5, OneAttempt
<1>5. CASE RouteToProvider(r, d)
    <2>1. PICK t \in AttemptStates : t = [attempt[r] EXCEPT !.todo = @ \ {d}]
        BY <1>1 DEF AttemptStates
    <2>2. attempt' = [attempt EXCEPT ![r] = t] /\ router = "ses"
        BY <1>5, <2>1 DEF RouteToProvider
    <2>3. /\ t.at = "routing" /\ t.of = attempt[r].of /\ t.from = attempt[r].from
          /\ t.local = attempt[r].local /\ t.todo = attempt[r].todo \ {d}
          /\ t.batch = attempt[r].batch
        BY <1>1, <2>1 DEF AttemptStates
    <2>4. AttemptOK(t)'
        BY <1>1, <2>2, <2>3 DEF AttemptOK, Placed
    <2> QED
        BY <1>1, <1>2, <2>2, <2>4, OneAttempt
<1> QED
    BY <1>4, <1>5

LEMMA AbortStep ==
    ASSUME RelayInv, NEW r \in Attempts,
           \/ \E d \in Domains : LookupFails(r, d)
           \/ ProviderFails(r) \/ NoHostLeft(r)
    PROVE  RelayInv'
<1>1. attempt[r] \in AttemptStates /\ Remaining(r) \in SUBSET Recipients
    BY AttemptType, PlaceType DEF Remaining
<1>2. PICK t \in AttemptStates : t = [attempt[r] EXCEPT !.at = "failed", !.hurt = TRUE]
    BY <1>1 DEF AttemptStates
<1>3. attempt' = [attempt EXCEPT ![r] = t] /\ t.at = "failed"
    BY <1>1, <1>2
    DEF LookupFails, ProviderFails, NoHostLeft, Aborts, AttemptStates, RelayInv, RelayingTypeOK
<1>4. AttemptOK(t)'
    BY <1>3 DEF AttemptOK
<1>5. /\ UNCHANGED <<router, status, copies, indexed>>
      /\ \E S \in {{}, Remaining(r)} : accepted' = accepted \cup ({attempt[r].of} \X S)
    BY DEF LookupFails, ProviderFails, NoHostLeft, Aborts
<1>6. /\ copies \subseteq Outgoing \X Boxes /\ accepted \subseteq Outgoing \X Recipients
      /\ indexed \subseteq Outgoing \X Boxes
      /\ status \in [Outgoing -> {"none", "pending", "sent", "failed"}]
      /\ attempt[r].of \in Outgoing
    BY PlaceType DEF RelayInv, RelayingTypeOK
<1>7. accepted \subseteq accepted' /\ accepted' \subseteq Outgoing \X Recipients
    BY <1>1, <1>5, <1>6
<1> QED
    BY <1>3, <1>4, <1>5, <1>6, <1>7, OneAttempt

LEMMA HostStep ==
    ASSUME RelayInv, NEW r \in Attempts, HostAccepts(r) \/ HostFails(r)
    PROVE  RelayInv'
<1>1. /\ attempt[r] \in AttemptStates /\ AttemptOK(attempt[r]) /\ attempt[r].at = "dialling"
      /\ attempt[r].hosts > 0 /\ attempt[r].batch \in SUBSET Recipients
      /\ attempt[r].of \in Outgoing
      /\ UNCHANGED <<router, status, copies, indexed>>
    BY AttemptType, PlaceType DEF HostAccepts, HostFails, AttemptStates
<1>2. /\ copies \subseteq Outgoing \X Boxes /\ accepted \subseteq Outgoing \X Recipients
      /\ indexed \subseteq Outgoing \X Boxes
      /\ status \in [Outgoing -> {"none", "pending", "sent", "failed"}]
    BY DEF RelayInv, RelayingTypeOK
<1>3. CASE HostAccepts(r)
    <2>1. PICK t \in AttemptStates : t = [attempt[r] EXCEPT !.at = "routing", !.batch = {}]
        BY <1>1 DEF AttemptStates
    <2>2. attempt' = [attempt EXCEPT ![r] = t]
        BY <1>3, <2>1 DEF HostAccepts, RelayInv, RelayingTypeOK
    <2>3. /\ t.at = "routing" /\ t.of = attempt[r].of /\ t.from = attempt[r].from
          /\ t.local = attempt[r].local /\ t.todo = attempt[r].todo /\ t.batch = {}
        BY <1>1, <2>1 DEF AttemptStates
    <2>4. accepted' = accepted \cup ({attempt[r].of} \X attempt[r].batch)
        BY <1>3 DEF HostAccepts
    <2>5. AttemptOK(t)'
        BY <1>1, <2>3, <2>4 DEF AttemptOK, Placed
    <2>6. accepted \subseteq accepted' /\ accepted' \subseteq Outgoing \X Recipients
        BY <1>1, <1>2, <2>4
    <2> QED
        BY <1>1, <1>2, <2>2, <2>5, <2>6, OneAttempt
<1>4. CASE HostFails(r)
    <2>1. attempt[r].hosts - 1 \in 0 .. Hosts
        BY <1>1, RelayingAssumption DEF AttemptStates
    <2>2. PICK t \in AttemptStates :
            t = [attempt[r] EXCEPT !.hosts = attempt[r].hosts - 1, !.hurt = TRUE]
        BY <1>1, <2>1 DEF AttemptStates
    <2>3. attempt' = [attempt EXCEPT ![r] = t]
        BY <1>4, <2>2 DEF HostFails, RelayInv, RelayingTypeOK
    <2>4. /\ t.at = "dialling" /\ t.of = attempt[r].of /\ t.from = attempt[r].from
          /\ t.local = attempt[r].local /\ t.todo = attempt[r].todo
          /\ t.batch = attempt[r].batch
        BY <1>1, <2>2 DEF AttemptStates
    <2>5. accepted \subseteq accepted' /\ accepted' \subseteq Outgoing \X Recipients
        BY <1>1, <1>2, <1>4 DEF HostFails
    <2>6. AttemptOK(t)'
        BY <1>1, <2>4, <2>5 DEF AttemptOK, Placed
    <2> QED
        BY <1>1, <1>2, <2>3, <2>5, <2>6, OneAttempt
<1> QED
    BY <1>3, <1>4

\* The steps after which an attempt claims that every recipient is served.
LEMMA DoneStep ==
    ASSUME RelayInv, NEW r \in Attempts, AskProvider(r) \/ AllDelivered(r)
    PROVE  RelayInv'
<1>1. /\ attempt[r] \in AttemptStates /\ AttemptOK(attempt[r]) /\ attempt[r].at = "routing"
      /\ attempt[r].todo = {} /\ attempt[r].of \in Outgoing
      /\ Remaining(r) \in SUBSET Recipients
      /\ UNCHANGED <<router, status, copies, indexed>>
    BY AttemptType, PlaceType DEF AskProvider, AllDelivered, Remaining
<1>2. /\ copies \subseteq Outgoing \X Boxes /\ accepted \subseteq Outgoing \X Recipients
      /\ indexed \subseteq Outgoing \X Boxes
      /\ status \in [Outgoing -> {"none", "pending", "sent", "failed"}]
    BY DEF RelayInv, RelayingTypeOK
<1>3. PICK t \in AttemptStates : t = [attempt[r] EXCEPT !.at = "done"]
    BY <1>1 DEF AttemptStates
<1>4. attempt' = [attempt EXCEPT ![r] = t] /\ t.at = "done" /\ t.of = attempt[r].of
    BY <1>1, <1>3 DEF AskProvider, AllDelivered, Ends, AttemptStates
<1>5. /\ accepted \subseteq accepted' /\ accepted' \subseteq Outgoing \X Recipients
      /\ router = "ses" => \A a \in Remaining(r) : <<attempt[r].of, a>> \in accepted'
    BY <1>1, <1>2 DEF AskProvider, AllDelivered
<1>6. ASSUME NEW a \in To[attempt[r].of]
      PROVE  <<attempt[r].of, a>> \in accepted' \/ <<attempt[r].of, BoxOf[a]>> \in copies'
    <2>1. Placed(attempt[r], a) /\ a \notin attempt[r].batch /\ DomainOf[a] \notin attempt[r].todo
        BY <1>1 DEF AttemptOK
    <2>2. CASE a \in attempt[r].local
        BY <1>1, <2>2 DEF AttemptOK
    <2>3. CASE <<attempt[r].of, a>> \in accepted
        BY <1>5, <2>3
    <2>4. CASE /\ a \notin attempt[r].local /\ router = "ses"
               /\ attempt[r].from = "web" \/ a \notin Resolved
        <3>1. a \in Remaining(r)
            BY <2>4, PlaceType DEF Remaining
        <3> QED
            BY <1>5, <2>4, <3>1
    <2> QED
        BY <2>1, <2>2, <2>3, <2>4 DEF Placed
<1>7. AttemptOK(t)'
    BY <1>4, <1>6 DEF AttemptOK, Served
<1> QED
    BY <1>1, <1>2, <1>4, <1>5, <1>7, OneAttempt

LEMMA EndStep ==
    ASSUME RelayInv, NEW r \in Attempts, EndOfBatch(r) \/ Record(r)
    PROVE  RelayInv'
<1>1. /\ attempt[r] \in AttemptStates /\ AttemptOK(attempt[r]) /\ attempt[r].of \in Outgoing
      /\ UNCHANGED <<router, copies, indexed, accepted>>
    BY AttemptType, PlaceType DEF EndOfBatch, Record
<1>2. /\ copies \subseteq Outgoing \X Boxes /\ accepted \subseteq Outgoing \X Recipients
      /\ indexed \subseteq Outgoing \X Boxes
      /\ status \in [Outgoing -> {"none", "pending", "sent", "failed"}]
    BY DEF RelayInv, RelayingTypeOK
<1>3. CASE EndOfBatch(r)
    <2>1. PICK t \in AttemptStates : t = [attempt[r] EXCEPT !.at = "routing"]
        BY <1>1 DEF AttemptStates
    <2>2. /\ attempt' = [attempt EXCEPT ![r] = t] /\ attempt[r].batch = {}
          /\ attempt[r].at = "storing" /\ status' = status
        BY <1>3, <2>1 DEF EndOfBatch, Ends
    <2>3. /\ t.at = "routing" /\ t.of = attempt[r].of /\ t.from = attempt[r].from
          /\ t.local = attempt[r].local /\ t.todo = attempt[r].todo
          /\ t.batch = attempt[r].batch
        BY <1>1, <2>1 DEF AttemptStates
    <2>4. AttemptOK(t)'
        BY <1>1, <2>2, <2>3 DEF AttemptOK, Placed
    <2> QED
        BY <1>1, <1>2, <2>2, <2>4, OneAttempt
<1>4. CASE Record(r)
    <2>1. PICK t \in AttemptStates : t = [attempt[r] EXCEPT !.at = "over"]
        BY <1>1 DEF AttemptStates
    <2>2. attempt' = [attempt EXCEPT ![r] = t] /\ t.at = "over"
        BY <1>1, <1>4, <2>1 DEF Record, Ends, AttemptStates
    <2>3. AttemptOK(t)'
        BY <2>2 DEF AttemptOK
    <2>4. \A m \in Outgoing : Served(m) => Served(m)'
        BY <1>1 DEF Served
    <2>5. \A m \in Outgoing : status'[m] = "sent" => status[m] = "sent" \/ Served(m)'
        BY <1>1, <1>2, <1>4, <2>4 DEF Record, AttemptOK
    <2>6. status' \in [Outgoing -> {"none", "pending", "sent", "failed"}]
        BY <1>1, <1>2, <1>4 DEF Record
    <2> QED
        BY <1>1, <1>2, <2>2, <2>3, <2>5, <2>6, OneAttempt
<1> QED
    BY <1>3, <1>4

LEMMA RelayStep == RelayInv /\ [RelayingNext]_relayVars => RelayInv'
<1> SUFFICES ASSUME RelayInv, [RelayingNext]_relayVars PROVE RelayInv'
    OBVIOUS
<1>1. CASE UNCHANGED relayVars
    BY <1>1
    DEF relayVars, RelayInv, RelayingTypeOK, AttemptAdvances, SentServed, AttemptOK, Placed, Served
<1> QED
    BY <1>1, BeginStep, StoringStep, RouteStep, AbortStep, HostStep, DoneStep, EndStep
    DEF RelayingNext

LEMMA RelayInitInv == RelayingInit => RelayInv
<1>1. NotStarted.at = "idle"
    BY DEF NotStarted
<1> QED
    BY <1>1, RelayingInitType
    DEF RelayingInit, RelayInv, AttemptAdvances, SentServed, AttemptOK

\* The type invariant of the relays.
THEOREM RelayingTypeCorrect == RelayingSpec => []RelayingTypeOK
<1>1. RelayInv => RelayingTypeOK
    BY DEF RelayInv
<1> QED
    BY <1>1, RelayInitInv, RelayStep, PTL DEF RelayingSpec

\* Neither the status "sent" nor the end of an attempt that reported no error is
\* reached with a recipient unserved (Send of local_mx_router.go and
\* direct_smtp.go, ResendEmail, submit), for any number of attempts at once.
THEOREM SentAlwaysMeansEveryone == RelayingSpec => []SentMeansEveryone
<1>1. RelayInv => SentMeansEveryone
    BY DEF RelayInv, AttemptAdvances, SentServed, AttemptOK, SentMeansEveryone
<1> QED
    BY <1>1, RelayInitInv, RelayStep, PTL DEF RelayingSpec
===============================================================================
