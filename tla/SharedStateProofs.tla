------------------------- MODULE SharedStateProofs --------------------------
(***************************************************************************)
(* Proofs about what the reports of one process share: the Graph token of  *)
(* GraphToken, for any set of callers, any lifetimes of tokens and any     *)
(* buffer, and the cost ledger of ModelCalls, for any number of report     *)
(* jobs, any estimates, overruns and caps, any number of days and restarts.*)
(***************************************************************************)
EXTENDS GraphToken, ModelCalls, FiniteSetTheorems, TLAPS

Typed ==
    /\ now \in Nat /\ asked \in Nat /\ asked <= now
    /\ phase \in [Callers -> Phases]
    /\ issued \in Token /\ cache \in Token
    /\ got \in [Callers -> [token : Token, at : Nat, cached : BOOLEAN]]

\* What a token says of its end leaves the buffer before its real end.
Careful(token) == token = NoToken \/ token.expires_at + Buffer <= token.ends

\* One caller at most is in the lock, and the cache it found useless stays
\* as it is, and useless, until its own answer replaces it.
LockInv ==
    /\ \A c, d \in InLock : c = d
    /\ InLock # {} => cache.expires_at <= now

\* Every token handed out is the cached one or is used up.
HandedOut ==
    \A d \in Callers : phase[d] = "done" =>
        got[d].token = cache \/ got[d].token.expires_at <= now

TokenInv ==
    /\ Typed
    /\ Careful(issued) /\ Careful(cache)
    /\ LockInv /\ HandedOut /\ CachedTokenLives

-----------------------------------------------------------------------------
\* What the assumption says of lifetimes and buffer.
LEMMA TokenConstants == Lifetimes \subseteq Nat \ {0} /\ Buffer \in Nat \ {0}
BY GraphTokenAssumption DEF GraphTokenAssumption

\* An empty cache satisfies the invariant.
LEMMA InitToken == TokenInit => TokenInv
<1> SUFFICES ASSUME TokenInit PROVE TokenInv
  OBVIOUS
<1>1. NoToken \in Token /\ Nothing \in [token : Token, at : Nat, cached : BOOLEAN]
  BY DEF NoToken, Nothing, Token
<1>2. InLock = {}
  BY DEF TokenInit, InLock
<1>3. Typed
  BY <1>1 DEF TokenInit, Typed, Phases
<1>4. Careful(issued) /\ Careful(cache)
  BY DEF TokenInit, Careful
<1>5. CachedTokenLives /\ HandedOut
  BY DEF TokenInit, CachedTokenLives, HandedOut, Nothing
<1>6. QED
  BY <1>2, <1>3, <1>4, <1>5 DEF TokenInv, LockInv

-----------------------------------------------------------------------------
\* A caller that takes the cached token gets one with the buffer left.
LEMMA UseCacheKeeps ==
    ASSUME TokenInv, NEW c \in Callers, UseCache(c)
    PROVE  TokenInv'
<1> USE TokenConstants
<1>1. phase' = [phase EXCEPT ![c] = "done"] /\ phase \in [Callers -> Phases]
  BY DEF UseCache, TokenInv, Typed
<1>2. /\ got' = [got EXCEPT ![c] = [token |-> cache, at |-> now, cached |-> TRUE]]
      /\ UNCHANGED <<now, asked, issued, cache>>
  BY DEF UseCache
<1>3. Typed'
  BY <1>1, <1>2 DEF TokenInv, Typed, Phases, Token
<1>4. InLock' = {} /\ InLock = {}
  BY <1>1 DEF UseCache, First, Free, InLock
<1>5. cache.ends > now + Buffer
  <2>1. cache # NoToken /\ cache.expires_at > now /\ Careful(cache)
    BY DEF UseCache, Usable, TokenInv
  <2>2. cache.expires_at + Buffer <= cache.ends
    BY <2>1 DEF Careful
  <2>3. cache.ends \in Nat /\ cache.expires_at \in Int /\ now \in Nat
    BY DEF TokenInv, Typed, Token
  <2>4. QED
    BY <2>1, <2>2, <2>3
<1>6. ASSUME NEW d \in Callers
      PROVE  /\ got'[d].cached => got'[d].token.ends > got'[d].at + Buffer
             /\ phase'[d] = "done" =>
                  got'[d].token = cache' \/ got'[d].token.expires_at <= now'
  <2>1. CASE d = c
    BY <1>2, <1>5, <2>1 DEF TokenInv, Typed
  <2>2. CASE d # c
    <3>1. got'[d] = got[d] /\ phase'[d] = phase[d]
      BY <1>1, <1>2, <2>2 DEF TokenInv, Typed
    <3>2. QED
      BY <3>1, <1>2 DEF TokenInv, HandedOut, CachedTokenLives
  <2>3. QED
    BY <2>1, <2>2
<1>7. CachedTokenLives' /\ HandedOut'
  BY <1>6 DEF CachedTokenLives, HandedOut
<1>8. Careful(issued)' /\ Careful(cache)'
  BY <1>2 DEF TokenInv, Careful
<1>9. QED
  BY <1>3, <1>4, <1>7, <1>8 DEF TokenInv, LockInv

\* A caller that starts a request found the cache useless and nobody else
\* in the lock.
LEMMA RequestKeeps ==
    ASSUME TokenInv, NEW c \in Callers, Request(c)
    PROVE  TokenInv'
<1>1. phase' = [phase EXCEPT ![c] = "requesting"] /\ phase \in [Callers -> Phases]
  BY DEF Request, TokenInv, Typed
<1>2. asked' = now /\ UNCHANGED <<now, issued, cache, got>>
  BY DEF Request
<1>3. Typed'
  BY <1>1, <1>2 DEF TokenInv, Typed, Phases
<1>4. InLock' = {c}
  BY <1>1 DEF Request, First, Free, InLock
<1>5. cache.expires_at <= now
  <2>1. cache.expires_at \in Int /\ now \in Nat
    BY DEF TokenInv, Typed, Token
  <2>2. cache = NoToken \/ ~(cache.expires_at > now)
    BY DEF Request, Usable
  <2>3. QED
    BY <2>1, <2>2 DEF NoToken
<1>6. HandedOut'
  BY <1>1, <1>2 DEF TokenInv, HandedOut
<1>7. CachedTokenLives' /\ Careful(issued)' /\ Careful(cache)'
  BY <1>2 DEF TokenInv, CachedTokenLives, Careful
<1>8. QED
  BY <1>2, <1>3, <1>4, <1>5, <1>6, <1>7 DEF TokenInv, LockInv

\* The token issued lives from now, the end written down counts from when
\* the clock was read.
LEMMA IssueKeeps ==
    ASSUME TokenInv, NEW c \in Callers, Issue(c)
    PROVE  TokenInv'
<1> USE TokenConstants
<1>1. /\ phase' = [phase EXCEPT ![c] = "answered"] /\ phase \in [Callers -> Phases]
      /\ phase[c] = "requesting"
  BY DEF Issue, TokenInv, Typed
<1>2. UNCHANGED <<now, asked, cache, got>>
  BY DEF Issue
<1>3. PICK length \in Lifetimes :
        issued' = [ends |-> now + length, expires_at |-> asked + length - Buffer]
  BY DEF Issue, ExpiresAt
<1>4. /\ length \in Nat /\ now \in Nat /\ asked \in Nat /\ asked <= now
  BY DEF TokenInv, Typed
<1>5. issued' \in Token /\ Careful(issued)'
  <2>1. issued' \in Token
    BY <1>3, <1>4 DEF Token
  <2>2. issued'.expires_at + Buffer <= issued'.ends
    BY <1>3, <1>4
  <2>3. QED
    BY <2>1, <2>2 DEF Careful
<1>6. Typed'
  BY <1>1, <1>2, <1>5 DEF TokenInv, Typed, Phases
<1>7. InLock' = InLock
  BY <1>1 DEF InLock
<1>8. HandedOut'
  BY <1>1, <1>2 DEF TokenInv, HandedOut
<1>9. CachedTokenLives' /\ Careful(cache)'
  BY <1>2 DEF TokenInv, CachedTokenLives, Careful
<1>10. QED
  BY <1>2, <1>5, <1>6, <1>7, <1>8, <1>9 DEF TokenInv, LockInv

\* The answer replaces a used-up token, so whoever has that one has a
\* used-up token.
LEMMA ReceiveKeeps ==
    ASSUME TokenInv, NEW c \in Callers, Receive(c)
    PROVE  TokenInv'
<1>1. /\ phase' = [phase EXCEPT ![c] = "done"] /\ phase \in [Callers -> Phases]
      /\ phase[c] = "answered"
  BY DEF Receive, TokenInv, Typed
<1>2. /\ got' = [got EXCEPT ![c] = [token |-> issued, at |-> now, cached |-> FALSE]]
      /\ cache' = issued /\ issued' = NoToken
      /\ UNCHANGED <<now, asked>>
  BY DEF Receive
<1>3. Typed'
  BY <1>1, <1>2 DEF TokenInv, Typed, Phases, Token, NoToken
<1>4. c \in InLock /\ \A d \in InLock : d = c
  BY <1>1 DEF InLock, TokenInv, LockInv
<1>5. InLock' = {}
  BY <1>1, <1>4 DEF InLock
<1>6. cache.expires_at <= now
  BY <1>4 DEF TokenInv, LockInv
<1>7. ASSUME NEW d \in Callers
      PROVE  /\ got'[d].cached => got'[d].token.ends > got'[d].at + Buffer
             /\ phase'[d] = "done" =>
                  got'[d].token = cache' \/ got'[d].token.expires_at <= now'
  <2>1. CASE d = c
    BY <1>2, <2>1 DEF TokenInv, Typed
  <2>2. CASE d # c
    <3>1. got'[d] = got[d] /\ phase'[d] = phase[d]
      BY <1>1, <1>2, <2>2 DEF TokenInv, Typed
    <3>2. QED
      BY <3>1, <1>2, <1>6 DEF TokenInv, HandedOut, CachedTokenLives
  <2>3. QED
    BY <2>1, <2>2
<1>8. CachedTokenLives' /\ HandedOut'
  BY <1>7 DEF CachedTokenLives, HandedOut
<1>9. Careful(issued)' /\ Careful(cache)'
  BY <1>2 DEF TokenInv, Careful
<1>10. QED
  BY <1>3, <1>5, <1>8, <1>9 DEF TokenInv, LockInv

\* Asking and failing hand out nothing and take no lock.
LEMMA AskOrFailKeeps ==
    ASSUME TokenInv, NEW c \in Callers, Ask(c) \/ Fail(c)
    PROVE  TokenInv'
<1>1. PICK p \in {"waiting", "failed"} : phase' = [phase EXCEPT ![c] = p]
  BY DEF Ask, Fail
<1>2. UNCHANGED <<now, asked, cache, got>> /\ issued' \in {issued, NoToken}
  BY DEF Ask, Fail
<1>3. phase \in [Callers -> Phases]
  BY DEF TokenInv, Typed
<1>4. Typed'
  BY <1>1, <1>2, <1>3 DEF TokenInv, Typed, Phases, Token, NoToken
<1>5. InLock' \subseteq InLock
  BY <1>1, <1>3 DEF InLock
<1>6. HandedOut'
  BY <1>1, <1>2, <1>3 DEF TokenInv, HandedOut
<1>7. CachedTokenLives' /\ Careful(issued)' /\ Careful(cache)'
  BY <1>2 DEF TokenInv, CachedTokenLives, Careful
<1>8. QED
  BY <1>2, <1>4, <1>5, <1>6, <1>7 DEF TokenInv, LockInv

\* Time only uses tokens up.
LEMMA TickKeeps ==
    ASSUME TokenInv, Tick
    PROVE  TokenInv'
<1>1. now' = now + 1 /\ UNCHANGED <<queue, phase, asked, issued, cache, got>>
  BY DEF Tick
<1>2. Typed'
  BY <1>1 DEF TokenInv, Typed
<1>3. InLock' = InLock
  BY <1>1 DEF InLock
<1>4. cache.expires_at \in Int /\ now \in Nat
  BY DEF TokenInv, Typed, Token
<1>5. LockInv'
  BY <1>1, <1>3, <1>4 DEF TokenInv, LockInv
<1>6. HandedOut'
  <2>1. ASSUME NEW d \in Callers, phase[d] = "done"
        PROVE  got[d].token = cache \/ got[d].token.expires_at <= now + 1
    <3>1. got[d].token \in Token
      BY DEF TokenInv, Typed
    <3>2. got[d].token.expires_at \in Int
      BY <3>1 DEF Token
    <3>3. QED
      BY <2>1, <3>2, <1>4 DEF TokenInv, HandedOut
  <2>2. QED
    BY <2>1, <1>1 DEF HandedOut
<1>7. CachedTokenLives' /\ Careful(issued)' /\ Careful(cache)'
  BY <1>1 DEF TokenInv, CachedTokenLives, Careful
<1>8. QED
  BY <1>2, <1>5, <1>6, <1>7 DEF TokenInv

\* Every step keeps it.
LEMMA NextToken == TokenInv /\ [TokenNext]_tokenVars => TokenInv'
<1> SUFFICES ASSUME TokenInv, [TokenNext]_tokenVars PROVE TokenInv'
  OBVIOUS
<1>1. CASE Tick
  BY <1>1, TickKeeps
<1>2. ASSUME NEW c \in Callers, Step(c) PROVE TokenInv'
  <2>1. CASE Ask(c) \/ Fail(c)
    BY <2>1, AskOrFailKeeps
  <2>2. CASE UseCache(c)
    BY <2>2, UseCacheKeeps
  <2>3. CASE Request(c)
    BY <2>3, RequestKeeps
  <2>4. CASE Issue(c)
    BY <2>4, IssueKeeps
  <2>5. CASE Receive(c)
    BY <2>5, ReceiveKeeps
  <2>6. QED
    BY <1>2, <2>1, <2>2, <2>3, <2>4, <2>5 DEF Step
<1>3. CASE UNCHANGED tokenVars
  BY <1>3 DEF tokenVars, TokenInv, Typed, Careful, LockInv, InLock, HandedOut, CachedTokenLives
<1>4. QED
  BY <1>1, <1>2, <1>3 DEF TokenNext

-----------------------------------------------------------------------------
\* A token from the cache outlives its return by the buffer, for any number
\* of callers and however slow Entra answers (get_graph_token).
THEOREM CachedTokensLive == TokenSpec => []CachedTokenLives
<1>1. TokenInv => CachedTokenLives
  BY DEF TokenInv
<1>2. QED
  BY InitToken, NextToken, <1>1, PTL DEF TokenSpec

\* No request starts beside another one or while a token handed out before
\* is still good: the lock is held over the request, and who waited for it
\* looks into the cache first (get_graph_token).
THEOREM RequestsAreNotRepeated == TokenSpec => NoRepeatedRequest
<1> DEFINE Once ==
      \A c, d \in Callers :
          phase[c] = "waiting" /\ phase'[c] = "requesting" =>
             /\ d \notin InLock
             /\ phase[d] = "done" => got[d].token.expires_at <= now
<1>1. ASSUME TokenInv, TokenNext PROVE Once
  <2> SUFFICES ASSUME NEW c \in Callers, NEW d \in Callers,
                      phase[c] = "waiting", phase'[c] = "requesting"
               PROVE  /\ d \notin InLock
                      /\ phase[d] = "done" => got[d].token.expires_at <= now
    OBVIOUS
  <2>1. phase \in [Callers -> Phases]
    BY <1>1 DEF TokenInv, Typed
  <2>2. ~Tick
    BY DEF Tick
  <2>3. PICK e \in Callers : Step(e)
    BY <1>1, <2>2 DEF TokenNext
  <2>4. Request(e)
    BY <2>1, <2>3 DEF Step, Ask, UseCache, Request, Issue, Receive, Fail
  <2>5. InLock = {} /\ ~Usable
    BY <2>4 DEF Request, First, Free
  <2>6. cache.expires_at <= now
    <3>1. cache.expires_at \in Int /\ now \in Nat
      BY <1>1 DEF TokenInv, Typed, Token
    <3>2. QED
      BY <2>5, <3>1 DEF Usable, NoToken
  <2>7. QED
    BY <1>1, <2>5, <2>6 DEF TokenInv, HandedOut
<1>2. ASSUME TokenInv, [TokenNext]_tokenVars PROVE [Once]_tokenVars
  BY <1>1, <1>2
<1>3. [][Once]_tokenVars <=> NoRepeatedRequest
  BY DEF NoRepeatedRequest
<1>4. QED
  BY InitToken, NextToken, <1>2, PTL DEF TokenSpec, NoRepeatedRequest

-----------------------------------------------------------------------------
(***************************************************************************)
(* The cost ledger.                                                        *)
(***************************************************************************)

\* Without a key no call is sent; a key only changes with the process.
KeyInv == ~key => InFlight = {}

\* A day nothing surprising happened on: at most one call is in flight, its
\* estimate still fits, and nothing is charged that is not in the ledger.
QuietDay ==
    causes = {} =>
        /\ billed <= CostToday /\ billed < DailyCap
        /\ \A s, t \in InFlight : s = t
        /\ \A t \in InFlight : CostToday + call[t].estimate < DailyCap

CostInv ==
    /\ CostTypeOK /\ KeyInv /\ LedgersAgree
    /\ OvershootBounded /\ QuietDay

-----------------------------------------------------------------------------
\* What the assumption says, and the bound it gives on one call's cost.
LEMMA CostConstants ==
    /\ IsFiniteSet(Tasks) /\ Cardinality(Tasks) \in Nat \ {0}
    /\ Estimates \subseteq Nat /\ Overrun \in Nat /\ DailyCap \in Nat \ {0}
    /\ Days \in Nat /\ Restarts \in Nat
    /\ MaxEstimate \in Nat /\ \A e \in Estimates : e <= MaxEstimate
    /\ MaxCost \in Nat
<1>1. MaxEstimate \in Estimates /\ \A e \in Estimates : e <= MaxEstimate
  BY ModelCallsAssumption DEF ModelCallsAssumption, MaxEstimate
<1>2. Cardinality(Tasks) \in Nat \ {0}
  BY ModelCallsAssumption, FS_CardinalityType, FS_EmptySet DEF ModelCallsAssumption
<1>3. QED
  BY ModelCallsAssumption, <1>1, <1>2 DEF ModelCallsAssumption, MaxCost

\* An estimate is at most the largest one.
LEMMA EstimateType ==
    \A e \in Estimates \cup {0} : e \in Nat /\ e <= MaxEstimate
BY CostConstants

\* So is that of a call that waits.
LEMMA AwaitedEstimate ==
    ASSUME CostTypeOK, NEW t \in Tasks
    PROVE  call[t].estimate \in Nat /\ call[t].estimate <= MaxEstimate
<1>1. call[t].estimate \in Estimates \cup {0}
  BY DEF CostTypeOK
<1>2. QED
  BY <1>1, EstimateType

\* Multiples of the dearest call, as far as they are needed.
LEMMA Multiples ==
    ASSUME NEW n \in Nat, NEW m \in Nat
    PROVE  /\ MaxCost * n \in Nat
           /\ n <= m => MaxCost * n <= MaxCost * m
           /\ MaxCost * (n + 1) = MaxCost * n + MaxCost
<1>1. MaxCost \in Nat
  BY CostConstants
<1>2. ASSUME NEW c \in Nat PROVE c * n \in Nat /\ c * (n + 1) = c * n + c
  OBVIOUS
<1>3. ASSUME NEW c \in Nat, n <= m PROVE c * n <= c * m
  <2>1. PICK d \in Nat : m = n + d
    BY <1>3
  <2>2. c * m = c * n + c * d /\ c * d \in Nat /\ c * n \in Nat
    BY <2>1
  <2>3. QED
    BY <2>2
<1>4. QED
  BY <1>1, <1>2, <1>3

\* There are at most as many calls in flight as tasks.
LEMMA InFlightCount ==
    /\ IsFiniteSet(InFlight)
    /\ Cardinality(InFlight) \in Nat /\ Cardinality(InFlight) <= Cardinality(Tasks)
<1>1. InFlight \subseteq Tasks
  BY DEF InFlight
<1>2. QED
  BY <1>1, CostConstants, FS_Subset, FS_CardinalityType

\* What a day costs, after the bookkeeping of a step.
LEMMA CostAfterReset ==
    ASSUME CostTypeOK, NEW cost \in Nat, CheckReset(cost), today' = today
    PROVE  CostToday' = cost /\ last_reset' \in 0..today' /\ daily_cost' \in Nat
BY DEF CostTypeOK, CheckReset, CostToday

\* Today's cost is a number.
LEMMA CostTodayType == CostTypeOK => CostToday \in Nat
BY DEF CostTypeOK, CostToday

\* One call more in flight, and one less.
LEMMA SentCount ==
    ASSUME CostTypeOK, NEW t \in Tasks, ~call[t].sent, NEW e \in Estimates,
           call' = [call EXCEPT ![t] = [estimate |-> e, sent |-> TRUE]]
    PROVE  /\ InFlight' = InFlight \cup {t} /\ t \notin InFlight
           /\ Cardinality(InFlight') = Cardinality(InFlight) + 1
           /\ Cardinality(InFlight') <= Cardinality(Tasks)
           /\ call'[t].estimate = e
<1>1. InFlight' = InFlight \cup {t} /\ t \notin InFlight /\ call'[t].estimate = e
  BY DEF CostTypeOK, InFlight
<1>2. Cardinality(InFlight \cup {t}) = Cardinality(InFlight) + 1
  BY <1>1, InFlightCount, FS_AddElement
<1>3. InFlight \cup {t} \subseteq Tasks
  BY DEF InFlight
<1>4. Cardinality(InFlight \cup {t}) <= Cardinality(Tasks)
  BY <1>3, CostConstants, FS_Subset
<1>5. QED
  BY <1>1, <1>2, <1>4

\* A call that ends leaves one call less in flight.
LEMMA EndedCount ==
    ASSUME CostTypeOK, NEW t \in Tasks, call[t].sent,
           call' = [call EXCEPT ![t] = NoCall]
    PROVE  /\ InFlight' = InFlight \ {t} /\ t \in InFlight
           /\ Cardinality(InFlight) = Cardinality(InFlight') + 1
           /\ Cardinality(InFlight') \in Nat
           /\ \A s \in InFlight' : call'[s] = call[s]
<1>1. InFlight' = InFlight \ {t} /\ t \in InFlight
  BY DEF CostTypeOK, InFlight, NoCall
<1>2. Cardinality(InFlight \ {t}) = Cardinality(InFlight) - 1
  BY <1>1, InFlightCount, FS_RemoveElement
<1>3. IsFiniteSet(InFlight \ {t})
  BY InFlightCount, FS_Subset
<1>4. Cardinality(InFlight \ {t}) \in Nat
  BY <1>3, FS_CardinalityType
<1>5. \A s \in InFlight' : call'[s] = call[s]
  BY <1>1 DEF CostTypeOK, InFlight
<1>6. QED
  BY <1>1, <1>2, <1>4, <1>5, InFlightCount

-----------------------------------------------------------------------------
\* A fresh process satisfies the invariant.
LEMMA InitCost == Init => CostInv
<1> SUFFICES ASSUME Init PROVE CostInv
  OBVIOUS
<1> USE CostConstants
<1>1. InFlight = {} /\ CostToday = 0
  BY DEF Init, InFlight, CostToday, NoCall
<1>2. CostTypeOK
  BY DEF Init, CostTypeOK, NoCall
<1>3. Cardinality(InFlight) = 0
  BY <1>1, FS_EmptySet
<1>4. OvershootBounded
  <2>1. MaxCost * 0 = 0 /\ MaxCost * Cardinality(Tasks) \in Nat
    BY Multiples
  <2>2. QED
    BY <1>1, <1>3, <2>1 DEF OvershootBounded
<1>5. LedgersAgree /\ KeyInv /\ QuietDay
  BY <1>1 DEF Init, LedgersAgree, KeyInv, QuietDay
<1>6. QED
  BY <1>2, <1>4, <1>5 DEF CostInv

\* A look at the tracker changes nothing that counts.
LEMMA LookKeeps ==
    ASSUME CostInv, CheckReset(CostToday),
           UNCHANGED <<key, today, model_costs, call, history, restarts>>
    PROVE  CostInv'
<1>1. CostToday' = CostToday /\ last_reset' \in 0..today' /\ daily_cost' \in Nat
  BY CostTodayType, CostAfterReset DEF CostInv
<1>2. CostTypeOK'
  BY <1>1 DEF CostInv, CostTypeOK, history
<1>3. InFlight' = InFlight /\ causes' = causes /\ billed' = billed /\ key' = key
  BY DEF InFlight, history
<1>4. LedgersAgree' /\ KeyInv' /\ OvershootBounded'
  BY <1>1, <1>3 DEF CostInv, LedgersAgree, KeyInv, OvershootBounded, history
<1>5. QuietDay'
  BY <1>1, <1>3 DEF CostInv, QuietDay
<1>6. QED
  BY <1>2, <1>4, <1>5 DEF CostInv

-----------------------------------------------------------------------------
\* The budget left room for this call, however many are in flight.
LEMMA SendKeeps ==
    ASSUME CostInv, NEW t \in Tasks, Send(t)
    PROVE  CostInv'
<1> USE CostConstants
<1>1. PICK e \in Estimates :
        /\ WithinBudget(e)
        /\ call' = [call EXCEPT ![t] = [estimate |-> e, sent |-> TRUE]]
  BY DEF Send
<1>2. CostTypeOK /\ CostToday \in Nat /\ e \in Nat /\ ~call[t].sent /\ key
  BY CostTodayType DEF CostInv, Send
<1>3. CostToday' = CostToday /\ last_reset' \in 0..today' /\ daily_cost' \in Nat
  BY <1>2, CostAfterReset DEF Send
<1>4. CostTypeOK'
  <2>1. call' \in [Tasks -> [estimate : Estimates \cup {0}, sent : BOOLEAN]]
    BY <1>1, <1>2 DEF CostTypeOK
  <2>2. causes' \subseteq {"overlap", "overrun", "lost", "midnight", "restart"}
    BY <1>2 DEF Send, Because, CostTypeOK
  <2>3. QED
    BY <1>2, <1>3, <2>1, <2>2 DEF Send, CostTypeOK
<1>5. /\ InFlight' = InFlight \cup {t}
      /\ Cardinality(InFlight') = Cardinality(InFlight) + 1
      /\ Cardinality(InFlight') <= Cardinality(Tasks)
      /\ call'[t].estimate = e
  BY <1>1, <1>2, SentCount
<1>6. OvershootBounded'
  <2>1. Cardinality(InFlight') \in Nat
    BY <1>5, InFlightCount
  <2>2. /\ MaxCost * Cardinality(InFlight') <= MaxCost * Cardinality(Tasks)
        /\ MaxCost * Cardinality(InFlight') \in Nat
        /\ MaxCost * Cardinality(Tasks) \in Nat
    BY <1>5, <2>1, Multiples
  <2>3. CostToday < DailyCap
    BY <1>1, <1>2 DEF WithinBudget
  <2>4. QED
    BY <1>2, <1>3, <2>2, <2>3 DEF OvershootBounded
<1>7. QuietDay'
  <2> SUFFICES ASSUME causes' = {} PROVE QuietDay'
    BY DEF QuietDay
  <2>1. InFlight = {} /\ causes = {}
    BY DEF Send, Because
  <2>2. InFlight' = {t} /\ CostToday' + call'[t].estimate < DailyCap
    BY <1>1, <1>3, <1>5, <2>1 DEF WithinBudget
  <2>3. billed' = billed
    BY DEF Send
  <2>4. QED
    BY <1>3, <2>1, <2>2, <2>3 DEF CostInv, QuietDay
<1>8. LedgersAgree' /\ KeyInv'
  BY <1>2, <1>3 DEF CostInv, Send, LedgersAgree, KeyInv
<1>9. QED
  BY <1>4, <1>6, <1>7, <1>8 DEF CostInv

\* An answer is recorded where the call in flight stops counting.
LEMMA AnswerKeeps ==
    ASSUME CostInv, NEW t \in Tasks, Answer(t)
    PROVE  CostInv'
<1> USE CostConstants
<1>1. CostTypeOK /\ CostToday \in Nat /\ call[t].sent /\ call[t].estimate \in Nat
  <2>1. CostTypeOK /\ CostToday \in Nat
    BY CostTodayType DEF CostInv
  <2>2. call[t].estimate \in Nat
    BY <2>1, AwaitedEstimate
  <2>3. call[t].sent
    BY Zenon DEF Answer
  <2>4. QED
    BY <2>1, <2>2, <2>3
<1>2. PICK cost \in 0..(call[t].estimate + Overrun) :
        Record(cost) /\ Charge(cost) /\ Because(cost > call[t].estimate, "overrun")
  BY DEF Answer
<1>3. cost \in Nat /\ cost <= MaxCost
  <2>1. call[t].estimate <= MaxEstimate
    BY <1>1, AwaitedEstimate
  <2>2. QED
    BY <1>2, <1>1, <2>1 DEF MaxCost
<1>4. /\ CostToday' = CostToday + cost
      /\ last_reset' \in 0..today' /\ daily_cost' \in Nat
  BY <1>2, <1>1, <1>3, CostAfterReset DEF Answer, Record
<1>5. CostTypeOK'
  <2>1. call' \in [Tasks -> [estimate : Estimates \cup {0}, sent : BOOLEAN]]
    BY <1>1 DEF Answer, CostTypeOK, NoCall
  <2>2. causes' \subseteq {"overlap", "overrun", "lost", "midnight", "restart"}
    BY <1>2, <1>1 DEF Because, CostTypeOK
  <2>3. answered' \in Nat /\ lifetime' \in Nat /\ model_costs' \in Nat /\ billed' \in Nat
    BY <1>2, <1>1, <1>3 DEF Record, Charge, CostTypeOK
  <2>4. QED
    BY <1>1, <1>4, <2>1, <2>2, <2>3 DEF Answer, CostTypeOK
<1>6. /\ InFlight' = InFlight \ {t} /\ t \in InFlight
      /\ Cardinality(InFlight) = Cardinality(InFlight') + 1
      /\ Cardinality(InFlight') \in Nat
  BY <1>1, EndedCount DEF Answer
<1>7. OvershootBounded'
  <2>1. /\ MaxCost * Cardinality(InFlight) = MaxCost * Cardinality(InFlight') + MaxCost
        /\ MaxCost * Cardinality(InFlight') \in Nat
        /\ MaxCost * Cardinality(Tasks) \in Nat
    BY <1>6, Multiples
  <2>2. CostToday + MaxCost * Cardinality(InFlight)
            < DailyCap + MaxCost * Cardinality(Tasks)
    BY DEF CostInv, OvershootBounded
  <2>3. QED
    BY <1>1, <1>3, <1>4, <2>1, <2>2 DEF OvershootBounded
<1>8. QuietDay'
  <2> SUFFICES ASSUME causes' = {} PROVE QuietDay'
    BY DEF QuietDay
  <2>1. causes = {} /\ ~(cost > call[t].estimate)
    BY <1>2 DEF Because
  <2>2. /\ billed <= CostToday /\ CostToday + call[t].estimate < DailyCap
        /\ \A s \in InFlight : s = t
    BY <1>6, <2>1 DEF CostInv, QuietDay
  <2>3. billed' <= CostToday' /\ billed' < DailyCap
    <3>1. billed \in Nat /\ (billed' = billed + cost \/ billed' = billed)
      BY <1>2, <1>1 DEF Charge, CostTypeOK
    <3>2. QED
      BY <1>1, <1>3, <1>4, <2>1, <2>2, <3>1
  <2>4. InFlight' = {}
    BY <1>6, <2>2
  <2>5. QED
    BY <2>3, <2>4 DEF QuietDay
<1>9. LedgersAgree' /\ KeyInv'
  BY <1>2, <1>4, <1>6 DEF CostInv, Answer, Record, LedgersAgree, KeyInv
<1>10. QED
  BY <1>5, <1>7, <1>8, <1>9 DEF CostInv

-----------------------------------------------------------------------------
\* A call that raises only leaves the set of those in flight.
LEMMA LoseKeeps ==
    ASSUME CostInv, NEW t \in Tasks, Lose(t)
    PROVE  CostInv'
<1> USE CostConstants
<1>1. PICK cost \in {0, call[t].estimate} :
        Charge(cost) /\ Because(cost > 0, "lost")
  BY DEF Lose
<1>2. CostTypeOK /\ CostToday \in Nat /\ call[t].sent /\ cost \in Nat
  <2>1. CostTypeOK /\ CostToday \in Nat
    BY CostTodayType DEF CostInv
  <2>2. call[t].estimate \in Nat
    BY <2>1, AwaitedEstimate
  <2>3. call[t].sent
    BY Zenon DEF Lose
  <2>4. QED
    BY <1>1, <2>1, <2>2, <2>3
<1>3. CostToday' = CostToday
  BY DEF Lose, ledger, CostToday
<1>4. CostTypeOK'
  <2>1. call' \in [Tasks -> [estimate : Estimates \cup {0}, sent : BOOLEAN]]
    BY <1>2 DEF Lose, CostTypeOK, NoCall
  <2>2. causes' \subseteq {"overlap", "overrun", "lost", "midnight", "restart"}
    BY <1>1, <1>2 DEF Because, CostTypeOK
  <2>3. billed' \in Nat
    BY <1>1, <1>2 DEF Charge, CostTypeOK
  <2>4. QED
    BY <1>2, <2>1, <2>2, <2>3 DEF Lose, ledger, CostTypeOK
<1>5. /\ InFlight' = InFlight \ {t} /\ t \in InFlight
      /\ Cardinality(InFlight) = Cardinality(InFlight') + 1
      /\ Cardinality(InFlight') \in Nat
  BY <1>2, EndedCount DEF Lose
<1>6. OvershootBounded'
  <2>1. /\ MaxCost * Cardinality(InFlight) = MaxCost * Cardinality(InFlight') + MaxCost
        /\ MaxCost * Cardinality(InFlight') \in Nat
        /\ MaxCost * Cardinality(Tasks) \in Nat
    BY <1>5, Multiples
  <2>2. CostToday + MaxCost * Cardinality(InFlight)
            < DailyCap + MaxCost * Cardinality(Tasks)
    BY DEF CostInv, OvershootBounded
  <2>3. QED
    BY <1>2, <1>3, <2>1, <2>2 DEF OvershootBounded
<1>7. QuietDay'
  <2> SUFFICES ASSUME causes' = {} PROVE QuietDay'
    BY DEF QuietDay
  <2>1. causes = {} /\ ~(cost > 0)
    BY <1>1 DEF Because
  <2>2. billed' = billed
    BY <1>1, <1>2, <2>1 DEF Charge, CostTypeOK
  <2>3. billed <= CostToday /\ billed < DailyCap /\ \A s \in InFlight : s = t
    BY <1>5, <2>1 DEF CostInv, QuietDay
  <2>4. InFlight' = {}
    BY <1>5, <2>3
  <2>5. QED
    BY <1>3, <2>2, <2>3, <2>4 DEF QuietDay
<1>8. LedgersAgree' /\ KeyInv'
  BY <1>3, <1>5 DEF CostInv, Lose, ledger, LedgersAgree, KeyInv
<1>9. QED
  BY <1>4, <1>6, <1>7, <1>8 DEF CostInv

\* The answer without a key costs at most one call, and none is in flight.
LEMMA FallbackKeeps ==
    ASSUME CostInv, NEW t \in Tasks, Fallback(t)
    PROVE  CostInv'
<1> USE CostConstants
<1>1. PICK e \in Estimates : \E c \in 0..(e + Overrun) : WithinBudget(e) /\ Record(c)
  BY DEF Fallback
<1>2. PICK cost \in 0..(e + Overrun) : WithinBudget(e) /\ Record(cost)
  BY <1>1
<1>3. CostTypeOK /\ CostToday \in Nat /\ e \in Nat /\ cost \in Nat
  BY CostTodayType DEF CostInv
<1>4. /\ CostToday' = CostToday + cost
      /\ last_reset' \in 0..today' /\ daily_cost' \in Nat
  BY <1>2, <1>3, CostAfterReset DEF Fallback, Record
<1>5. CostTypeOK'
  BY <1>2, <1>3, <1>4 DEF Fallback, Record, CostTypeOK
<1>6. InFlight' = {} /\ InFlight = {}
  BY DEF CostInv, KeyInv, Fallback, InFlight
<1>7. OvershootBounded'
  <2>1. Cardinality(InFlight') = 0
    BY <1>6, FS_EmptySet
  <2>2. /\ MaxCost * 1 <= MaxCost * Cardinality(Tasks) /\ MaxCost * 1 = MaxCost
        /\ MaxCost * 0 = 0 /\ MaxCost * Cardinality(Tasks) \in Nat
    BY Multiples
  <2>3. CostToday + e < DailyCap /\ e <= MaxEstimate
    BY <1>2 DEF WithinBudget
  <2>4. CostToday + cost < DailyCap + MaxCost
    BY <1>3, <2>3 DEF MaxCost
  <2>5. QED
    BY <1>3, <1>4, <2>1, <2>2, <2>4 DEF OvershootBounded
<1>8. QuietDay'
  <2>1. billed' = billed /\ causes' = causes
    BY DEF Fallback
  <2>2. billed \in Nat
    BY <1>3 DEF CostTypeOK
  <2>3. QED
    BY <1>3, <1>4, <1>6, <2>1, <2>2 DEF CostInv, QuietDay
<1>9. LedgersAgree' /\ KeyInv'
  BY <1>2, <1>4, <1>6 DEF CostInv, Fallback, Record, LedgersAgree, KeyInv
<1>10. QED
  BY <1>5, <1>7, <1>8, <1>9 DEF CostInv

-----------------------------------------------------------------------------
\* Midnight takes the day's cost away, not the calls in flight.
LEMMA MidnightKeeps ==
    ASSUME CostInv, Midnight
    PROVE  CostInv'
<1> USE CostConstants
<1>1. CostTypeOK /\ CostToday \in Nat
  BY CostTodayType DEF CostInv
<1>2. CostTypeOK'
  BY <1>1 DEF Midnight, ledger, CostTypeOK
<1>3. CostToday' = 0
  BY <1>1 DEF Midnight, ledger, CostTypeOK, CostToday
<1>4. InFlight' = InFlight
  BY DEF Midnight, InFlight
<1>5. OvershootBounded'
  <2>1. /\ MaxCost * Cardinality(InFlight) <= MaxCost * Cardinality(Tasks)
        /\ MaxCost * Cardinality(InFlight) \in Nat
        /\ MaxCost * Cardinality(Tasks) \in Nat
    BY InFlightCount, Multiples
  <2>2. QED
    BY <1>3, <1>4, <2>1 DEF OvershootBounded
<1>6. QuietDay'
  <2> SUFFICES ASSUME causes' = {} PROVE QuietDay'
    BY DEF QuietDay
  <2>1. InFlight' = {} /\ billed' = 0
    BY <1>4 DEF Midnight
  <2>2. QED
    BY <1>3, <2>1 DEF QuietDay
<1>7. LedgersAgree' /\ KeyInv'
  BY <1>3, <1>4 DEF CostInv, Midnight, ledger, LedgersAgree, KeyInv
<1>8. QED
  BY <1>2, <1>5, <1>6, <1>7 DEF CostInv

\* A restart, which forgets both ledgers, keeps it.
LEMMA RestartKeeps ==
    ASSUME CostInv, Restart
    PROVE  CostInv'
<1> USE CostConstants
<1>1. CostTypeOK
  BY DEF CostInv
<1>2. InFlight' = {} /\ CostToday' = 0
  BY DEF Restart, InFlight, NoCall, CostToday
<1>3. CostTypeOK'
  <2>1. MaxCost * Cardinality(InFlight) \in Nat
    BY InFlightCount, Multiples
  <2>2. PICK cost \in {0, MaxCost * Cardinality(InFlight)} : Charge(cost)
    BY DEF Restart
  <2>3. billed' \in Nat
    BY <1>1, <2>1, <2>2 DEF Charge, CostTypeOK
  <2>4. causes' \subseteq {"overlap", "overrun", "lost", "midnight", "restart"}
    BY <1>1 DEF Restart, Because, CostTypeOK
  <2>5. call' \in [Tasks -> [estimate : Estimates \cup {0}, sent : BOOLEAN]]
    BY DEF Restart, NoCall
  <2>6. last_reset' \in 0..today' /\ today' \in 0..Days /\ restarts' \in 0..Restarts
    BY <1>1 DEF Restart, CostTypeOK
  <2>7. QED
    BY <2>3, <2>4, <2>5, <2>6 DEF Restart, CostTypeOK
<1>4. OvershootBounded'
  <2>1. Cardinality(InFlight') = 0
    BY <1>2, FS_EmptySet
  <2>2. MaxCost * 0 = 0 /\ MaxCost * Cardinality(Tasks) \in Nat
    BY Multiples
  <2>3. QED
    BY <1>2, <2>1, <2>2 DEF OvershootBounded
<1>5. QuietDay'
  <2>1. causes' # {}
    BY DEF Restart, Because
  <2>2. QED
    BY <2>1 DEF QuietDay
<1>6. LedgersAgree' /\ KeyInv'
  BY <1>2 DEF Restart, LedgersAgree, KeyInv
<1>7. QED
  BY <1>3, <1>4, <1>5, <1>6 DEF CostInv

\* Every step keeps it.
LEMMA NextCost == CostInv /\ [Next]_vars => CostInv'
<1> SUFFICES ASSUME CostInv, [Next]_vars PROVE CostInv'
  OBVIOUS
<1>1. CASE Midnight
  BY <1>1, MidnightKeeps
<1>2. CASE Restart
  BY <1>2, RestartKeeps
<1>3. CASE ReadCost
  BY <1>3, LookKeeps DEF ReadCost
<1>4. ASSUME NEW t \in Tasks, Send(t) \/ Refuse(t) \/ Fallback(t) \/ Answer(t) \/ Lose(t)
      PROVE  CostInv'
  <2>1. CASE Send(t)
    BY <2>1, SendKeeps
  <2>2. CASE Refuse(t)
    BY <2>2, LookKeeps DEF Refuse
  <2>3. CASE Fallback(t)
    BY <2>3, FallbackKeeps
  <2>4. CASE Answer(t)
    BY <2>4, AnswerKeeps
  <2>5. CASE Lose(t)
    BY <2>5, LoseKeeps
  <2>6. QED
    BY <1>4, <2>1, <2>2, <2>3, <2>4, <2>5
<1>5. CASE UNCHANGED vars
  BY <1>5 DEF vars, ledger, history, CostInv, CostTypeOK, KeyInv, LedgersAgree,
              OvershootBounded, QuietDay, CostToday, InFlight
<1>6. QED
  BY <1>1, <1>2, <1>3, <1>4, <1>5 DEF Next

\* It holds in every state.
LEMMA CostInvariant == Spec => []CostInv
BY InitCost, NextCost, PTL DEF Spec

-----------------------------------------------------------------------------
\* However many calls await their answers at once, a day passes its cap by
\* less than one call of each job (check_budget before the await of
\* call_llm, record_cost after it).
THEOREM OvershootIsBounded == Spec => []OvershootBounded
<1>1. CostInv => OvershootBounded
  BY DEF CostInv
<1>2. QED
  BY CostInvariant, <1>1, PTL

\* A day whose calls come one at a time, cost no more than estimated and are
\* all answered before midnight stays under the cap (check_budget).
THEOREM CapHoldsOnQuietDays == Spec => []CapExplained
<1>1. CostInv => CapExplained
  BY CostConstants DEF CostInv, CostTypeOK, QuietDay, CapExplained
<1>2. QED
  BY CostInvariant, <1>1, PTL

\* The lazily reset cost of the day is what today's answers cost, and the
\* breakdown by model what all answers of the process cost (record_cost,
\* _check_reset).
THEOREM LedgersAgreeAlways == Spec => []LedgersAgree
<1>1. CostInv => LedgersAgree
  BY DEF CostInv
<1>2. QED
  BY CostInvariant, <1>1, PTL
=============================================================================
