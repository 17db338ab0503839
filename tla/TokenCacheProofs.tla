-------------------------- MODULE TokenCacheProofs --------------------------
(***************************************************************************)
(* TokenIsLive and ExpiryIsNear for any number of threads and all lengths  *)
(* that TokenAssumption allows.                                            *)
(***************************************************************************)
EXTENDS TokenCache, TLAPS

\* What a thread is at lasts no longer than its delay, and its token is the one
\* that was issued when the delay began.
DelaysHold ==
  \A t \in Threads :
    /\ pc[t] \in {"issued", "stored"} =>
         /\ since[t] <= clock /\ clock <= since[t] + AnswerDelay
         /\ held[t] = since[t] + Life
    /\ pc[t] \in {"clocked", "valid", "chat"} =>
         since[t] <= clock /\ clock <= since[t] + SendDelay

\* The expiry that is about to be assigned is near that of the cached token.
StoredIsNear ==
  \A t \in Threads : pc[t] = "stored" => held[t] <= token + AnswerDelay

\* The token that is about to be read, or was, outlasts the sending.
ReadIsLive ==
  \A t \in Threads :
    /\ pc[t] = "valid" => since[t] + SendDelay < token
    /\ pc[t] = "chat" => since[t] + SendDelay < held[t]

TokenInv ==
  /\ TokenTypeOK /\ DelaysHold /\ StoredIsNear /\ ReadIsLive
  /\ ExpiryIsNear /\ expiry <= clock + Life

-----------------------------------------------------------------------------

LEMMA InitToken == Init => TokenInv
BY TokenAssumption
   DEF Init, TokenInv, TokenTypeOK, Steps, DelaysHold, StoredIsNear, ReadIsLive, ExpiryIsNear

\* Time passes only while no delay is over.
LEMMA TickToken == TokenInv /\ Tick => TokenInv'
<1> SUFFICES ASSUME TokenInv, Tick PROVE TokenInv'
  OBVIOUS
<1> USE TokenAssumption DEF TokenInv, TokenTypeOK, Steps
<1>1. /\ clock' = clock + 1 /\ \A t \in Threads : ~Due(t)
      /\ UNCHANGED <<token, expiry, pc, held, since>>
  BY DEF Tick
<1>2. TokenTypeOK'
  BY <1>1
<1>3. DelaysHold'
  <2> SUFFICES ASSUME NEW t \in Threads
               PROVE  /\ pc[t] \in {"issued", "stored"} =>
                           /\ since[t] <= clock + 1 /\ clock + 1 <= since[t] + AnswerDelay
                           /\ held[t] = since[t] + Life
                      /\ pc[t] \in {"clocked", "valid", "chat"} =>
                           since[t] <= clock + 1 /\ clock + 1 <= since[t] + SendDelay
    BY <1>1 DEF DelaysHold
  <2>1. since[t] \in Nat /\ held[t] \in Nat /\ ~Due(t)
    BY <1>1
  <2> QED
    BY <2>1 DEF DelaysHold, Due
<1> QED
  BY <1>1, <1>2, <1>3 DEF StoredIsNear, ReadIsLive, ExpiryIsNear

\* The steps of a thread that leave the cache alone.
LEMMA ReadingToken ==
  ASSUME TokenInv, NEW t \in Threads,
         ReadClock(t) \/ ReadExpiry(t) \/ ReadToken(t) \/ Issue(t) \/ Refuse(t) \/ Chat(t)
  PROVE  TokenInv'
<1> USE TokenAssumption DEF TokenInv, TokenTypeOK, Steps, Goto
<1>0. since[t] \in Nat /\ held[t] \in Nat
  OBVIOUS
<1>1. CASE ReadClock(t)
  BY <1>0, <1>1 DEF ReadClock, DelaysHold, StoredIsNear, ReadIsLive, ExpiryIsNear
<1>2. CASE ReadExpiry(t)
  <2>1. BeyondMargin(since[t]) => since[t] + SendDelay < token
    BY <1>0 DEF BeyondMargin, ExpiryIsNear
  <2> QED
    BY <1>0, <1>2, <2>1 DEF ReadExpiry, DelaysHold, StoredIsNear, ReadIsLive, ExpiryIsNear
<1>3. CASE ReadToken(t)
  BY <1>0, <1>3 DEF ReadToken, DelaysHold, StoredIsNear, ReadIsLive, ExpiryIsNear
<1>4. CASE Issue(t)
  BY <1>0, <1>4 DEF Issue, DelaysHold, StoredIsNear, ReadIsLive, ExpiryIsNear
<1>5. CASE Refuse(t)
  BY <1>0, <1>5 DEF Refuse, DelaysHold, StoredIsNear, ReadIsLive, ExpiryIsNear
<1>6. CASE Chat(t)
  BY <1>0, <1>6 DEF Chat, DelaysHold, StoredIsNear, ReadIsLive, ExpiryIsNear
<1> QED
  BY <1>1, <1>2, <1>3, <1>4, <1>5, <1>6

\* The first assignment: the token may be older than the one it replaces, by the
\* delay of its answer and no more.
LEMMA StoringToken ==
  ASSUME TokenInv, NEW t \in Threads, StoreToken(t)
  PROVE  TokenInv'
<1> USE TokenAssumption DEF TokenInv, TokenTypeOK, Steps
<1>1. /\ pc[t] = "issued" /\ pc' = [pc EXCEPT ![t] = "stored"] /\ token' = held[t]
      /\ UNCHANGED <<clock, expiry, held, since>>
      /\ since[t] \in Nat /\ held[t] \in Nat
  BY DEF StoreToken, Goto
<1>2. held[t] = since[t] + Life /\ since[t] <= clock /\ clock <= since[t] + AnswerDelay
  BY <1>1 DEF DelaysHold
<1>3. clock + Life <= token' + AnswerDelay /\ clock + SendDelay < token'
  BY <1>1, <1>2
<1>4. TokenTypeOK' /\ DelaysHold' /\ ExpiryIsNear' /\ (expiry <= clock + Life)'
  BY <1>1, <1>2, <1>3 DEF DelaysHold, ExpiryIsNear
<1>5. StoredIsNear'
  <2> SUFFICES ASSUME NEW u \in Threads, pc'[u] = "stored"
               PROVE  held[u] <= token' + AnswerDelay
    BY <1>1 DEF StoredIsNear
  <2>1. pc[u] \in {"issued", "stored"} /\ since[u] \in Nat /\ held[u] \in Nat
    BY <1>1
  <2>2. held[u] = since[u] + Life /\ since[u] <= clock
    BY <2>1 DEF DelaysHold
  <2> QED
    BY <1>1, <1>3, <2>1, <2>2
<1>6. ReadIsLive'
  <2> SUFFICES ASSUME NEW u \in Threads
               PROVE  /\ pc'[u] = "valid" => since[u] + SendDelay < token'
                      /\ pc'[u] = "chat" => since[u] + SendDelay < held[u]
    BY <1>1 DEF ReadIsLive
  <2>1. pc'[u] \in {"valid", "chat"} => pc'[u] = pc[u]
    BY <1>1
  <2>2. pc[u] = "valid" => since[u] <= clock /\ since[u] \in Nat
    BY DEF DelaysHold
  <2> QED
    BY <1>1, <1>3, <2>1, <2>2 DEF ReadIsLive
<1> QED
  BY <1>4, <1>5, <1>6

\* The second assignment.
LEMMA StoringExpiry ==
  ASSUME TokenInv, NEW t \in Threads, StoreExpiry(t)
  PROVE  TokenInv'
<1> USE TokenAssumption DEF TokenInv, TokenTypeOK, Steps
<1>1. /\ pc[t] = "stored" /\ pc' = [pc EXCEPT ![t] = "chat"] /\ expiry' = held[t]
      /\ since' = [since EXCEPT ![t] = clock]
      /\ UNCHANGED <<clock, token, held>>
      /\ since[t] \in Nat /\ held[t] \in Nat
  BY DEF StoreExpiry, Goto
<1>2. held[t] = since[t] + Life /\ since[t] <= clock /\ clock <= since[t] + AnswerDelay
  BY <1>1 DEF DelaysHold
<1>3. clock + SendDelay < held[t] /\ held[t] <= clock + Life
  BY <1>1, <1>2
<1> QED
  BY <1>1, <1>3 DEF DelaysHold, StoredIsNear, ReadIsLive, ExpiryIsNear

LEMMA StepToken == TokenInv /\ [Next]_vars => TokenInv'
<1> SUFFICES ASSUME TokenInv, [Next]_vars PROVE TokenInv'
  OBVIOUS
<1>1. CASE Tick
  BY <1>1, TickToken
<1>2. CASE \E t \in Threads : Thread(t)
  BY <1>2, ReadingToken, StoringToken, StoringExpiry DEF Thread
<1>3. CASE UNCHANGED vars
  BY <1>3 DEF vars, TokenInv, TokenTypeOK, DelaysHold, StoredIsNear, ReadIsLive, ExpiryIsNear
<1> QED
  BY <1>1, <1>2, <1>3 DEF Next

LEMMA InvIsLive == TokenInv => TokenIsLive
BY TokenAssumption DEF TokenInv, TokenTypeOK, DelaysHold, ReadIsLive, TokenIsLive

LEMMA AlwaysToken == Spec => []TokenInv
<1>1. Init => TokenInv
  BY InitToken
<1>2. TokenInv /\ [Next]_vars => TokenInv'
  BY StepToken
<1> QED
  BY <1>1, <1>2, PTL DEF Spec

\* No chat reaches the server with a token that is over (_get_access_token).
THEOREM TokenLive == Spec => []TokenIsLive
BY AlwaysToken, InvIsLive, PTL

\* The two attributes never tear further apart than the margin covers
\* (_get_access_token).
THEOREM ExpiryNear == Spec => []ExpiryIsNear
<1>1. TokenInv => ExpiryIsNear
  BY DEF TokenInv
<1> QED
  BY AlwaysToken, <1>1, PTL
=============================================================================
