----------------------------- MODULE TokenCache -----------------------------
(***************************************************************************)
(* The access token that GigaChatClient (ai/gigachat.py) caches: requests   *)
(* for extractions run in the threads of the API and share one client, with *)
(* _access_token and _expires_at_ms, two attributes that are read and       *)
(* written one at a time and without a lock.                                *)
(*                                                                          *)
(* Time is discrete and one clock is everybody's.  A token stands for the   *)
(* instant it expires, so that of two tokens the greater is the newer.      *)
(* The two delays stand for the client's timeouts of 30 seconds.  They are  *)
(* idealized: httpx counts each operation of a request by itself.           *)
(***************************************************************************)
EXTENDS Integers

CONSTANTS Threads,
          Life,        \* from the issue of a token to its expiry
          Margin,      \* the 60 seconds of _get_access_token
          AnswerDelay, \* at most, from the issue of a token to the assignments
          SendDelay,   \* at most, from time.time() to the chat at the server
          MaxClock     \* bound: the last instant

ASSUME TokenAssumption ==
  /\ Life \in Nat /\ Margin \in Nat /\ AnswerDelay \in Nat /\ SendDelay \in Nat
  /\ MaxClock \in Nat
  /\ AnswerDelay + SendDelay <= Margin /\ Margin < Life

VARIABLES
  clock,
  token,   \* _access_token, 0 for None
  expiry,  \* _expires_at_ms
  pc,      \* what each thread is at
  held,    \* its token, or 0
  since    \* when the delay began that bounds what it is at

vars == <<clock, token, expiry, pc, held, since>>

\* idle: outside extract_arguments; clocked: there is a token, and the clock is
\* read; valid: the expiry was read and lies beyond the margin; oauth: the request
\* for a token is to be answered; issued: it was; stored: the token is assigned
\* and its expiry is not; chat: the chat request is on its way.
Steps == {"idle", "clocked", "valid", "oauth", "issued", "stored", "chat"}

TokenTypeOK ==
  /\ clock \in Nat /\ token \in Nat /\ expiry \in Nat
  /\ pc \in [Threads -> Steps]
  /\ held \in [Threads -> Nat] /\ since \in [Threads -> Nat]

Init ==
  /\ clock = 0 /\ token = 0 /\ expiry = 0
  /\ pc = [t \in Threads |-> "idle"]
  /\ held = [t \in Threads |-> 0] /\ since = [t \in Threads |-> 0]

\* The delay that bounds thread t is over: it moves before the clock does.
Due(t) ==
  \/ pc[t] \in {"issued", "stored"} /\ clock = since[t] + AnswerDelay
  \/ pc[t] \in {"clocked", "valid", "chat"} /\ clock = since[t] + SendDelay

Tick ==
  /\ clock < MaxClock
  /\ \A t \in Threads : ~Due(t)
  /\ clock' = clock + 1
  /\ UNCHANGED <<token, expiry, pc, held, since>>

Goto(t, step) == pc' = [pc EXCEPT ![t] = step]

-----------------------------------------------------------------------------
(* extract_arguments in thread t. *)

\* self._access_token is not None, and time.time().
ReadClock(t) ==
  /\ pc[t] = "idle"
  /\ IF token = 0 THEN Goto(t, "oauth") ELSE Goto(t, "clocked")
  /\ since' = [since EXCEPT ![t] = clock]
  /\ UNCHANGED <<clock, token, expiry, held>>

\* Mutant: a token is used up to its expiry.
BeyondMarginOff(now) == now < expiry

BeyondMargin(now) == now < expiry - Margin

\* The comparison with self._expires_at_ms.
ReadExpiry(t) ==
  /\ pc[t] = "clocked"
  /\ Goto(t, IF BeyondMargin(since[t]) THEN "valid" ELSE "oauth")
  /\ UNCHANGED <<clock, token, expiry, held, since>>

\* return self._access_token: what is there now.
ReadToken(t) ==
  /\ pc[t] = "valid"
  /\ Goto(t, "chat")
  /\ held' = [held EXCEPT ![t] = token]
  /\ UNCHANGED <<clock, token, expiry, since>>

\* The server issues a token.
Issue(t) ==
  /\ pc[t] = "oauth"
  /\ Goto(t, "issued")
  /\ held' = [held EXCEPT ![t] = clock + Life]
  /\ since' = [since EXCEPT ![t] = clock]
  /\ UNCHANGED <<clock, token, expiry>>

\* No answer, a status, a shape (GigaChatError): the cache is left as it is.
Refuse(t) ==
  /\ pc[t] \in {"oauth", "issued"}
  /\ Goto(t, "idle")
  /\ held' = [held EXCEPT ![t] = 0]
  /\ UNCHANGED <<clock, token, expiry, since>>

\* self._access_token = token
StoreToken(t) ==
  /\ pc[t] = "issued"
  /\ Goto(t, "stored")
  /\ token' = held[t]
  /\ UNCHANGED <<clock, expiry, held, since>>

\* self._expires_at_ms = expires_at, and the chat is sent with the thread's own
\* token.
StoreExpiry(t) ==
  /\ pc[t] = "stored"
  /\ Goto(t, "chat")
  /\ expiry' = held[t]
  /\ since' = [since EXCEPT ![t] = clock]
  /\ UNCHANGED <<clock, token, held>>

\* The chat reaches the server, or fails; whatever the answer, the cache stays.
Chat(t) ==
  /\ pc[t] = "chat"
  /\ Goto(t, "idle")
  /\ held' = [held EXCEPT ![t] = 0]
  /\ UNCHANGED <<clock, token, expiry, since>>

Thread(t) ==
  \/ ReadClock(t) \/ ReadExpiry(t) \/ ReadToken(t) \/ Issue(t) \/ Refuse(t)
  \/ StoreToken(t) \/ StoreExpiry(t) \/ Chat(t)

Next == Tick \/ \E t \in Threads : Thread(t)

Spec == Init /\ [][Next]_vars

-----------------------------------------------------------------------------
(* Properties. *)

\* A chat never reaches the server with a token that is over, though the token
\* that is sent is read after the comparison and may be another thread's, and
\* though the two assignments of two threads may interleave (_get_access_token).
TokenIsLive == \A t \in Threads : pc[t] = "chat" => clock < held[t]

\* The cached expiry is never far beyond that of the cached token: when it comes
\* from a newer token than the one that is cached, it is so by a delay that the
\* margin covers.
ExpiryIsNear == expiry <= token + AnswerDelay
=============================================================================
