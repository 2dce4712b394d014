----------------------------- MODULE GraphToken -----------------------------
(***************************************************************************)
(* get_graph_token: the one Microsoft Graph token of the process, cached   *)
(* until Buffer seconds before it expires and acquired under a lock that   *)
(* is held over the request.  Entra issues tokens at any moment between    *)
(* the request and its answer; a caller may be cancelled while it waits    *)
(* for the lock or for the answer.                                         *)
(*                                                                         *)
(* Time passes between any two steps of callers; it stands still within    *)
(* one, as no await lies in between.                                       *)
(***************************************************************************)
EXTENDS Integers, Sequences, SequencesExt

CONSTANTS
    Callers,   \* connector calls that need a token, each once
    Lifetimes, \* expires_in, as Entra may answer it
    Buffer,    \* _EXPIRY_BUFFER_S
    EndOfTime  \* bound: the clock

ASSUME GraphTokenAssumption ==
    /\ Lifetimes \subseteq Nat \ {0}
    /\ Buffer \in Nat \ {0}
    /\ EndOfTime \in Nat

VARIABLES
    now,    \* the monotonic clock
    queue,  \* who waits for the lock, in the order of asking
    phase,  \* per caller: idle, waiting, requesting, answered, done, failed
    asked,  \* when the caller in the lock read the clock
    issued, \* the token Entra has issued for the request under way
    cache,  \* _cache
    got     \* per caller, the token it returned and when

tokenVars == <<now, queue, phase, asked, issued, cache, got>>

(* A token is what one request was given: its real end and what the cache  *)
(* writes down as its end.                                                 *)
NoToken == [ends |-> 0, expires_at |-> 0]

Nothing == [token |-> NoToken, at |-> 0, cached |-> FALSE]

Phases == {"idle", "waiting", "requesting", "answered", "done", "failed"}

InLock == {c \in Callers : phase[c] \in {"requesting", "answered"}}

Free == InLock = {}

-----------------------------------------------------------------------------
Ask(c) ==
    /\ phase[c] = "idle"
    /\ phase' = [phase EXCEPT ![c] = "waiting"]
    /\ queue' = Append(queue, c)
    /\ UNCHANGED <<now, asked, issued, cache, got>>

(* A bug: the lock is not held over the request.                           *)
FirstUnlocked(c) == phase[c] = "waiting" /\ Head(queue) = c

First(c) == phase[c] = "waiting" /\ Free /\ Head(queue) = c

Usable == cache # NoToken /\ cache.expires_at > now

(* The lock is taken, the clock read and the cached token still good.      *)
UseCache(c) ==
    /\ First(c)
    /\ Usable
    /\ phase' = [phase EXCEPT ![c] = "done"]
    /\ got' = [got EXCEPT ![c] = [token |-> cache, at |-> now, cached |-> TRUE]]
    /\ queue' = Tail(queue)
    /\ UNCHANGED <<now, asked, issued, cache>>

(* The lock is taken and stays taken over the request.                     *)
Request(c) ==
    /\ First(c)
    /\ ~Usable
    /\ phase' = [phase EXCEPT ![c] = "requesting"]
    /\ asked' = now
    /\ queue' = Tail(queue)
    /\ UNCHANGED <<now, issued, cache, got>>

(* A bug: the buffer is forgotten.                                         *)
ExpiresAtTheEnd(lifetime) == asked + lifetime

ExpiresAt(lifetime) == asked + lifetime - Buffer

(* Entra issues a token: its life starts here, not when the answer comes.  *)
Issue(c) ==
    /\ phase[c] = "requesting"
    /\ \E lifetime \in Lifetimes :
         issued' = [ends |-> now + lifetime, expires_at |-> ExpiresAt(lifetime)]
    /\ phase' = [phase EXCEPT ![c] = "answered"]
    /\ UNCHANGED <<now, queue, asked, cache, got>>

(* The answer arrives: cached, returned, and the lock released.            *)
Receive(c) ==
    /\ phase[c] = "answered"
    /\ cache' = issued
    /\ got' = [got EXCEPT ![c] = [token |-> issued, at |-> now, cached |-> FALSE]]
    /\ phase' = [phase EXCEPT ![c] = "done"]
    /\ issued' = NoToken
    /\ UNCHANGED <<now, queue, asked>>

(* A bug: no time-out, only callers still waiting give up.                 *)
FailWaiting(c) ==
    /\ phase[c] = "waiting"
    /\ phase' = [phase EXCEPT ![c] = "failed"]
    /\ queue' = Remove(queue, c)
    /\ UNCHANGED <<now, asked, issued, cache, got>>

(* A time-out, an HTTP error, a body without a token or a cancellation:    *)
(* the caller raises, the lock is released, the cache stays as it was.     *)
Fail(c) ==
    /\ phase[c] \in {"waiting", "requesting", "answered"}
    /\ phase' = [phase EXCEPT ![c] = "failed"]
    /\ queue' = Remove(queue, c)
    /\ issued' = IF phase[c] = "answered" THEN NoToken ELSE issued
    /\ UNCHANGED <<now, asked, cache, got>>

Tick ==
    /\ now < EndOfTime
    /\ now' = now + 1
    /\ UNCHANGED <<queue, phase, asked, issued, cache, got>>

TokenInit ==
    /\ now = 0 /\ queue = <<>>
    /\ phase = [c \in Callers |-> "idle"]
    /\ asked = 0 /\ issued = NoToken /\ cache = NoToken
    /\ got = [c \in Callers |-> Nothing]

Step(c) == Ask(c) \/ UseCache(c) \/ Request(c) \/ Issue(c) \/ Receive(c) \/ Fail(c)

TokenNext == Tick \/ \E c \in Callers : Step(c)

(* A request ends: httpx gives up after 15 s without an answer, and a      *)
(* caller whose turn it is runs.  Nobody has to ask.                       *)
Fairness ==
    \A c \in Callers : /\ WF_tokenVars(UseCache(c) \/ Request(c))
                       /\ WF_tokenVars(Receive(c) \/ (phase[c] \in {"requesting", "answered"} /\ Fail(c)))

TokenSpec == TokenInit /\ [][TokenNext]_tokenVars /\ Fairness

-----------------------------------------------------------------------------
(* Types, and one caller at most inside the lock.                          *)
Token == [ends : Nat, expires_at : Int]

TokenTypeOK ==
    /\ now \in 0..EndOfTime
    /\ queue \in Seq(Callers)
    /\ phase \in [Callers -> Phases]
    /\ asked \in 0..now
    /\ issued \in Token /\ cache \in Token
    /\ got \in [Callers -> [token : Token, at : 0..EndOfTime, cached : BOOLEAN]]
    /\ \A c, d \in InLock : c = d

(* A token from the cache has more than Buffer seconds to live when it is  *)
(* returned, however slow the request was and however long the caller      *)
(* waited for the lock.                                                    *)
CachedTokenLives ==
    \A c \in Callers : got[c].cached => got[c].token.ends > got[c].at + Buffer

(* Everybody who asks gets a token or an error: a failing or cancelled     *)
(* caller never leaves the lock taken.                                     *)
EveryCallerEnds ==
    \A c \in Callers : phase[c] = "waiting" ~> phase[c] \in {"done", "failed"}

(* Callers that queue behind a request do not repeat it: a request starts  *)
(* only when no other is under way and every token handed out before has   *)
(* less than the buffer left of what it was granted.                       *)
NoRepeatedRequest ==
    [][\A c, d \in Callers :
          phase[c] = "waiting" /\ phase'[c] = "requesting" =>
             /\ d \notin InLock
             /\ phase[d] = "done" => got[d].token.expires_at <= now]_tokenVars
=============================================================================
