----------------------------- MODULE SecureChannel ----------------------------
(***************************************************************************)
(* Encrypted requests over HTTP and their sessions.                        *)
(*                                                                         *)
(* The requester is doEncryptedHTTP of client.go: it holds one session,    *)
(* negotiates one when it has none, and again when it is told that the     *)
(* other side has none (412). The server is CryptoMiddleware: a cache of   *)
(* one session per token, a handler for each request, run concurrently.    *)
(* The agent is the requester when it reports, one request at a time, and  *)
(* the server when it is pulled, by as many requests as the master likes.  *)
(* The master, which is not in the repository, is taken for the mirror     *)
(* image of the agent in both.                                             *)
(*                                                                         *)
(* A request may be lost, arrive after its caller has given up, or twice.  *)
(***************************************************************************)
EXTENDS ReplayWindow, FiniteSets

CONSTANTS
    Callers,    \* concurrent requests of the requester
    Sessions,   \* the sessions that can be derived
    NoSession,  \* nil
    Exchanges,  \* bound: requests sent, and copies of them
    NoExchange,
    MaxCopies   \* bound: requests delivered twice

ASSUME ChannelAssumption ==
    NoSession \notin Sessions /\ NoExchange \notin Exchanges /\ MaxCopies \in Nat

VARIABLES
    httpSession,    \* the requester's session
    cache,          \* the server's session for the token, not expired
    derived,        \* the sessions derived so far
    sendSeq,        \* of each session's sender: up to the server, down to the requester
    recvWindow,     \* of each session's receiver
    passed,         \* history: the numbers Check let through
    exchange,       \* every request and what became of it
    attempt         \* the exchange each caller waits for

vars == <<httpSession, cache, derived, sendSeq, recvWindow, passed, exchange, attempt>>

Directions == {"up", "down"}
SomeSession == Sessions \cup {NoSession}

(* of: the request an exchange is a copy of. payload: the first request     *)
(* that was sent with what the caller wants carried out. with: the server's *)
(* session that handles it. reply: the sequence number of the encrypted     *)
(* answer, none if the answer goes out in the clear.                        *)
Exchange ==
    [kind : {"keyExchange", "encrypted"},
     at : {"unused", "sent", "decrypt", "serve", "replied", "received"},
     of : Exchanges \cup {NoExchange}, payload : Exchanges \cup {NoExchange},
     session : SomeSession, seq : Nat,
     with : SomeSession, code : {"OK", "BadRequest", "PreconditionFailed"}, reply : Nat]

Unused ==
    [kind |-> "encrypted", at |-> "unused", of |-> NoExchange, payload |-> NoExchange,
     session |-> NoSession, seq |-> 0, with |-> NoSession, code |-> "OK", reply |-> 0]

At(e, step) == exchange[e].at = step
Free(e) == e \in Exchanges /\ At(e, "unused")

KeepSessions == UNCHANGED <<httpSession, cache, derived>>
KeepWindows == UNCHANGED <<recvWindow, passed>>

Request(e, kind, p, s, n) ==
    [Unused EXCEPT !.kind = kind, !.at = "sent", !.of = e, !.payload = p,
                   !.session = s, !.seq = n]

Handled(x, s, step, code) == [x EXCEPT !.with = s, !.at = step, !.code = code]

(* Decrypt: Check under the mutex of the window, whatever the number; then  *)
(* the message is opened, which needs the session it was sealed with.       *)
Check(direction, s, seq) ==
    /\ recvWindow' = [recvWindow EXCEPT ![direction][s] = Slide(@, seq)]
    /\ passed' = [passed EXCEPT ![direction][s] = @ \cup {seq}]

-----------------------------------------------------------------------------
(* The requester *)

(* The payload goes out in the clear with the key of the exchange.          *)
SendKeyExchange(c) ==
    /\ attempt[c] = NoExchange /\ httpSession = NoSession
    /\ \E e \in Exchanges :
          /\ Free(e)
          /\ exchange' = [exchange EXCEPT ![e] = Request(e, "keyExchange", e, NoSession, 0)]
          /\ attempt' = [attempt EXCEPT ![c] = e]
    /\ KeepSessions /\ KeepWindows /\ UNCHANGED sendSeq

SendEncrypted(c) ==
    /\ attempt[c] = NoExchange /\ httpSession /= NoSession
    /\ sendSeq' = [sendSeq EXCEPT !["up"][httpSession] = @ + 1]
    /\ \E e \in Exchanges :
          /\ Free(e)
          /\ exchange' = [exchange EXCEPT ![e] =
                 Request(e, "encrypted", e, httpSession, sendSeq["up"][httpSession] + 1)]
          /\ attempt' = [attempt EXCEPT ![c] = e]
    /\ KeepSessions /\ KeepWindows

(* The time-out of the HTTP client: the request goes on without its caller. *)
GiveUp(c) ==
    /\ attempt[c] /= NoExchange
    /\ attempt' = [attempt EXCEPT ![c] = NoExchange]
    /\ KeepSessions /\ KeepWindows /\ UNCHANGED <<sendSeq, exchange>>

Answers(e, c) == At(e, "replied") /\ attempt[c] /= NoExchange /\ exchange[e].of = attempt[c]

ReceiveKeyExchange(c, e) ==
    /\ Answers(e, c) /\ exchange[e].kind = "keyExchange"
    /\ httpSession' = exchange[e].session
    /\ exchange' = [exchange EXCEPT ![e].at = "received"]
    /\ attempt' = [attempt EXCEPT ![c] = NoExchange]
    /\ KeepWindows /\ UNCHANGED <<cache, derived, sendSeq>>

(* 412: the session is forgotten, whichever it is by now, and the payload   *)
(* sent again with a key exchange.                                          *)
ReceiveExpired(c, e) ==
    /\ Answers(e, c) /\ exchange[e].code = "PreconditionFailed"
    /\ httpSession' = NoSession
    /\ \E f \in Exchanges :
          /\ Free(f)
          /\ exchange' = [exchange EXCEPT
                 ![e].at = "received",
                 ![f] = Request(f, "keyExchange", exchange[e].payload, NoSession, 0)]
          /\ attempt' = [attempt EXCEPT ![c] = f]
    /\ KeepWindows /\ UNCHANGED <<cache, derived, sendSeq>>

(* Any other error is returned to the caller, and the session kept.         *)
ReceiveError(c, e) ==
    /\ Answers(e, c) /\ exchange[e].code = "BadRequest"
    /\ exchange' = [exchange EXCEPT ![e].at = "received"]
    /\ attempt' = [attempt EXCEPT ![c] = NoExchange]
    /\ KeepSessions /\ KeepWindows /\ UNCHANGED sendSeq

(* The answer is decrypted with the session the request was sealed with.    *)
ReceiveAnswer(c, e) ==
    LET s == exchange[e].session  n == exchange[e].reply  fresh == Fresh(recvWindow["down"][s], n)
    IN  /\ Answers(e, c) /\ exchange[e].kind = "encrypted" /\ exchange[e].code = "OK"
        /\ IF fresh THEN Check("down", s, n) ELSE KeepWindows
        /\ exchange' = [exchange EXCEPT ![e] =
               Handled(@, @.with, "received", IF fresh /\ @.with = s THEN "OK" ELSE "BadRequest")]
        /\ attempt' = [attempt EXCEPT ![c] = NoExchange]
        /\ KeepSessions /\ UNCHANGED sendSeq

-----------------------------------------------------------------------------
(* The server *)

(* Up to cache.Set: the new session replaces the token's.                   *)
HandleKeyExchange(e) ==
    /\ At(e, "sent") /\ exchange[e].kind = "keyExchange"
    /\ \E s \in Sessions \ derived :
          /\ derived' = derived \cup {s}
          /\ cache' = s
          /\ exchange' = [exchange EXCEPT ![e].at = "serve", ![e].session = s, ![e].with = s]
    /\ KeepWindows /\ UNCHANGED <<httpSession, sendSeq, attempt>>

(* The request that came with the key exchange is handed to the handler,    *)
(* on every delivery: nothing of it is checked against a window. Its answer *)
(* goes out in the clear.                                                   *)
ServePlain(e) ==
    /\ At(e, "serve") /\ exchange[e].kind = "keyExchange"
    /\ exchange' = [exchange EXCEPT ![e].at = "replied"]
    /\ KeepSessions /\ KeepWindows /\ UNCHANGED <<sendSeq, attempt>>

(* cache.Get *)
FindSession(e) ==
    /\ At(e, "sent") /\ exchange[e].kind = "encrypted"
    /\ exchange' = [exchange EXCEPT ![e] = IF cache = NoSession
                         THEN Handled(@, NoSession, "replied", "PreconditionFailed")
                         ELSE Handled(@, cache, "decrypt", "OK")]
    /\ KeepSessions /\ KeepWindows /\ UNCHANGED <<sendSeq, attempt>>

(* session.Decrypt *)
HandleDecrypt(e) ==
    LET s == exchange[e].with  n == exchange[e].seq  fresh == Fresh(recvWindow["up"][s], n)
        opened == fresh /\ s = exchange[e].session
    IN  /\ At(e, "decrypt")
        /\ IF fresh THEN Check("up", s, n) ELSE KeepWindows
        /\ exchange' = [exchange EXCEPT ![e] = IF opened THEN Handled(@, s, "serve", "OK")
                                                         ELSE Handled(@, s, "replied", "BadRequest")]
        /\ KeepSessions /\ UNCHANGED <<sendSeq, attempt>>

(* Mutant: the answer is sealed with the session of the moment. *)
ServeWithCached(e) ==
    LET s == IF cache = NoSession THEN exchange[e].with ELSE cache
    IN  /\ At(e, "serve") /\ exchange[e].kind = "encrypted"
        /\ sendSeq' = [sendSeq EXCEPT !["down"][s] = @ + 1]
        /\ exchange' = [exchange EXCEPT ![e].at = "replied", ![e].with = s,
                                        ![e].reply = sendSeq["down"][s] + 1]
        /\ KeepSessions /\ KeepWindows /\ UNCHANGED attempt

(* The handler proper, and the answer sealed by flush with the session the  *)
(* request came in with.                                                    *)
Serve(e) ==
    LET s == exchange[e].with
    IN  /\ At(e, "serve") /\ exchange[e].kind = "encrypted"
        /\ sendSeq' = [sendSeq EXCEPT !["down"][s] = @ + 1]
        /\ exchange' = [exchange EXCEPT ![e].at = "replied", ![e].reply = sendSeq["down"][s] + 1]
        /\ KeepSessions /\ KeepWindows /\ UNCHANGED attempt

(* The time to live is over, or the server was restarted.                   *)
Expire ==
    /\ cache /= NoSession
    /\ cache' = NoSession
    /\ UNCHANGED <<httpSession, derived, sendSeq, recvWindow, passed, exchange, attempt>>

Copies == {e \in Exchanges : exchange[e].of \notin {e, NoExchange}}

(* External: a request on its way is delivered twice.                       *)
Duplicate(e) ==
    /\ At(e, "sent") /\ Cardinality(Copies) < MaxCopies
    /\ \E f \in Exchanges : Free(f) /\ exchange' = [exchange EXCEPT ![f] = exchange[e]]
    /\ KeepSessions /\ KeepWindows /\ UNCHANGED <<sendSeq, attempt>>

Init ==
    /\ httpSession = NoSession /\ cache = NoSession /\ derived = {}
    /\ sendSeq = [d \in Directions |-> [s \in Sessions |-> 0]]
    /\ recvWindow = [d \in Directions |-> [s \in Sessions |-> EmptyWindow]]
    /\ passed = [d \in Directions |-> [s \in Sessions |-> {}]]
    /\ exchange = [e \in Exchanges |-> Unused]
    /\ attempt = [c \in Callers |-> NoExchange]

Requester ==
    \E c \in Callers :
        \/ SendKeyExchange(c) \/ SendEncrypted(c) \/ GiveUp(c)
        \/ \E e \in Exchanges :
              \/ ReceiveKeyExchange(c, e) \/ ReceiveExpired(c, e)
              \/ ReceiveError(c, e) \/ ReceiveAnswer(c, e)

Server ==
    \E e \in Exchanges :
        \/ HandleKeyExchange(e) \/ ServePlain(e)
        \/ FindSession(e) \/ HandleDecrypt(e) \/ Serve(e)

Next == Requester \/ Server \/ Expire \/ \E e \in Exchanges : Duplicate(e)

Spec == Init /\ [][Next]_vars

-----------------------------------------------------------------------------
TypeOK ==
    /\ httpSession \in SomeSession /\ cache \in SomeSession
    /\ derived \subseteq Sessions
    /\ sendSeq \in [Directions -> [Sessions -> Nat]]
    /\ recvWindow \in [Directions -> [Sessions -> Window]]
    /\ passed \in [Directions -> [Sessions -> SUBSET Nat]]
    /\ exchange \in [Exchanges -> Exchange]
    /\ attempt \in [Callers -> Exchanges \cup {NoExchange}]

(* The bitmap of every receiver says of each number what the whole history  *)
(* says, although it is shifted, cut off and marked by concurrent handlers. *)
WindowIsExact ==
    \A d \in Directions, s \in Sessions : Exact(recvWindow[d][s], passed[d][s])

(* The handler was given what the request carries: it was decrypted, or     *)
(* came with a key exchange.                                                *)
Opened(e) ==
    /\ exchange[e].kind = "encrypted" /\ exchange[e].with = exchange[e].session
    /\ \/ At(e, "serve")
       \/ exchange[e].at \in {"replied", "received"} /\ exchange[e].reply /= 0

CarriedOut(e) ==
    \/ Opened(e)
    \/ exchange[e].kind = "keyExchange" /\ exchange[e].at \in {"serve", "replied", "received"}

DeliveredTwice(p) ==
    \E g, h \in Exchanges :
        /\ g /= h /\ exchange[g].of = exchange[h].of
        /\ exchange[g].payload = p /\ exchange[h].payload = p

(* What a caller wants is carried out twice in one case only: the network   *)
(* delivers a request of its call twice, and one of those that are carried  *)
(* out comes with a key exchange, which no window guards. It never is by    *)
(* two encrypted requests, however often and late they arrive, and never by *)
(* an encrypted request and the retry with a key exchange after it, unless  *)
(* the encrypted one arrived twice.                                         *)
ServedOnce ==
    \A e, f \in Exchanges :
        /\ e /= f /\ CarriedOut(e) /\ CarriedOut(f)
        /\ exchange[e].payload = exchange[f].payload
        => /\ "keyExchange" \in {exchange[e].kind, exchange[f].kind}
           /\ DeliveredTwice(exchange[e].payload)

(* An answer that a caller still waits for is one it can open: it is sealed *)
(* with the session of the request, though both sides may have another by   *)
(* now, and is refused only if windowSize later answers overtook it.        *)
AnswerIsReadable ==
    [][ \A e \in Exchanges :
            At(e, "replied") /\ exchange[e].reply /= 0 /\ exchange'[e].at = "received" =>
            \/ exchange'[e].code = "OK"
            \/ Late(passed["down"][exchange[e].session], exchange[e].reply) ]_vars

(* "Sends an encrypted request over HTTP, handling key exchange and session *)
(* management by itself" (doEncryptedHTTP): the first copy of a request is  *)
(* refused only if requests of its own session overtook it by windowSize.   *)
(* This is false of the code.                                               *)
FirstCopyIsServed ==
    [][ \A e \in Exchanges :
            At(e, "decrypt") /\ exchange'[e].at = "replied" =>
            \E f \in Exchanges \ {e} :
                /\ Opened(f) /\ exchange[f].session = exchange[e].session
                /\ \/ exchange[f].seq = exchange[e].seq
                   \/ exchange[f].seq >= exchange[e].seq + windowSize ]_vars

=============================================================================
