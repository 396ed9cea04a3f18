-------------------------- MODULE SecureChannelProofs -------------------------
(***************************************************************************)
(* Theorems about SecureChannel, for every width of the window and any     *)
(* number of callers, sessions and requests.                               *)
(***************************************************************************)
EXTENDS SecureChannel, TLAPS

-----------------------------------------------------------------------------
(* The window *)

(* A window that is exact answers as the whole history would.               *)
LEMMA FreshIsExact ==
    ASSUME NEW w \in Window, NEW history \in SUBSET Nat, NEW seq \in Nat, Exact(w, history)
    PROVE  Fresh(w, seq) <=> FreshForEver(history, seq)
<1> USE WindowSizeAssumption
<1>1. w.maxSeq \in Nat /\ w.bitmap \subseteq Bits
    BY DEF Window
<1>2. CASE seq > w.maxSeq
    <2>1. seq \notin history /\ ~Late(history, seq)
        BY <1>1, <1>2 DEF Exact, Late
    <2>2. QED
        BY <1>1, <1>2, <2>1 DEF Fresh, FreshForEver
<1>3. CASE seq <= w.maxSeq /\ seq /= 0
    <2>1. w.maxSeq - seq \in Nat /\ w.maxSeq \in history
        BY <1>1, <1>3 DEF Exact
    <2>2. Late(history, seq) <=> w.maxSeq - seq >= windowSize
        BY <1>1, <1>3, <2>1 DEF Exact, Late
    <2>3. ASSUME w.maxSeq - seq < windowSize
          PROVE  w.maxSeq - seq \in w.bitmap <=> seq \in history
        <3>1. w.maxSeq - seq \in Bits
            BY <2>1, <2>3 DEF Bits
        <3>2. w.maxSeq - (w.maxSeq - seq) = seq /\ w.maxSeq - seq <= w.maxSeq
            BY <1>1, <1>3
        <3>3. QED
            BY <3>1, <3>2 DEF Exact
    <2>4. QED
        BY <1>1, <1>3, <2>1, <2>2, <2>3 DEF Fresh, FreshForEver
<1>4. CASE seq = 0
    BY <1>4 DEF Fresh, FreshForEver
<1>5. QED
    BY <1>1, <1>2, <1>3, <1>4

LEMMA SlideType ==
    ASSUME NEW w \in Window, NEW seq \in Nat, Fresh(w, seq)
    PROVE  Slide(w, seq) \in Window
<1> USE WindowSizeAssumption
<1>1. w.maxSeq \in Nat /\ w.bitmap \subseteq Bits
    BY DEF Window
<1>2. CASE seq > w.maxSeq
    BY <1>1, <1>2 DEF Slide, Window, ShiftLeft, Bits
<1>3. CASE ~(seq > w.maxSeq)
    <2>1. w.maxSeq - seq \in Bits
        BY <1>1, <1>3 DEF Fresh, Bits
    <2>2. QED
        BY <1>1, <1>3, <2>1 DEF Slide, Window
<1>4. QED
    BY <1>2, <1>3

(* What Check leaves is exact for the history with the new number.          *)
LEMMA SlideIsExact ==
    ASSUME NEW w \in Window, NEW history \in SUBSET Nat, NEW seq \in Nat,
           Exact(w, history), Fresh(w, seq)
    PROVE  Exact(Slide(w, seq), history \cup {seq})
<1> USE WindowSizeAssumption
<1> DEFINE v == Slide(w, seq)  all == history \cup {seq}
<1>1. w.maxSeq \in Nat /\ w.bitmap \subseteq Bits /\ 0 < seq
    BY DEF Window, Fresh
<1>2. CASE seq > w.maxSeq
    <2>1. v.maxSeq = seq /\ v.bitmap = ShiftLeft(w.bitmap, seq - w.maxSeq) \cup {0}
        BY <1>2 DEF Slide
    <2>2. /\ \A p \in all : 0 < p /\ p <= v.maxSeq
          /\ v.maxSeq \in all \cup {0}
        BY <1>1, <1>2, <2>1 DEF Exact
    <2>3. ASSUME NEW d \in Bits
          PROVE  d \in v.bitmap <=> d <= v.maxSeq /\ v.maxSeq - d \in all
        <3>1. CASE d = 0
            BY <1>1, <2>1, <3>1
        <3>2. CASE d /= 0 /\ d < seq - w.maxSeq
            <4>1. d \notin v.bitmap
                BY <1>1, <2>1, <3>2 DEF ShiftLeft, Bits
            <4>2. seq - d > w.maxSeq /\ seq - d /= seq
                BY <1>1, <3>2 DEF Bits
            <4>3. seq - d \notin all
                BY <1>1, <4>2 DEF Exact, Bits
            <4>4. QED
                BY <2>1, <4>1, <4>3
        <3>3. CASE d >= seq - w.maxSeq
            <4> DEFINE b == d - (seq - w.maxSeq)
            <4>1. b \in Bits /\ w.maxSeq - b = seq - d /\ (b <= w.maxSeq <=> d <= seq)
                BY <1>1, <1>2, <3>3 DEF Bits
            <4>2. d /= 0 /\ seq - d /= seq
                BY <1>1, <1>2, <3>3 DEF Bits
            <4>3. d \in v.bitmap <=> b \in w.bitmap
                BY <1>1, <2>1, <3>3, <4>2 DEF ShiftLeft
            <4>4. b \in w.bitmap <=> b <= w.maxSeq /\ w.maxSeq - b \in history
                BY <4>1 DEF Exact
            <4>5. QED
                BY <2>1, <4>1, <4>2, <4>3, <4>4
        <3>4. QED
            BY <1>1, <1>2, <3>1, <3>2, <3>3 DEF Bits
    <2>4. QED
        BY <2>2, <2>3 DEF Exact
<1>3. CASE seq <= w.maxSeq
    <2> DEFINE b == w.maxSeq - seq
    <2>1. v.maxSeq = w.maxSeq /\ v.bitmap = w.bitmap \cup {b}
        BY <1>1, <1>3 DEF Slide, Window
    <2>2. b \in Bits /\ w.maxSeq - b = seq /\ b <= w.maxSeq
        BY <1>1, <1>3 DEF Fresh, Bits
    <2>3. /\ \A p \in all : 0 < p /\ p <= v.maxSeq
          /\ v.maxSeq \in all \cup {0}
        BY <1>1, <1>3, <2>1 DEF Exact
    <2>4. ASSUME NEW d \in Bits
          PROVE  d \in v.bitmap <=> d <= v.maxSeq /\ v.maxSeq - d \in all
        <3>1. CASE d = b
            BY <2>1, <2>2, <3>1
        <3>2. CASE d /= b
            <4>1. d <= w.maxSeq => w.maxSeq - d /= seq
                BY <1>1, <1>3, <3>2 DEF Bits
            <4>2. d \in w.bitmap <=> d <= w.maxSeq /\ w.maxSeq - d \in history
                BY DEF Exact
            <4>3. QED
                BY <2>1, <3>2, <4>1, <4>2
        <3>3. QED
            BY <3>1, <3>2
    <2>5. QED
        BY <2>3, <2>4 DEF Exact
<1>4. QED
    BY <1>1, <1>2, <1>3

-----------------------------------------------------------------------------
(* The inductive invariant *)

(* What an exchange holds at each of its steps. *)
WellFormed(e) ==
    /\ exchange[e].at \in {"unused", "sent", "decrypt", "serve"} => exchange[e].reply = 0
    /\ exchange[e].kind = "keyExchange" => exchange[e].reply = 0 /\ exchange[e].code = "OK"
    /\ exchange[e].code = "PreconditionFailed" => exchange[e].reply = 0
    /\ exchange[e].at = "sent" /\ exchange[e].kind = "encrypted" => exchange[e].session \in Sessions
    /\ exchange[e].at = "decrypt" => exchange[e].kind = "encrypted"
    /\ exchange[e].at \in {"sent", "decrypt", "serve"} => exchange[e].code = "OK"
    /\ exchange[e].at \in {"decrypt", "serve"} =>
          /\ exchange[e].with \in Sessions /\ exchange[e].session \in Sessions
    /\ exchange[e].at = "serve" => exchange[e].with = exchange[e].session
    /\ exchange[e].reply /= 0 =>
          /\ exchange[e].kind = "encrypted" /\ exchange[e].session \in Sessions
          /\ exchange[e].with = exchange[e].session
          /\ exchange[e].at = "replied" => exchange[e].code = "OK"
    /\ exchange[e].at = "replied" /\ exchange[e].kind = "encrypted" /\ exchange[e].code = "OK" =>
          exchange[e].reply /= 0

ExchangesWellFormed == \A e \in Exchanges : WellFormed(e)

(* The number of every request carried out has gone through the window.     *)
ServedHasPassed ==
    \A e \in Exchanges : Opened(e) => exchange[e].seq \in passed["up"][exchange[e].session]

(* No number of a session opens two requests.                               *)
OpenedOnce ==
    \A e, f \in Exchanges : Opened(e) /\ Opened(f) /\ e /= f =>
        <<exchange[e].session, exchange[e].seq>> /= <<exchange[f].session, exchange[f].seq>>

(* Answers are numbered without repetition.                                 *)
RepliesDiffer ==
    /\ \A e \in Exchanges :
          exchange[e].reply /= 0 => exchange[e].reply <= sendSeq["down"][exchange[e].session]
    /\ \A e, f \in Exchanges :
          /\ exchange[e].reply /= 0 /\ exchange[f].reply = exchange[e].reply
          /\ exchange[f].session = exchange[e].session
          => e = f

(* The requester has received no number that was not sent, nor that of an   *)
(* answer which is still on its way.                                        *)
PassedWasReceived ==
    /\ \A s \in Sessions : \A n \in passed["down"][s] : n <= sendSeq["down"][s]
    /\ \A e \in Exchanges :
          At(e, "replied") /\ exchange[e].reply /= 0 =>
              exchange[e].reply \notin passed["down"][exchange[e].session]

ChannelInv ==
    /\ TypeOK /\ WindowIsExact /\ ExchangesWellFormed
    /\ ServedHasPassed /\ OpenedOnce /\ RepliesDiffer /\ PassedWasReceived

-----------------------------------------------------------------------------
(* Type correctness and the form of exchanges *)

LEMMA InitEstablishes == Init => ChannelInv
<1> SUFFICES ASSUME Init PROVE ChannelInv
    OBVIOUS
<1> USE WindowSizeAssumption, ChannelAssumption
<1>1. EmptyWindow \in Window /\ Unused \in Exchange
    BY DEF EmptyWindow, Window, Unused, Exchange, SomeSession
<1>2. TypeOK
    BY <1>1 DEF Init, TypeOK, SomeSession, Directions
<1>3. WindowIsExact
    BY DEF Init, WindowIsExact, Exact, EmptyWindow, Bits
<1>4. \A e \in Exchanges : exchange[e] = Unused
    BY DEF Init
<1>5. \A e \in Exchanges : WellFormed(e) /\ ~Opened(e) /\ exchange[e].reply = 0
    BY <1>4 DEF WellFormed, Opened, At, Unused
<1>6. QED
    BY <1>2, <1>3, <1>5
    DEF ChannelInv, ExchangesWellFormed, ServedHasPassed, OpenedOnce, RepliesDiffer,
        PassedWasReceived, Init, Directions

(* A new request is well formed.                                            *)
LEMMA KeyExchangeForm ==
    ASSUME NEW e \in Exchanges, NEW p \in Exchanges \cup {NoExchange}
    PROVE  /\ Request(e, "keyExchange", p, NoSession, 0) \in Exchange
           /\ Request(e, "keyExchange", p, NoSession, 0).reply = 0
           /\ Request(e, "keyExchange", p, NoSession, 0).code = "OK"
           /\ Request(e, "keyExchange", p, NoSession, 0).at = "sent"
           /\ Request(e, "keyExchange", p, NoSession, 0).of = e
           /\ Request(e, "keyExchange", p, NoSession, 0).payload = p
           /\ Request(e, "keyExchange", p, NoSession, 0).kind = "keyExchange"
           /\ Request(e, "keyExchange", p, NoSession, 0).session = NoSession
BY DEF Request, Unused, Exchange, SomeSession

LEMMA EncryptedForm ==
    ASSUME NEW e \in Exchanges, NEW s \in Sessions, NEW n \in Nat
    PROVE  /\ Request(e, "encrypted", e, s, n) \in Exchange
           /\ Request(e, "encrypted", e, s, n).reply = 0
           /\ Request(e, "encrypted", e, s, n).code = "OK"
           /\ Request(e, "encrypted", e, s, n).at = "sent"
           /\ Request(e, "encrypted", e, s, n).of = e
           /\ Request(e, "encrypted", e, s, n).payload = e
           /\ Request(e, "encrypted", e, s, n).kind = "encrypted"
           /\ Request(e, "encrypted", e, s, n).session = s
BY DEF Request, Unused, Exchange, SomeSession

(* One pass through the window of a receiver.                               *)
LEMMA CheckKeepsExact ==
    ASSUME TypeOK, WindowIsExact, NEW d \in Directions, NEW s \in Sessions, NEW n \in Nat,
           Fresh(recvWindow[d][s], n), Check(d, s, n)
    PROVE  /\ recvWindow' \in [Directions -> [Sessions -> Window]]
           /\ passed' \in [Directions -> [Sessions -> SUBSET Nat]]
           /\ WindowIsExact'
           /\ n \notin passed[d][s]
           /\ \A c \in Directions, t \in Sessions :
                 passed'[c][t] = IF c = d /\ t = s THEN passed[d][s] \cup {n} ELSE passed[c][t]
<1>1. /\ recvWindow[d][s] \in Window /\ passed[d][s] \in SUBSET Nat
      /\ Exact(recvWindow[d][s], passed[d][s])
    BY DEF TypeOK, WindowIsExact
<1>2. Slide(recvWindow[d][s], n) \in Window
    BY <1>1, SlideType
<1>3. Exact(Slide(recvWindow[d][s], n), passed[d][s] \cup {n})
    BY <1>1, SlideIsExact
<1>4. n \notin passed[d][s]
    BY <1>1, FreshIsExact DEF FreshForEver
<1>5. \A c \in Directions, t \in Sessions :
        /\ recvWindow'[c][t] = IF c = d /\ t = s THEN Slide(recvWindow[d][s], n)
                                                ELSE recvWindow[c][t]
        /\ passed'[c][t] = IF c = d /\ t = s THEN passed[d][s] \cup {n} ELSE passed[c][t]
    BY DEF Check, TypeOK
<1>6. recvWindow' \in [Directions -> [Sessions -> Window]]
    BY <1>2 DEF Check, TypeOK
<1>7. passed' \in [Directions -> [Sessions -> SUBSET Nat]]
    BY DEF Check, TypeOK
<1>8. WindowIsExact'
    <2>1. ASSUME NEW c \in Directions, NEW t \in Sessions
          PROVE  Exact(recvWindow'[c][t], passed'[c][t])
        <3>1. CASE c = d /\ t = s
            BY <1>3, <1>5, <3>1
        <3>2. CASE ~(c = d /\ t = s)
            BY <1>5, <3>2 DEF WindowIsExact
        <3>3. QED
            BY <3>1, <3>2
    <2>2. QED
        BY <2>1 DEF WindowIsExact
<1>9. QED
    BY <1>4, <1>5, <1>6, <1>7, <1>8

(* The same at the server, and at the requester.                            *)
LEMMA ServerCheck ==
    ASSUME TypeOK, WindowIsExact, NEW s \in Sessions, NEW n \in Nat,
           Fresh(recvWindow["up"][s], n), Check("up", s, n)
    PROVE  /\ recvWindow' \in [Directions -> [Sessions -> Window]]
           /\ passed' \in [Directions -> [Sessions -> SUBSET Nat]]
           /\ WindowIsExact' /\ n \notin passed["up"][s]
           /\ passed'["down"] = passed["down"]
           /\ \A t \in Sessions : passed'["up"][t] =
                 IF t = s THEN passed["up"][s] \cup {n} ELSE passed["up"][t]
<1>1. PICK d \in Directions : d = "up"
    BY DEF Directions
<1>2. Check(d, s, n) /\ Fresh(recvWindow[d][s], n)
    BY <1>1
<1>3. /\ recvWindow' \in [Directions -> [Sessions -> Window]]
      /\ passed' \in [Directions -> [Sessions -> SUBSET Nat]]
      /\ WindowIsExact' /\ n \notin passed[d][s]
      /\ \A c \in Directions, t \in Sessions : passed'[c][t] =
            IF c = d /\ t = s THEN passed[d][s] \cup {n} ELSE passed[c][t]
    BY <1>1, <1>2, CheckKeepsExact
<1>4. passed'["down"] = passed["down"]
    BY <1>1, <1>2 DEF Check, TypeOK, Directions
<1>5. QED
    BY <1>1, <1>3, <1>4 DEF Directions

LEMMA RequesterCheck ==
    ASSUME TypeOK, WindowIsExact, NEW s \in Sessions, NEW n \in Nat,
           Fresh(recvWindow["down"][s], n), Check("down", s, n)
    PROVE  /\ recvWindow' \in [Directions -> [Sessions -> Window]]
           /\ passed' \in [Directions -> [Sessions -> SUBSET Nat]]
           /\ WindowIsExact' /\ n \notin passed["down"][s]
           /\ passed'["up"] = passed["up"]
           /\ \A t \in Sessions : passed'["down"][t] =
                 IF t = s THEN passed["down"][s] \cup {n} ELSE passed["down"][t]
<1>1. PICK d \in Directions : d = "down"
    BY DEF Directions
<1>2. Check(d, s, n) /\ Fresh(recvWindow[d][s], n)
    BY <1>1
<1>3. /\ recvWindow' \in [Directions -> [Sessions -> Window]]
      /\ passed' \in [Directions -> [Sessions -> SUBSET Nat]]
      /\ WindowIsExact' /\ n \notin passed[d][s]
      /\ \A c \in Directions, t \in Sessions : passed'[c][t] =
            IF c = d /\ t = s THEN passed[d][s] \cup {n} ELSE passed[c][t]
    BY <1>1, <1>2, CheckKeepsExact
<1>4. passed'["up"] = passed["up"]
    BY <1>1, <1>2 DEF Check, TypeOK, Directions
<1>5. QED
    BY <1>1, <1>3, <1>4 DEF Directions

-----------------------------------------------------------------------------
(* Steps that carry no request out and receive no answer *)

(* What a step may leave of an exchange: what mattered before, or an        *)
(* exchange without an answer.                                              *)
Kept(e) ==
    /\ exchange'[e].session = exchange[e].session /\ exchange'[e].seq = exchange[e].seq
    /\ exchange'[e].reply = exchange[e].reply
    /\ exchange'[e].at = "replied" /\ exchange[e].reply /= 0 => exchange[e].at = "replied"
    /\ Opened(e)' => Opened(e)

Unanswered(e) == exchange'[e].reply = 0 /\ ~Opened(e)'

LEMMA OpenedHasSession ==
    ASSUME NEW e, WellFormed(e), Opened(e)
    PROVE  exchange[e].session \in Sessions
BY DEF WellFormed, Opened, At

LEMMA ServedFrame ==
    ASSUME ChannelInv, \A s \in Sessions : passed["up"][s] \subseteq passed'["up"][s],
           \A e \in Exchanges : Opened(e)' =>
              /\ Opened(e) /\ exchange'[e].session = exchange[e].session
              /\ exchange'[e].seq = exchange[e].seq
    PROVE  ServedHasPassed' /\ OpenedOnce'
<1>1. \A e \in Exchanges : Opened(e) => exchange[e].session \in Sessions
    BY OpenedHasSession DEF ChannelInv, ExchangesWellFormed
<1>2. ServedHasPassed'
    BY <1>1 DEF ChannelInv, ServedHasPassed
<1>3. OpenedOnce'
    BY DEF ChannelInv, OpenedOnce
<1>4. QED
    BY <1>2, <1>3

LEMMA RepliesFrame ==
    ASSUME ChannelInv, passed'["down"] = passed["down"], sendSeq'["down"] = sendSeq["down"],
           \A e \in Exchanges : exchange'[e].reply /= 0 =>
              /\ exchange'[e].reply = exchange[e].reply
              /\ exchange'[e].session = exchange[e].session
              /\ exchange'[e].at = "replied" => exchange[e].at = "replied"
    PROVE  RepliesDiffer' /\ PassedWasReceived'
<1>1. RepliesDiffer'
    BY DEF ChannelInv, RepliesDiffer
<1>2. PassedWasReceived'
    BY DEF ChannelInv, PassedWasReceived, At
<1>3. QED
    BY <1>1, <1>2

LEMMA Frame ==
    ASSUME ChannelInv, KeepWindows, sendSeq'["down"] = sendSeq["down"],
           \A e \in Exchanges : Kept(e) \/ Unanswered(e)
    PROVE  ServedHasPassed' /\ OpenedOnce' /\ RepliesDiffer' /\ PassedWasReceived'
<1>1. \A e \in Exchanges : Opened(e)' =>
        Opened(e) /\ exchange'[e].session = exchange[e].session /\ exchange'[e].seq = exchange[e].seq
    BY DEF Kept, Unanswered
<1>2. \A e \in Exchanges : exchange'[e].reply /= 0 =>
        /\ exchange'[e].reply = exchange[e].reply /\ exchange'[e].session = exchange[e].session
        /\ exchange'[e].at = "replied" => exchange[e].at = "replied"
    BY DEF Kept, Unanswered
<1>3. passed' = passed
    BY DEF KeepWindows
<1>4. QED
    BY <1>1, <1>2, <1>3, ServedFrame, RepliesFrame

(* The same of an exchange the step does not touch.                         *)
LEMMA Untouched ==
    ASSUME NEW e, exchange'[e] = exchange[e]
    PROVE  Kept(e) /\ (WellFormed(e) => WellFormed(e)')
BY DEF Kept, WellFormed, Opened, At

(* A request put on its way, the rest untouched, whatever became of the     *)
(* exchange that caused it.                                                 *)
LEMMA NewRequest ==
    ASSUME ChannelInv, NEW e \in Exchanges, exchange'[e].reply = 0, exchange'[e].at = "sent",
           exchange'[e].code = "OK",
           exchange'[e].kind = "encrypted" => exchange'[e].session \in Sessions
    PROVE  Unanswered(e) /\ WellFormed(e)'
BY DEF Unanswered, WellFormed, Opened, At

(* What every step may use of the invariant.                                *)
LEMMA Entry ==
    ASSUME ChannelInv, NEW e \in Exchanges
    PROVE  exchange[e] \in Exchange /\ WellFormed(e)
BY DEF ChannelInv, TypeOK, ExchangesWellFormed

(* An answer received by its caller.                                        *)
LEMMA ReceivedForm ==
    ASSUME NEW e, exchange[e] \in Exchange, WellFormed(e), exchange[e].at = "replied",
           exchange'[e] = [exchange[e] EXCEPT !.at = "received"]
    PROVE  Kept(e) /\ WellFormed(e)' /\ exchange'[e] \in Exchange
<1>1. /\ exchange'[e].kind = exchange[e].kind /\ exchange'[e].session = exchange[e].session
      /\ exchange'[e].seq = exchange[e].seq /\ exchange'[e].with = exchange[e].with
      /\ exchange'[e].reply = exchange[e].reply /\ exchange'[e].at = "received"
    BY DEF Exchange
<1>2. Kept(e)
    BY <1>1 DEF Kept, Opened, At
<1>3. WellFormed(e)'
    BY <1>1 DEF WellFormed
<1>4. exchange'[e] \in Exchange
    BY DEF Exchange
<1>5. QED
    BY <1>2, <1>3, <1>4

(* An exchange that was handled. *)
LEMMA HandledForm ==
    ASSUME NEW x \in Exchange, NEW s \in SomeSession, NEW k \in {"OK", "BadRequest", "PreconditionFailed"},
           NEW a \in {"unused", "sent", "decrypt", "serve", "replied", "received"}
    PROVE  /\ Handled(x, s, a, k) \in Exchange
           /\ Handled(x, s, a, k).kind = x.kind /\ Handled(x, s, a, k).session = x.session
           /\ Handled(x, s, a, k).seq = x.seq /\ Handled(x, s, a, k).reply = x.reply
           /\ Handled(x, s, a, k).with = s /\ Handled(x, s, a, k).at = a
           /\ Handled(x, s, a, k).code = k
<1> DEFINE u == [x EXCEPT !.with = s]  v == [u EXCEPT !.at = a]  w == [v EXCEPT !.code = k]
<1>1. Handled(x, s, a, k) = w
    BY DEF Handled
<1>2. u \in Exchange
    BY DEF Exchange
<1>3. /\ u.kind = x.kind /\ u.reply = x.reply /\ u.seq = x.seq
      /\ u.session = x.session /\ u.with = s
    BY DEF Exchange
<1> HIDE DEF u
<1>4. v \in Exchange
    BY <1>2 DEF Exchange
<1>5. /\ v.kind = u.kind /\ v.reply = u.reply /\ v.seq = u.seq
      /\ v.session = u.session /\ v.with = u.with /\ v.at = a
    BY <1>2 DEF Exchange
<1> HIDE DEF v
<1>6. w \in Exchange
    BY <1>4 DEF Exchange
<1>7. /\ w.kind = v.kind /\ w.reply = v.reply /\ w.seq = v.seq
      /\ w.session = v.session /\ w.with = v.with /\ w.at = v.at /\ w.code = k
    BY <1>4 DEF Exchange
<1> HIDE DEF w
<1>8. QED
    BY <1>1, <1>3, <1>5, <1>6, <1>7

(* The four ways a request is handled. *)
LEMMA ExpiredForm ==
    ASSUME NEW x \in Exchange
    PROVE  /\ Handled(x, NoSession, "replied", "PreconditionFailed") \in Exchange
           /\ Handled(x, NoSession, "replied", "PreconditionFailed").kind = x.kind
           /\ Handled(x, NoSession, "replied", "PreconditionFailed").session = x.session
           /\ Handled(x, NoSession, "replied", "PreconditionFailed").seq = x.seq
           /\ Handled(x, NoSession, "replied", "PreconditionFailed").reply = x.reply
           /\ Handled(x, NoSession, "replied", "PreconditionFailed").with = NoSession
           /\ Handled(x, NoSession, "replied", "PreconditionFailed").at = "replied"
           /\ Handled(x, NoSession, "replied", "PreconditionFailed").code = "PreconditionFailed"
<1>1. NoSession \in SomeSession
    BY DEF SomeSession
<1>2. QED
    BY <1>1, HandledForm

LEMMA FoundForm ==
    ASSUME NEW x \in Exchange, NEW s \in SomeSession
    PROVE  /\ Handled(x, s, "decrypt", "OK") \in Exchange
           /\ Handled(x, s, "decrypt", "OK").kind = x.kind
           /\ Handled(x, s, "decrypt", "OK").session = x.session
           /\ Handled(x, s, "decrypt", "OK").seq = x.seq
           /\ Handled(x, s, "decrypt", "OK").reply = x.reply
           /\ Handled(x, s, "decrypt", "OK").with = s
           /\ Handled(x, s, "decrypt", "OK").at = "decrypt"
           /\ Handled(x, s, "decrypt", "OK").code = "OK"
BY HandledForm

LEMMA OpenedForm ==
    ASSUME NEW x \in Exchange, NEW s \in SomeSession
    PROVE  /\ Handled(x, s, "serve", "OK") \in Exchange
           /\ Handled(x, s, "serve", "OK").kind = x.kind
           /\ Handled(x, s, "serve", "OK").session = x.session
           /\ Handled(x, s, "serve", "OK").seq = x.seq
           /\ Handled(x, s, "serve", "OK").reply = x.reply
           /\ Handled(x, s, "serve", "OK").with = s
           /\ Handled(x, s, "serve", "OK").at = "serve"
           /\ Handled(x, s, "serve", "OK").code = "OK"
BY HandledForm

LEMMA RefusedForm ==
    ASSUME NEW x \in Exchange, NEW s \in SomeSession
    PROVE  /\ Handled(x, s, "replied", "BadRequest") \in Exchange
           /\ Handled(x, s, "replied", "BadRequest").kind = x.kind
           /\ Handled(x, s, "replied", "BadRequest").session = x.session
           /\ Handled(x, s, "replied", "BadRequest").seq = x.seq
           /\ Handled(x, s, "replied", "BadRequest").reply = x.reply
           /\ Handled(x, s, "replied", "BadRequest").with = s
           /\ Handled(x, s, "replied", "BadRequest").at = "replied"
           /\ Handled(x, s, "replied", "BadRequest").code = "BadRequest"
BY HandledForm

LEMMA SendKeyExchangeStep ==
    ASSUME ChannelInv, NEW c \in Callers, SendKeyExchange(c)
    PROVE  ChannelInv'
<1>1. PICK e \in Exchanges :
        /\ exchange' = [exchange EXCEPT ![e] = Request(e, "keyExchange", e, NoSession, 0)]
        /\ attempt' = [attempt EXCEPT ![c] = e]
    BY DEF SendKeyExchange
<1> DEFINE r == Request(e, "keyExchange", e, NoSession, 0)
<1>2. r \in Exchange /\ r.reply = 0 /\ r.at = "sent" /\ r.kind = "keyExchange" /\ r.code = "OK"
    BY KeyExchangeForm
<1>3. exchange'[e] = r /\ \A f \in Exchanges \ {e} : exchange'[f] = exchange[f]
    BY <1>1 DEF ChannelInv, TypeOK
<1>5. TypeOK'
    BY <1>1, <1>2 DEF SendKeyExchange, KeepSessions, KeepWindows, ChannelInv, TypeOK
<1>6. \A f \in Exchanges : (Kept(f) \/ Unanswered(f)) /\ WellFormed(f)'
    BY <1>2, <1>3, NewRequest, Untouched, Entry
<1>7. KeepWindows /\ sendSeq'["down"] = sendSeq["down"]
    BY DEF SendKeyExchange
<1>8. WindowIsExact'
    BY <1>7 DEF ChannelInv, WindowIsExact, KeepWindows
<1>9. QED
    BY <1>5, <1>6, <1>7, <1>8, Frame DEF ChannelInv, ExchangesWellFormed

LEMMA SendEncryptedStep ==
    ASSUME ChannelInv, NEW c \in Callers, SendEncrypted(c)
    PROVE  ChannelInv'
<1> DEFINE n == sendSeq["up"][httpSession] + 1
<1>1. PICK e \in Exchanges :
        /\ exchange' = [exchange EXCEPT ![e] = Request(e, "encrypted", e, httpSession, n)]
        /\ attempt' = [attempt EXCEPT ![c] = e]
    BY DEF SendEncrypted
<1> DEFINE r == Request(e, "encrypted", e, httpSession, n)
<1>2. httpSession \in Sessions /\ n \in Nat
    BY DEF SendEncrypted, ChannelInv, TypeOK, SomeSession, Directions
<1>3. /\ r \in Exchange /\ r.reply = 0 /\ r.at = "sent" /\ r.code = "OK"
      /\ r.kind = "encrypted" /\ r.session \in Sessions
    BY <1>2, EncryptedForm
<1>4. exchange'[e] = r /\ \A f \in Exchanges \ {e} : exchange'[f] = exchange[f]
    BY <1>1 DEF ChannelInv, TypeOK
<1>5. TypeOK'
    <2>1. sendSeq' \in [Directions -> [Sessions -> Nat]]
        BY <1>2 DEF SendEncrypted, ChannelInv, TypeOK, Directions
    <2>2. QED
        BY <1>1, <1>3, <2>1 DEF SendEncrypted, KeepSessions, KeepWindows, ChannelInv, TypeOK
<1>6. \A f \in Exchanges : (Kept(f) \/ Unanswered(f)) /\ WellFormed(f)'
    BY <1>3, <1>4, NewRequest, Untouched, Entry
<1>7. KeepWindows /\ sendSeq'["down"] = sendSeq["down"]
    BY DEF SendEncrypted, ChannelInv, TypeOK, Directions
<1>8. WindowIsExact'
    BY <1>7 DEF ChannelInv, WindowIsExact, KeepWindows
<1>9. QED
    BY <1>5, <1>6, <1>7, <1>8, Frame DEF ChannelInv, ExchangesWellFormed

LEMMA GiveUpStep ==
    ASSUME ChannelInv, NEW c \in Callers, GiveUp(c)
    PROVE  ChannelInv'
<1>5. TypeOK'
    BY DEF GiveUp, KeepSessions, KeepWindows, ChannelInv, TypeOK
<1>6. \A f \in Exchanges : (Kept(f) \/ Unanswered(f)) /\ WellFormed(f)'
    BY Untouched, Entry DEF GiveUp
<1>7. KeepWindows /\ sendSeq'["down"] = sendSeq["down"]
    BY DEF GiveUp
<1>8. WindowIsExact'
    BY <1>7 DEF ChannelInv, WindowIsExact, KeepWindows
<1>9. QED
    BY <1>5, <1>6, <1>7, <1>8, Frame DEF ChannelInv, ExchangesWellFormed

LEMMA ReceiveKeyExchangeStep ==
    ASSUME ChannelInv, NEW c \in Callers, NEW e \in Exchanges, ReceiveKeyExchange(c, e)
    PROVE  ChannelInv'
<1>1. exchange[e] \in Exchange /\ WellFormed(e)
    BY Entry
<1>2. exchange' = [exchange EXCEPT ![e].at = "received"]
    BY DEF ReceiveKeyExchange
<1>3. /\ exchange'[e] = [exchange[e] EXCEPT !.at = "received"]
      /\ \A f \in Exchanges \ {e} : exchange'[f] = exchange[f]
    BY <1>2 DEF ChannelInv, TypeOK
<1>4. Kept(e) /\ WellFormed(e)' /\ exchange'[e] \in Exchange
    BY <1>1, <1>3, ReceivedForm DEF ReceiveKeyExchange, Answers, At
<1>5. TypeOK'
    <2>1. exchange' \in [Exchanges -> Exchange]
        BY <1>2, <1>3, <1>4 DEF ChannelInv, TypeOK
    <2>2. exchange[e].session \in SomeSession
        BY <1>1 DEF Exchange
    <2>3. QED
        BY <2>1, <2>2 DEF ReceiveKeyExchange, SomeSession, KeepWindows, ChannelInv, TypeOK
<1>6. \A f \in Exchanges : (Kept(f) \/ Unanswered(f)) /\ WellFormed(f)'
    BY <1>3, <1>4, Untouched, Entry
<1>7. KeepWindows /\ sendSeq'["down"] = sendSeq["down"]
    BY DEF ReceiveKeyExchange
<1>8. WindowIsExact'
    BY <1>7 DEF ChannelInv, WindowIsExact, KeepWindows
<1>9. QED
    BY <1>5, <1>6, <1>7, <1>8, Frame DEF ChannelInv, ExchangesWellFormed

LEMMA ReceiveErrorStep ==
    ASSUME ChannelInv, NEW c \in Callers, NEW e \in Exchanges, ReceiveError(c, e)
    PROVE  ChannelInv'
<1>1. exchange[e] \in Exchange /\ WellFormed(e)
    BY Entry
<1>2. exchange' = [exchange EXCEPT ![e].at = "received"]
    BY DEF ReceiveError
<1>3. /\ exchange'[e] = [exchange[e] EXCEPT !.at = "received"]
      /\ \A f \in Exchanges \ {e} : exchange'[f] = exchange[f]
    BY <1>2 DEF ChannelInv, TypeOK
<1>4. Kept(e) /\ WellFormed(e)' /\ exchange'[e] \in Exchange
    BY <1>1, <1>3, ReceivedForm DEF ReceiveError, Answers, At
<1>5. TypeOK'
    <2>1. exchange' \in [Exchanges -> Exchange]
        BY <1>2, <1>3, <1>4 DEF ChannelInv, TypeOK
    <2>2. exchange[e].session \in SomeSession
        BY <1>1 DEF Exchange
    <2>3. QED
        BY <2>1, <2>2 DEF ReceiveError, KeepSessions, KeepWindows, ChannelInv, TypeOK
<1>6. \A f \in Exchanges : (Kept(f) \/ Unanswered(f)) /\ WellFormed(f)'
    BY <1>3, <1>4, Untouched, Entry
<1>7. KeepWindows /\ sendSeq'["down"] = sendSeq["down"]
    BY DEF ReceiveError
<1>8. WindowIsExact'
    BY <1>7 DEF ChannelInv, WindowIsExact, KeepWindows
<1>9. QED
    BY <1>5, <1>6, <1>7, <1>8, Frame DEF ChannelInv, ExchangesWellFormed

LEMMA ReceiveExpiredStep ==
    ASSUME ChannelInv, NEW c \in Callers, NEW e \in Exchanges, ReceiveExpired(c, e)
    PROVE  ChannelInv'
<1>1. exchange[e] \in Exchange /\ WellFormed(e)
    BY Entry
<1>2. PICK g \in Exchanges :
        /\ Free(g)
        /\ exchange' = [exchange EXCEPT
               ![e].at = "received",
               ![g] = Request(g, "keyExchange", exchange[e].payload, NoSession, 0)]
        /\ attempt' = [attempt EXCEPT ![c] = g]
    BY DEF ReceiveExpired
<1> DEFINE r == Request(g, "keyExchange", exchange[e].payload, NoSession, 0)
           x == [exchange[e] EXCEPT !.at = "received"]
<1>3. /\ r \in Exchange /\ r.reply = 0 /\ r.at = "sent" /\ r.kind = "keyExchange"
      /\ r.code = "OK" /\ x \in Exchange /\ g /= e
    <2>1. /\ r \in Exchange /\ r.reply = 0 /\ r.at = "sent" /\ r.kind = "keyExchange"
          /\ r.code = "OK"
        BY <1>1, KeyExchangeForm DEF Exchange
    <2>2. x \in Exchange
        BY <1>1 DEF Exchange
    <2>3. g /= e
        BY <1>2 DEF ReceiveExpired, Answers, Free, At
    <2>4. QED
        BY <2>1, <2>2, <2>3
<1>4. /\ exchange'[e] = x /\ exchange'[g] = r
      /\ \A f \in Exchanges \ {e, g} : exchange'[f] = exchange[f]
    BY <1>2, <1>3 DEF ChannelInv, TypeOK
<1>5. TypeOK'
    <2>1. exchange' \in [Exchanges -> Exchange]
        BY <1>2, <1>3, <1>4 DEF ChannelInv, TypeOK
    <2>2. QED
        BY <1>2, <2>1 DEF ReceiveExpired, KeepWindows, ChannelInv, TypeOK, SomeSession
<1>6. \A f \in Exchanges : (Kept(f) \/ Unanswered(f)) /\ WellFormed(f)'
    <2>1. Kept(e) /\ WellFormed(e)'
        BY <1>1, <1>4, ReceivedForm DEF ReceiveExpired, Answers, At
    <2>2. QED
        BY <1>3, <1>4, <2>1, NewRequest, Untouched, Entry
<1>7. KeepWindows /\ sendSeq'["down"] = sendSeq["down"]
    BY DEF ReceiveExpired
<1>8. WindowIsExact'
    BY <1>7 DEF ChannelInv, WindowIsExact, KeepWindows
<1>9. QED
    BY <1>5, <1>6, <1>7, <1>8, Frame DEF ChannelInv, ExchangesWellFormed

LEMMA HandleKeyExchangeStep ==
    ASSUME ChannelInv, NEW e \in Exchanges, HandleKeyExchange(e)
    PROVE  ChannelInv'
<1>1. exchange[e] \in Exchange /\ WellFormed(e)
    BY Entry
<1>2. PICK s \in Sessions :
        /\ derived' = derived \cup {s} /\ cache' = s
        /\ exchange' = [exchange EXCEPT ![e].at = "serve", ![e].session = s, ![e].with = s]
    BY DEF HandleKeyExchange
<1> DEFINE x == [exchange[e] EXCEPT !.at = "serve", !.session = s, !.with = s]
<1>3. /\ exchange'[e] = x
      /\ \A f \in Exchanges \ {e} : exchange'[f] = exchange[f]
    BY <1>2 DEF ChannelInv, TypeOK
<1>4. x \in Exchange /\ Unanswered(e) /\ WellFormed(e)'
    <2>1. /\ exchange[e].at = "sent" /\ exchange[e].kind = "keyExchange"
          /\ exchange[e].reply = 0 /\ exchange[e].code = "OK"
        BY <1>1 DEF HandleKeyExchange, At, WellFormed
    <2>2. x \in Exchange
        BY <1>1 DEF Exchange, SomeSession
    <2>3. /\ x.reply = 0 /\ x.at = "serve" /\ x.kind = "keyExchange" /\ x.code = "OK"
          /\ x.session = s /\ x.with = s
        BY <1>1, <2>1 DEF Exchange
    <2>4. QED
        BY <1>3, <2>2, <2>3 DEF Unanswered, WellFormed, Opened, At
<1>5. TypeOK'
    <2>1. exchange' \in [Exchanges -> Exchange]
        BY <1>2, <1>3, <1>4 DEF ChannelInv, TypeOK
    <2>2. QED
        BY <1>2, <2>1 DEF HandleKeyExchange, KeepWindows, ChannelInv, TypeOK, SomeSession
<1>6. \A f \in Exchanges : (Kept(f) \/ Unanswered(f)) /\ WellFormed(f)'
    BY <1>3, <1>4, Untouched, Entry
<1>7. KeepWindows /\ sendSeq'["down"] = sendSeq["down"]
    BY DEF HandleKeyExchange
<1>8. WindowIsExact'
    BY <1>7 DEF ChannelInv, WindowIsExact, KeepWindows
<1>9. QED
    BY <1>5, <1>6, <1>7, <1>8, Frame DEF ChannelInv, ExchangesWellFormed

LEMMA ServePlainStep ==
    ASSUME ChannelInv, NEW e \in Exchanges, ServePlain(e)
    PROVE  ChannelInv'
<1>1. /\ exchange[e] \in Exchange /\ WellFormed(e)
      /\ exchange[e].at = "serve" /\ exchange[e].kind = "keyExchange"
    BY Entry DEF ServePlain, At
<1>2. exchange' = [exchange EXCEPT ![e].at = "replied"]
    BY DEF ServePlain
<1> DEFINE x == [exchange[e] EXCEPT !.at = "replied"]
<1>3. /\ exchange'[e] = x
      /\ \A f \in Exchanges \ {e} : exchange'[f] = exchange[f]
    BY <1>2 DEF ChannelInv, TypeOK
<1>4. x \in Exchange /\ Unanswered(e) /\ WellFormed(e)'
    <2>1. exchange[e].reply = 0 /\ exchange[e].code = "OK"
        BY <1>1 DEF WellFormed
    <2>2. x \in Exchange
        BY <1>1 DEF Exchange
    <2>3. x.reply = 0 /\ x.at = "replied" /\ x.kind = "keyExchange" /\ x.code = "OK"
        BY <1>1, <2>1 DEF Exchange
    <2>4. QED
        BY <1>3, <2>2, <2>3 DEF Unanswered, WellFormed, Opened, At
<1>5. TypeOK'
    <2>1. exchange' \in [Exchanges -> Exchange]
        BY <1>2, <1>3, <1>4 DEF ChannelInv, TypeOK
    <2>2. QED
        BY <2>1 DEF ServePlain, KeepSessions, KeepWindows, ChannelInv, TypeOK
<1>6. \A f \in Exchanges : (Kept(f) \/ Unanswered(f)) /\ WellFormed(f)'
    BY <1>3, <1>4, Untouched, Entry
<1>7. KeepWindows /\ sendSeq'["down"] = sendSeq["down"]
    BY DEF ServePlain
<1>8. WindowIsExact'
    BY <1>7 DEF ChannelInv, WindowIsExact, KeepWindows
<1>9. QED
    BY <1>5, <1>6, <1>7, <1>8, Frame DEF ChannelInv, ExchangesWellFormed

LEMMA FindSessionStep ==
    ASSUME ChannelInv, NEW e \in Exchanges, FindSession(e)
    PROVE  ChannelInv'
<1> DEFINE h == IF cache = NoSession THEN Handled(exchange[e], NoSession, "replied", "PreconditionFailed")
                                     ELSE Handled(exchange[e], cache, "decrypt", "OK")
<1>1. exchange[e] \in Exchange /\ WellFormed(e) /\ cache \in SomeSession
    BY Entry DEF ChannelInv, TypeOK
<1>2. /\ exchange'[e] = h
      /\ \A f \in Exchanges \ {e} : exchange'[f] = exchange[f]
      /\ exchange' = [exchange EXCEPT ![e] = h]
    BY DEF ChannelInv, TypeOK, FindSession
<1>3. /\ exchange[e].at = "sent" /\ exchange[e].kind = "encrypted" /\ exchange[e].reply = 0
      /\ exchange[e].session \in Sessions
    BY <1>1 DEF FindSession, At, WellFormed
<1>4. h \in Exchange /\ Unanswered(e) /\ WellFormed(e)'
    <2>1. CASE cache = NoSession
        <3>1. /\ h \in Exchange /\ h.at = "replied" /\ h.code = "PreconditionFailed"
              /\ h.kind = "encrypted" /\ h.reply = 0
            BY <1>1, <1>3, <2>1, ExpiredForm
        <3>2. QED
            BY <1>2, <3>1 DEF Unanswered, WellFormed, Opened, At
    <2>2. CASE cache /= NoSession
        <3>1. /\ h \in Exchange /\ h.at = "decrypt" /\ h.code = "OK" /\ h.with = cache
              /\ h.session = exchange[e].session /\ h.kind = "encrypted" /\ h.reply = 0
            BY <1>1, <1>3, <2>2, FoundForm
        <3>2. cache \in Sessions
            BY <1>1, <2>2 DEF SomeSession
        <3>3. QED
            BY <1>2, <1>3, <3>1, <3>2 DEF Unanswered, WellFormed, Opened, At
    <2>3. QED
        BY <2>1, <2>2
<1>5. TypeOK'
    BY <1>2, <1>4 DEF FindSession, KeepSessions, KeepWindows, ChannelInv, TypeOK
<1>6. \A f \in Exchanges : (Kept(f) \/ Unanswered(f)) /\ WellFormed(f)'
    BY <1>2, <1>4, Untouched, Entry
<1>7. KeepWindows /\ sendSeq'["down"] = sendSeq["down"]
    BY DEF FindSession
<1>8. WindowIsExact'
    BY <1>7 DEF ChannelInv, WindowIsExact, KeepWindows
<1>9. QED
    BY <1>5, <1>6, <1>7, <1>8, Frame DEF ChannelInv, ExchangesWellFormed

LEMMA ExpireStep ==
    ASSUME ChannelInv, Expire
    PROVE  ChannelInv'
<1>5. TypeOK'
    BY DEF Expire, ChannelInv, TypeOK, SomeSession
<1>6. \A f \in Exchanges : (Kept(f) \/ Unanswered(f)) /\ WellFormed(f)'
    BY Untouched, Entry DEF Expire
<1>7. KeepWindows /\ sendSeq'["down"] = sendSeq["down"]
    BY DEF Expire, KeepWindows
<1>8. WindowIsExact'
    BY <1>7 DEF ChannelInv, WindowIsExact, KeepWindows
<1>9. QED
    BY <1>5, <1>6, <1>7, <1>8, Frame DEF ChannelInv, ExchangesWellFormed

LEMMA DuplicateStep ==
    ASSUME ChannelInv, NEW e \in Exchanges, Duplicate(e)
    PROVE  ChannelInv'
<1>1. exchange[e] \in Exchange /\ WellFormed(e) /\ exchange[e].at = "sent"
    BY Entry DEF Duplicate, At
<1>2. PICK g \in Exchanges : exchange' = [exchange EXCEPT ![g] = exchange[e]]
    BY DEF Duplicate
<1>3. /\ exchange'[g] = exchange[e]
      /\ \A f \in Exchanges \ {g} : exchange'[f] = exchange[f]
    BY <1>2 DEF ChannelInv, TypeOK
<1>4. Unanswered(g) /\ WellFormed(g)'
    BY <1>1, <1>3, NewRequest DEF WellFormed
<1>5. TypeOK'
    BY <1>1, <1>2 DEF Duplicate, KeepSessions, KeepWindows, ChannelInv, TypeOK
<1>6. \A f \in Exchanges : (Kept(f) \/ Unanswered(f)) /\ WellFormed(f)'
    BY <1>3, <1>4, Untouched, Entry
<1>7. KeepWindows /\ sendSeq'["down"] = sendSeq["down"]
    BY DEF Duplicate
<1>8. WindowIsExact'
    BY <1>7 DEF ChannelInv, WindowIsExact, KeepWindows
<1>9. QED
    BY <1>5, <1>6, <1>7, <1>8, Frame DEF ChannelInv, ExchangesWellFormed

-----------------------------------------------------------------------------
(* Steps through a window, and the sealing of an answer *)

LEMMA AnswerReadForm ==
    ASSUME NEW x \in Exchange, NEW s \in SomeSession
    PROVE  /\ Handled(x, s, "received", "OK") \in Exchange
           /\ Handled(x, s, "received", "OK").kind = x.kind
           /\ Handled(x, s, "received", "OK").session = x.session
           /\ Handled(x, s, "received", "OK").seq = x.seq
           /\ Handled(x, s, "received", "OK").reply = x.reply
           /\ Handled(x, s, "received", "OK").with = s
           /\ Handled(x, s, "received", "OK").at = "received"
           /\ Handled(x, s, "received", "OK").code = "OK"
BY HandledForm

LEMMA AnswerRefusedForm ==
    ASSUME NEW x \in Exchange, NEW s \in SomeSession
    PROVE  /\ Handled(x, s, "received", "BadRequest") \in Exchange
           /\ Handled(x, s, "received", "BadRequest").kind = x.kind
           /\ Handled(x, s, "received", "BadRequest").session = x.session
           /\ Handled(x, s, "received", "BadRequest").seq = x.seq
           /\ Handled(x, s, "received", "BadRequest").reply = x.reply
           /\ Handled(x, s, "received", "BadRequest").with = s
           /\ Handled(x, s, "received", "BadRequest").at = "received"
           /\ Handled(x, s, "received", "BadRequest").code = "BadRequest"
BY HandledForm

LEMMA HandleDecryptStep ==
    ASSUME ChannelInv, NEW e \in Exchanges, HandleDecrypt(e)
    PROVE  ChannelInv'
<1> DEFINE x == exchange[e]  s == x.with  n == x.seq
           fresh == Fresh(recvWindow["up"][s], n)
           opened == fresh /\ s = x.session
           h == IF opened THEN Handled(x, s, "serve", "OK") ELSE Handled(x, s, "replied", "BadRequest")
<1>1. x \in Exchange /\ WellFormed(e) /\ x.at = "decrypt"
    BY Entry DEF HandleDecrypt, At
<1>2. /\ x.kind = "encrypted" /\ x.reply = 0 /\ n \in Nat
      /\ s \in Sessions /\ x.session \in Sessions /\ s \in SomeSession
    BY <1>1 DEF WellFormed, Exchange, SomeSession
<1>3. /\ exchange'[e] = h
      /\ \A f \in Exchanges \ {e} : exchange'[f] = exchange[f]
      /\ exchange' = [exchange EXCEPT ![e] = h]
    BY DEF ChannelInv, TypeOK, HandleDecrypt
<1>4. /\ h \in Exchange /\ h.kind = "encrypted" /\ h.session = x.session /\ h.seq = n
      /\ h.reply = 0 /\ h.with = s
      /\ opened => h.at = "serve" /\ h.code = "OK"
      /\ ~opened => h.at = "replied" /\ h.code = "BadRequest"
    <2>1. CASE opened
        BY <1>1, <1>2, <2>1, OpenedForm
    <2>2. CASE ~opened
        BY <1>1, <1>2, <2>2, RefusedForm
    <2>3. QED
        BY <2>1, <2>2
<1>5. /\ fresh => Check("up", s, n)
      /\ ~fresh => KeepWindows
    BY DEF HandleDecrypt
<1> HIDE DEF h
<1>6. /\ recvWindow' \in [Directions -> [Sessions -> Window]]
      /\ passed' \in [Directions -> [Sessions -> SUBSET Nat]]
      /\ WindowIsExact' /\ passed'["down"] = passed["down"]
      /\ \A t \in Sessions : passed["up"][t] \subseteq passed'["up"][t]
      /\ fresh => n \notin passed["up"][s] /\ n \in passed'["up"][s]
    <2>1. CASE fresh
        <3>1. TypeOK /\ WindowIsExact
            BY DEF ChannelInv
        <3>2. /\ recvWindow' \in [Directions -> [Sessions -> Window]]
              /\ passed' \in [Directions -> [Sessions -> SUBSET Nat]]
              /\ WindowIsExact' /\ n \notin passed["up"][s]
              /\ passed'["down"] = passed["down"]
              /\ \A t \in Sessions : passed'["up"][t] =
                    IF t = s THEN passed["up"][s] \cup {n} ELSE passed["up"][t]
            BY <1>2, <1>5, <2>1, <3>1, ServerCheck
        <3>3. QED
            BY <1>2, <3>2
    <2>2. CASE ~fresh
        BY <1>5, <2>2 DEF KeepWindows, ChannelInv, TypeOK, WindowIsExact
    <2>3. QED
        BY <2>1, <2>2
<1>7. TypeOK'
    <2>1. exchange' \in [Exchanges -> Exchange]
        BY <1>3, <1>4 DEF ChannelInv, TypeOK
    <2>2. QED
        BY <1>6, <2>1 DEF HandleDecrypt, KeepSessions, ChannelInv, TypeOK
<1>8. ExchangesWellFormed'
    <2>1. WellFormed(e)'
        BY <1>2, <1>3, <1>4 DEF WellFormed
    <2>2. QED
        BY <1>3, <2>1, Untouched, Entry DEF ExchangesWellFormed
<1>9. sendSeq' = sendSeq
    BY DEF HandleDecrypt
<1>10. RepliesDiffer' /\ PassedWasReceived'
    BY <1>3, <1>4, <1>6, <1>9, RepliesFrame
<1>11. \A f \in Exchanges \ {e} : (Opened(f)' <=> Opened(f)) /\ exchange'[f] = exchange[f]
    BY <1>3 DEF Opened, At
<1>12. ServedHasPassed' /\ OpenedOnce'
    <2>1. CASE opened
        <3>1. n \notin passed["up"][s] /\ n \in passed'["up"][s] /\ s = x.session
            BY <1>6, <2>1
        <3>2. \A f \in Exchanges \ {e} : Opened(f) =>
                /\ exchange[f].seq \in passed["up"][exchange[f].session]
                /\ exchange[f].session \in Sessions
            BY OpenedHasSession DEF ChannelInv, ExchangesWellFormed, ServedHasPassed
        <3>3. ServedHasPassed'
            BY <1>3, <1>4, <1>6, <1>11, <3>1, <3>2 DEF ServedHasPassed
        <3>4. \A f \in Exchanges \ {e} : Opened(f) =>
                <<exchange[f].session, exchange[f].seq>> /= <<x.session, n>>
            BY <3>1, <3>2
        <3>5. OpenedOnce'
            BY <1>3, <1>4, <1>11, <3>4 DEF ChannelInv, OpenedOnce
        <3>6. QED
            BY <3>3, <3>5
    <2>2. CASE ~opened
        <3>1. ~Opened(e)'
            BY <1>3, <1>4, <2>2 DEF Opened, At
        <3>2. QED
            BY <1>6, <1>11, <3>1, ServedFrame
    <2>3. QED
        BY <2>1, <2>2
<1>13. QED
    BY <1>6, <1>7, <1>8, <1>10, <1>12 DEF ChannelInv

LEMMA ServeStep ==
    ASSUME ChannelInv, NEW e \in Exchanges, Serve(e)
    PROVE  ChannelInv'
<1> DEFINE x == exchange[e]  s == x.with  n == sendSeq["down"][s] + 1
           h == [x EXCEPT !.at = "replied", !.reply = n]
<1>1. x \in Exchange /\ WellFormed(e) /\ x.at = "serve"
    BY Entry DEF Serve, At
<1>2. /\ x.kind = "encrypted" /\ x.reply = 0 /\ x.code = "OK"
      /\ s \in Sessions /\ x.session = s
    BY <1>1 DEF Serve, WellFormed
<1>3. /\ exchange'[e] = h
      /\ \A f \in Exchanges \ {e} : exchange'[f] = exchange[f]
      /\ exchange' = [exchange EXCEPT ![e] = h]
    BY DEF ChannelInv, TypeOK, Serve
<1>4. n \in Nat /\ n /= 0 /\ sendSeq["down"][s] \in Nat
    BY <1>2 DEF ChannelInv, TypeOK, Directions
<1>5. /\ h \in Exchange /\ h.kind = "encrypted" /\ h.session = s /\ h.seq = x.seq
      /\ h.reply = n /\ h.with = s /\ h.at = "replied" /\ h.code = "OK"
    BY <1>1, <1>2, <1>4 DEF Exchange
<1> HIDE DEF h
<1>6. /\ sendSeq' \in [Directions -> [Sessions -> Nat]]
      /\ \A t \in Sessions : sendSeq'["down"][t] = IF t = s THEN n ELSE sendSeq["down"][t]
    BY <1>2, <1>4 DEF Serve, ChannelInv, TypeOK, Directions
<1> HIDE DEF n
<1>7. TypeOK'
    <2>1. exchange' \in [Exchanges -> Exchange]
        BY <1>3, <1>5 DEF ChannelInv, TypeOK
    <2>2. QED
        BY <1>6, <2>1 DEF Serve, KeepSessions, KeepWindows, ChannelInv, TypeOK
<1>8. WindowIsExact' /\ passed' = passed
    BY DEF Serve, KeepWindows, ChannelInv, WindowIsExact
<1>9. ExchangesWellFormed'
    <2>1. WellFormed(e)'
        BY <1>2, <1>3, <1>4, <1>5 DEF WellFormed
    <2>2. QED
        BY <1>3, <2>1, Untouched, Entry DEF ExchangesWellFormed
<1>10. ServedHasPassed' /\ OpenedOnce'
    <2>1. Opened(e)
        BY <1>1, <1>2 DEF Opened, At
    <2>2. \A f \in Exchanges : Opened(f)' =>
            /\ Opened(f) /\ exchange'[f].session = exchange[f].session
            /\ exchange'[f].seq = exchange[f].seq
        BY <1>2, <1>3, <1>5, <2>1 DEF Opened, At
    <2>3. QED
        BY <1>8, <2>2, ServedFrame
<1>11. \A f \in Exchanges : exchange[f].reply /= 0 =>
        /\ exchange[f].session \in Sessions
        /\ exchange[f].reply \in Nat
        /\ exchange[f].reply <= sendSeq["down"][exchange[f].session]
    BY Entry DEF ChannelInv, RepliesDiffer, WellFormed, Exchange
<1>12. n > sendSeq["down"][s] /\ \A t \in Sessions : sendSeq["down"][t] <= sendSeq'["down"][t]
    BY <1>2, <1>4, <1>6 DEF n, ChannelInv, TypeOK, Directions
<1>13. RepliesDiffer'
    <2>1. ASSUME NEW f \in Exchanges, exchange'[f].reply /= 0
          PROVE  exchange'[f].reply <= sendSeq'["down"][exchange'[f].session]
        <3>1. CASE f = e
            BY <1>2, <1>3, <1>4, <1>5, <1>6, <3>1
        <3>2. CASE f /= e
            <4>1. exchange'[f] = exchange[f] /\ exchange[f].session \in Sessions
                BY <1>3, <1>11, <2>1, <3>2
            <4>2. /\ sendSeq["down"][exchange[f].session] \in Nat
                  /\ sendSeq'["down"][exchange[f].session] \in Nat
                BY <1>6, <4>1 DEF ChannelInv, TypeOK, Directions
            <4>3. QED
                BY <1>11, <1>12, <2>1, <4>1, <4>2
        <3>3. QED
            BY <3>1, <3>2
    <2>2. ASSUME NEW f \in Exchanges \ {e}, exchange[f].session = s
          PROVE  exchange[f].reply /= n
        BY <1>4, <1>11, <1>12, <2>2
    <2>3. \A f, g \in Exchanges :
            /\ exchange'[f].reply /= 0 /\ exchange'[g].reply = exchange'[f].reply
            /\ exchange'[g].session = exchange'[f].session
            => f = g
        BY <1>3, <1>5, <2>2 DEF ChannelInv, RepliesDiffer
    <2>4. QED
        BY <2>1, <2>3 DEF RepliesDiffer
<1>14. PassedWasReceived'
    <2>1. \A t \in Sessions : \A m \in passed["down"][t] :
            m \in Nat /\ m <= sendSeq["down"][t]
        BY DEF ChannelInv, TypeOK, PassedWasReceived, Directions
    <2>2. ASSUME NEW t \in Sessions, NEW m \in passed["down"][t]
          PROVE  m <= sendSeq'["down"][t]
        <3>1. sendSeq["down"][t] \in Nat /\ sendSeq'["down"][t] \in Nat
            BY <1>6 DEF ChannelInv, TypeOK, Directions
        <3>2. QED
            BY <1>12, <2>1, <3>1
    <2>3. n \notin passed["down"][s]
        BY <1>2, <1>4, <1>12, <2>1
    <2>4. QED
        BY <1>3, <1>5, <1>8, <2>2, <2>3 DEF ChannelInv, PassedWasReceived, At
<1>15. QED
    BY <1>7, <1>8, <1>9, <1>10, <1>13, <1>14 DEF ChannelInv

LEMMA ReceiveAnswerStep ==
    ASSUME ChannelInv, NEW c \in Callers, NEW e \in Exchanges, ReceiveAnswer(c, e)
    PROVE  ChannelInv'
<1> DEFINE x == exchange[e]  s == x.session  n == x.reply
           fresh == Fresh(recvWindow["down"][s], n)
           opened == fresh /\ x.with = s
           h == Handled(x, x.with, "received", IF opened THEN "OK" ELSE "BadRequest")
<1>1. x \in Exchange /\ WellFormed(e) /\ x.at = "replied" /\ x.kind = "encrypted" /\ x.code = "OK"
    BY Entry DEF ReceiveAnswer, Answers, At
<1>2. /\ n \in Nat /\ n /= 0 /\ s \in Sessions /\ x.with = s /\ s \in SomeSession
    BY <1>1 DEF WellFormed, Exchange, SomeSession
<1>3. /\ exchange'[e] = h
      /\ \A f \in Exchanges \ {e} : exchange'[f] = exchange[f]
      /\ exchange' = [exchange EXCEPT ![e] = h]
    BY DEF ChannelInv, TypeOK, ReceiveAnswer
<1>4. /\ h \in Exchange /\ h.kind = "encrypted" /\ h.session = s /\ h.seq = x.seq
      /\ h.reply = n /\ h.with = s /\ h.at = "received" /\ h.code /= "PreconditionFailed"
    <2>1. CASE opened
        BY <1>1, <1>2, <2>1, AnswerReadForm
    <2>2. CASE ~opened
        BY <1>1, <1>2, <2>2, AnswerRefusedForm
    <2>3. QED
        BY <2>1, <2>2
<1>5. /\ fresh => Check("down", s, n)
      /\ ~fresh => KeepWindows
    BY DEF ReceiveAnswer
<1> HIDE DEF h
<1>6. /\ recvWindow' \in [Directions -> [Sessions -> Window]]
      /\ passed' \in [Directions -> [Sessions -> SUBSET Nat]]
      /\ WindowIsExact' /\ passed'["up"] = passed["up"]
      /\ \A t \in Sessions : passed'["down"][t] \subseteq
            IF t = s THEN passed["down"][s] \cup {n} ELSE passed["down"][t]
    <2>1. CASE fresh
        <3>1. TypeOK /\ WindowIsExact
            BY DEF ChannelInv
        <3>2. Fresh(recvWindow["down"][s], n) /\ Check("down", s, n)
            BY <1>5, <2>1
        <3>3. /\ recvWindow' \in [Directions -> [Sessions -> Window]]
              /\ passed' \in [Directions -> [Sessions -> SUBSET Nat]]
              /\ WindowIsExact' /\ passed'["up"] = passed["up"]
              /\ \A t \in Sessions : passed'["down"][t] =
                    IF t = s THEN passed["down"][s] \cup {n} ELSE passed["down"][t]
            BY <1>2, <3>1, <3>2, RequesterCheck
        <3>4. QED
            BY <3>3
    <2>2. CASE ~fresh
        BY <1>5, <2>2 DEF KeepWindows, ChannelInv, TypeOK, WindowIsExact
    <2>3. QED
        BY <2>1, <2>2
<1>7. TypeOK'
    <2>1. exchange' \in [Exchanges -> Exchange]
        BY <1>3, <1>4 DEF ChannelInv, TypeOK
    <2>2. QED
        BY <1>6, <2>1 DEF ReceiveAnswer, KeepSessions, ChannelInv, TypeOK
<1>8. ExchangesWellFormed'
    <2>1. WellFormed(e)'
        BY <1>2, <1>3, <1>4 DEF WellFormed
    <2>2. QED
        BY <1>3, <2>1, Untouched, Entry DEF ExchangesWellFormed
<1>9. sendSeq' = sendSeq
    BY DEF ReceiveAnswer
<1>10. ServedHasPassed' /\ OpenedOnce'
    <2>1. Opened(e)
        BY <1>1, <1>2 DEF Opened, At
    <2>2. \A f \in Exchanges : Opened(f)' =>
            /\ Opened(f) /\ exchange'[f].session = exchange[f].session
            /\ exchange'[f].seq = exchange[f].seq
        BY <1>3, <1>4, <2>1 DEF Opened, At
    <2>3. QED
        BY <1>6, <2>2, ServedFrame
<1>11. \A f \in Exchanges :
        exchange'[f].reply = exchange[f].reply /\ exchange'[f].session = exchange[f].session
    BY <1>3, <1>4
<1>12. RepliesDiffer'
    BY <1>9, <1>11 DEF ChannelInv, RepliesDiffer
<1>13. PassedWasReceived'
    <2>1. n <= sendSeq["down"][s]
        BY <1>2 DEF ChannelInv, RepliesDiffer
    <2>2. \A t \in Sessions : \A m \in passed'["down"][t] : m <= sendSeq'["down"][t]
        BY <1>6, <1>9, <2>1 DEF ChannelInv, PassedWasReceived
    <2>3. ASSUME NEW f \in Exchanges, exchange'[f].at = "replied", exchange'[f].reply /= 0
          PROVE  exchange'[f].reply \notin passed'["down"][exchange'[f].session]
        <3>1. f /= e /\ exchange'[f] = exchange[f]
            BY <1>3, <1>4, <2>3
        <3>2. exchange[f].session \in Sessions
            BY <2>3, <3>1, Entry DEF WellFormed
        <3>3. exchange[f].session = s => exchange[f].reply /= n
            BY <1>2, <3>1 DEF ChannelInv, RepliesDiffer
        <3>4. exchange[f].reply \notin passed["down"][exchange[f].session]
            BY <2>3, <3>1 DEF ChannelInv, PassedWasReceived, At
        <3>5. QED
            BY <1>6, <3>1, <3>2, <3>3, <3>4
    <2>4. QED
        BY <2>2, <2>3 DEF PassedWasReceived, At
<1>14. QED
    BY <1>6, <1>7, <1>8, <1>10, <1>12, <1>13 DEF ChannelInv

-----------------------------------------------------------------------------
(* What is carried out twice *)

Used(e) == exchange[e].at /= "unused"

(* The request after a 412: its payload is that of an earlier one.          *)
Retry(e) == exchange[e].payload /= exchange[e].of

(* Every request on its way is the copy of one that was sent, and carries   *)
(* what the first request of its call carried, which was no retry. A retry  *)
(* is never encrypted.                                                      *)
OriginKnown(e) ==
    /\ exchange[e].of \in Exchanges /\ Used(exchange[e].of)
    /\ exchange[exchange[e].of].of = exchange[e].of
    /\ exchange[exchange[e].of].payload = exchange[e].payload
    /\ exchange[exchange[e].of].kind = exchange[e].kind
    /\ exchange[e].payload \in Exchanges /\ Used(exchange[e].payload)
    /\ exchange[exchange[e].payload].of = exchange[e].payload
    /\ exchange[exchange[e].payload].payload = exchange[e].payload
    /\ exchange[e].kind = "encrypted" =>
          /\ exchange[e].payload = exchange[e].of
          /\ exchange[exchange[e].of].session = exchange[e].session
          /\ exchange[exchange[e].of].seq = exchange[e].seq

OriginsKnown == \A e \in Exchanges : Used(e) => OriginKnown(e)

(* The other side refused a copy of the first request with 412.             *)
Expired(g, p) ==
    /\ exchange[g].of = p /\ exchange[g].kind = "encrypted"
    /\ At(g, "received") /\ exchange[g].code = "PreconditionFailed"

RetriesFollowRefusals ==
    \A e \in Exchanges : Used(e) /\ Retry(e) => \E g \in Exchanges : Expired(g, exchange[e].payload)

(* A call is retried once: the retries that carry the same are copies.      *)
OneRetry ==
    \A e, f \in Exchanges :
        /\ Used(e) /\ Used(f) /\ Retry(e) /\ Retry(f)
        /\ exchange[e].payload = exchange[f].payload
        => exchange[e].of = exchange[f].of

(* What a caller waits for is a request that is not a copy, no other caller *)
(* waits for it, and it was not retried.                                    *)
WaitingKnown ==
    /\ \A c \in Callers : attempt[c] /= NoExchange =>
          /\ Used(attempt[c]) /\ exchange[attempt[c]].of = attempt[c]
          /\ \A e \in Exchanges : Used(e) /\ exchange[e].payload = attempt[c] => ~Retry(e)
    /\ \A c, d \in Callers : attempt[c] /= NoExchange /\ attempt[d] = attempt[c] => c = d

OriginInv == OriginsKnown /\ RetriesFollowRefusals /\ OneRetry /\ WaitingKnown

LEMMA OriginInit == Init => OriginInv
BY DEF Init, OriginInv, OriginsKnown, RetriesFollowRefusals, OneRetry, WaitingKnown, Used, Unused

(* What handling and answering leave of a request.                          *)
Same(e) ==
    /\ exchange'[e].of = exchange[e].of /\ exchange'[e].payload = exchange[e].payload
    /\ exchange'[e].kind = exchange[e].kind /\ exchange'[e].seq = exchange[e].seq
    /\ exchange'[e].at = "unused" <=> exchange[e].at = "unused"
    /\ exchange[e].kind = "encrypted" => exchange'[e].session = exchange[e].session
    /\ exchange[e].at = "received" =>
          exchange'[e].at = "received" /\ exchange'[e].code = exchange[e].code

LEMMA OriginFrame ==
    ASSUME OriginInv, TypeOK, \A e \in Exchanges : Same(e),
           \A c \in Callers : attempt'[c] \in {attempt[c], NoExchange}
    PROVE  OriginInv'
<1>1. \A e \in Exchanges : (Used(e)' <=> Used(e)) /\ (Retry(e)' <=> Retry(e))
    BY DEF Same, Used, Retry
<1>2. OriginsKnown'
    <2>1. ASSUME NEW e \in Exchanges, Used(e)'
          PROVE  OriginKnown(e)'
        <3>1. OriginKnown(e)
            BY <1>1, <2>1 DEF OriginInv, OriginsKnown
        <3>2. Same(e) /\ Same(exchange[e].of) /\ Same(exchange[e].payload)
            BY <3>1 DEF OriginKnown
        <3>3. QED
            BY <3>1, <3>2 DEF OriginKnown, Same, Used
    <2>2. QED
        BY <2>1 DEF OriginsKnown
<1>3. RetriesFollowRefusals'
    <2>1. ASSUME NEW e \in Exchanges, Used(e)', Retry(e)'
          PROVE  \E g \in Exchanges : Expired(g, exchange[e].payload)'
        <3>1. PICK g \in Exchanges : Expired(g, exchange[e].payload)
            BY <1>1, <2>1 DEF OriginInv, RetriesFollowRefusals
        <3>2. Same(g) /\ Same(e)
            OBVIOUS
        <3>3. QED
            BY <3>1, <3>2 DEF Expired, Same, At
    <2>2. QED
        BY <2>1 DEF RetriesFollowRefusals
<1>4. OneRetry'
    BY <1>1 DEF OriginInv, OneRetry, Same
<1>5. WaitingKnown'
    <2>1. ASSUME NEW c \in Callers, attempt'[c] /= NoExchange
          PROVE  /\ Used(attempt[c])' /\ exchange'[attempt'[c]].of = attempt'[c]
                 /\ attempt'[c] = attempt[c]
                 /\ \A e \in Exchanges : Used(e)' /\ exchange'[e].payload = attempt'[c] => ~Retry(e)'
        <3>1. attempt'[c] = attempt[c] /\ attempt[c] \in Exchanges
            BY <2>1 DEF TypeOK
        <3>2. Same(attempt[c])
            BY <3>1
        <3>3. QED
            BY <1>1, <2>1, <3>1, <3>2 DEF OriginInv, WaitingKnown, Same, Used
    <2>2. QED
        BY <2>1 DEF OriginInv, WaitingKnown
<1>6. QED
    BY <1>2, <1>3, <1>4, <1>5 DEF OriginInv

(* The steps that neither send a request nor copy one.                      *)
LEMMA SameRefl ==
    ASSUME NEW e, exchange'[e] = exchange[e]
    PROVE  Same(e)
BY DEF Same

LEMMA HandledFields ==
    ASSUME NEW x \in Exchange, NEW s, NEW k, NEW a
    PROVE  /\ Handled(x, s, a, k).of = x.of /\ Handled(x, s, a, k).payload = x.payload
           /\ Handled(x, s, a, k).kind = x.kind /\ Handled(x, s, a, k).session = x.session
           /\ Handled(x, s, a, k).seq = x.seq /\ Handled(x, s, a, k).at = a
BY DEF Handled, Exchange

LEMMA HandledSame ==
    ASSUME NEW e, exchange[e] \in Exchange, exchange[e].at \notin {"unused", "received"},
           NEW s, NEW k, NEW a, a /= "unused", exchange'[e] = Handled(exchange[e], s, a, k)
    PROVE  Same(e)
BY HandledFields DEF Same

LEMMA AnswerKeepsOrigin ==
    ASSUME ChannelInv, NEW c \in Callers, NEW e \in Exchanges,
           ReceiveKeyExchange(c, e) \/ ReceiveError(c, e) \/ ReceiveAnswer(c, e)
    PROVE  \A f \in Exchanges : Same(f)
<1> DEFINE x == exchange[e]
           k == IF /\ Fresh(recvWindow["down"][x.session], x.reply)
                   /\ x.with = x.session THEN "OK" ELSE "BadRequest"
<1>1. x \in Exchange /\ x.at = "replied" /\ x.with \in SomeSession
    BY Entry DEF ReceiveKeyExchange, ReceiveError, ReceiveAnswer, Answers, At, Exchange
<1>2. CASE ReceiveKeyExchange(c, e) \/ ReceiveError(c, e)
    <2>1. exchange' = [exchange EXCEPT ![e].at = "received"]
        BY <1>2 DEF ReceiveKeyExchange, ReceiveError
    <2>2. \A f \in Exchanges \ {e} : exchange'[f] = exchange[f]
        BY <2>1 DEF ChannelInv, TypeOK
    <2>3. exchange'[e] = [x EXCEPT !.at = "received"]
        BY <2>1 DEF ChannelInv, TypeOK
    <2>4. Same(e)
        BY <1>1, <2>3 DEF Same, Exchange
    <2>5. QED
        BY <2>2, <2>4, SameRefl
<1>3. CASE ReceiveAnswer(c, e)
    <2>1. exchange' = [exchange EXCEPT ![e] = Handled(x, x.with, "received", k)]
        BY <1>3 DEF ReceiveAnswer
    <2>2. /\ exchange'[e] = Handled(x, x.with, "received", k)
          /\ \A f \in Exchanges \ {e} : exchange'[f] = exchange[f]
        BY <2>1 DEF ChannelInv, TypeOK
    <2>3. k \in {"OK", "BadRequest", "PreconditionFailed"}
        OBVIOUS
    <2> HIDE DEF k
    <2>4. Same(e)
        BY <1>1, <2>2, <2>3, HandledSame
    <2>5. QED
        BY <2>2, <2>4, SameRefl
<1>4. QED
    BY <1>2, <1>3

LEMMA ServerKeepsOrigin ==
    ASSUME ChannelInv, NEW e \in Exchanges,
           \/ HandleKeyExchange(e) \/ ServePlain(e)
           \/ FindSession(e) \/ HandleDecrypt(e) \/ Serve(e)
    PROVE  \A f \in Exchanges : Same(f)
<1> DEFINE x == exchange[e]
<1>1. x \in Exchange /\ WellFormed(e)
    BY Entry
<1>2. CASE HandleKeyExchange(e)
    <2>1. PICK s \in Sessions :
            exchange' = [exchange EXCEPT ![e].at = "serve", ![e].session = s, ![e].with = s]
        BY <1>2 DEF HandleKeyExchange
    <2>2. /\ exchange'[e] = [x EXCEPT !.at = "serve", !.session = s, !.with = s]
          /\ \A f \in Exchanges \ {e} : exchange'[f] = exchange[f]
        BY <2>1 DEF ChannelInv, TypeOK
    <2>3. Same(e)
        BY <1>1, <1>2, <2>2 DEF Same, Exchange, HandleKeyExchange, At
    <2>4. QED
        BY <2>2, <2>3, SameRefl
<1>3. CASE ServePlain(e)
    <2>1. /\ exchange'[e] = [x EXCEPT !.at = "replied"]
          /\ \A f \in Exchanges \ {e} : exchange'[f] = exchange[f]
        BY <1>3 DEF ServePlain, ChannelInv, TypeOK
    <2>2. Same(e)
        BY <1>1, <1>3, <2>1 DEF Same, Exchange, ServePlain, At
    <2>3. QED
        BY <2>1, <2>2, SameRefl
<1>4. CASE FindSession(e)
    <2>1. /\ exchange'[e] = IF cache = NoSession
                 THEN Handled(x, NoSession, "replied", "PreconditionFailed")
                 ELSE Handled(x, cache, "decrypt", "OK")
          /\ \A f \in Exchanges \ {e} : exchange'[f] = exchange[f]
        BY <1>4 DEF FindSession, ChannelInv, TypeOK
    <2>2. x.at = "sent" /\ cache \in SomeSession /\ NoSession \in SomeSession
        BY <1>4 DEF FindSession, At, ChannelInv, TypeOK, SomeSession
    <2>3. ASSUME cache = NoSession PROVE Same(e)
        BY <1>1, <2>1, <2>2, <2>3, HandledSame
    <2>4. ASSUME cache /= NoSession PROVE Same(e)
        BY <1>1, <2>1, <2>2, <2>4, HandledSame
    <2>5. QED
        BY <2>1, <2>3, <2>4, SameRefl
<1>5. CASE HandleDecrypt(e)
    <2> DEFINE opened == Fresh(recvWindow["up"][x.with], x.seq) /\ x.with = x.session
    <2>1. /\ exchange'[e] = IF opened THEN Handled(x, x.with, "serve", "OK")
                                      ELSE Handled(x, x.with, "replied", "BadRequest")
          /\ \A f \in Exchanges \ {e} : exchange'[f] = exchange[f]
        BY <1>5 DEF HandleDecrypt, ChannelInv, TypeOK
    <2>2. x.at = "decrypt" /\ x.with \in SomeSession
        BY <1>1, <1>5 DEF HandleDecrypt, At, Exchange
    <2> HIDE DEF opened
    <2>3. ASSUME opened PROVE Same(e)
        BY <1>1, <2>1, <2>2, <2>3, HandledSame
    <2>4. ASSUME ~opened PROVE Same(e)
        BY <1>1, <2>1, <2>2, <2>4, HandledSame
    <2>5. QED
        BY <2>1, <2>3, <2>4, SameRefl
<1>6. CASE Serve(e)
    <2> DEFINE n == sendSeq["down"][x.with] + 1
    <2>1. /\ exchange'[e] = [x EXCEPT !.at = "replied", !.reply = n]
          /\ \A f \in Exchanges \ {e} : exchange'[f] = exchange[f]
        BY <1>6 DEF Serve, ChannelInv, TypeOK
    <2> HIDE DEF n
    <2>2. x.at = "serve"
        BY <1>6 DEF Serve, At
    <2>4. Same(e)
        BY <1>1, <2>1, <2>2 DEF Same, Exchange
    <2>5. QED
        BY <2>1, <2>4, SameRefl
<1>7. QED
    BY <1>2, <1>3, <1>4, <1>5, <1>6

(* A new call: a request that is not a retry, which its caller waits for.   *)
LEMMA NewCallOrigin ==
    ASSUME OriginInv, TypeOK, NEW c \in Callers, NEW e \in Exchanges, ~Used(e),
           Used(e)', exchange'[e].of = e, exchange'[e].payload = e,
           \A f \in Exchanges \ {e} : exchange'[f] = exchange[f],
           attempt' = [attempt EXCEPT ![c] = e]
    PROVE  OriginInv'
<1>1. \A f \in Exchanges \ {e} : (Used(f)' <=> Used(f)) /\ (Retry(f)' <=> Retry(f))
    BY DEF Used, Retry
<1>2. ~Retry(e)'
    BY DEF Retry
<1>3. \A f \in Exchanges : Used(f) =>
        f /= e /\ OriginKnown(f) /\ exchange[f].of /= e /\ exchange[f].payload /= e
    BY DEF OriginInv, OriginsKnown, OriginKnown
<1>4. OriginsKnown'
    <2>1. ASSUME NEW f \in Exchanges, Used(f)'
          PROVE  OriginKnown(f)'
        <3>1. CASE f = e
            BY <3>1 DEF OriginKnown
        <3>2. CASE f /= e
            <4>1. /\ OriginKnown(f) /\ exchange[f].of \in Exchanges \ {e}
                  /\ exchange[f].payload \in Exchanges \ {e}
                BY <1>1, <1>3, <2>1, <3>2 DEF OriginKnown
            <4>2. /\ exchange'[f] = exchange[f]
                  /\ exchange'[exchange[f].of] = exchange[exchange[f].of]
                  /\ exchange'[exchange[f].payload] = exchange[exchange[f].payload]
                BY <3>2, <4>1
            <4>3. QED
                BY <4>1, <4>2 DEF OriginKnown, Used
        <3>3. QED
            BY <3>1, <3>2
    <2>2. QED
        BY <2>1 DEF OriginsKnown
<1>5. RetriesFollowRefusals'
    <2>1. ASSUME NEW f \in Exchanges, Used(f)', Retry(f)'
          PROVE  \E g \in Exchanges : Expired(g, exchange[f].payload)'
        <3>1. PICK g \in Exchanges : Expired(g, exchange[f].payload)
            BY <1>1, <1>2, <2>1 DEF OriginInv, RetriesFollowRefusals
        <3>2. g /= e
            BY <3>1 DEF Expired, At, Used
        <3>3. f /= e
            BY <1>2, <2>1
        <3>4. QED
            BY <3>1, <3>2, <3>3 DEF Expired, At
    <2>2. QED
        BY <2>1 DEF RetriesFollowRefusals
<1>6. OneRetry'
    BY <1>1, <1>2 DEF OriginInv, OneRetry
<1>7. WaitingKnown'
    <2>1. \A d \in Callers : attempt'[d] = IF d = c THEN e ELSE attempt[d]
        BY DEF TypeOK
    <2>2. \A d \in Callers : attempt[d] /= NoExchange => attempt[d] \in Exchanges \ {e}
        BY DEF TypeOK, OriginInv, WaitingKnown
    <2>3. ASSUME NEW d \in Callers, attempt'[d] /= NoExchange
          PROVE  /\ Used(attempt[d])' /\ exchange'[attempt'[d]].of = attempt'[d]
                 /\ \A f \in Exchanges : Used(f)' /\ exchange'[f].payload = attempt'[d] => ~Retry(f)'
        <3>1. CASE d = c
            <4>1. attempt'[d] = e
                BY <2>1, <3>1
            <4>2. \A f \in Exchanges : Used(f)' /\ exchange'[f].payload = e => f = e
                BY <1>1, <1>3
            <4>3. QED
                BY <1>2, <4>1, <4>2 DEF Used
        <3>2. CASE d /= c
            <4>1. attempt'[d] = attempt[d] /\ attempt[d] \in Exchanges \ {e}
                BY <2>1, <2>2, <2>3, <3>2
            <4>2. exchange'[attempt[d]] = exchange[attempt[d]]
                BY <4>1
            <4>3. QED
                BY <1>1, <1>2, <2>3, <4>1, <4>2 DEF OriginInv, WaitingKnown, Used
        <3>3. QED
            BY <3>1, <3>2
    <2>4. QED
        BY <2>1, <2>2, <2>3 DEF OriginInv, WaitingKnown
<1>8. QED
    BY <1>4, <1>5, <1>6, <1>7 DEF OriginInv

(* A retry: its caller has received a 412 for the first request of the call,*)
(* which nobody retried before.                                             *)
LEMMA ReceiveExpiredOrigin ==
    ASSUME ChannelInv, OriginInv, NEW c \in Callers, NEW e \in Exchanges, ReceiveExpired(c, e)
    PROVE  OriginInv'
<1>0. PICK p : p = exchange[e].payload
    OBVIOUS
<1>1. /\ exchange[e] \in Exchange /\ WellFormed(e) /\ TypeOK
      /\ exchange[e].at = "replied" /\ exchange[e].code = "PreconditionFailed"
      /\ attempt[c] /= NoExchange /\ exchange[e].of = attempt[c]
    BY Entry DEF ReceiveExpired, Answers, At, ChannelInv
<1>2. /\ exchange[e].kind = "encrypted" /\ Used(e) /\ OriginKnown(e)
      /\ p = attempt[c] /\ p \in Exchanges /\ Used(p) /\ exchange[p].of = p
    BY <1>0, <1>1 DEF WellFormed, Exchange, OriginInv, OriginsKnown, OriginKnown, Used
<1>3. PICK g \in Exchanges :
        /\ Free(g)
        /\ exchange' = [exchange EXCEPT
               ![e].at = "received", ![g] = Request(g, "keyExchange", p, NoSession, 0)]
        /\ attempt' = [attempt EXCEPT ![c] = g]
    BY <1>0 DEF ReceiveExpired
<1> DEFINE r == Request(g, "keyExchange", p, NoSession, 0)
<1>4. /\ ~Used(g) /\ g /= e /\ g /= p
      /\ r.of = g /\ r.payload = p /\ r.kind = "keyExchange" /\ r.at = "sent"
    BY <1>2, <1>3, KeyExchangeForm DEF Free, At, Used
<1>5. /\ exchange'[e] = [exchange[e] EXCEPT !.at = "received"] /\ exchange'[g] = r
      /\ \A f \in Exchanges \ {e, g} : exchange'[f] = exchange[f]
    BY <1>1, <1>3, <1>4 DEF TypeOK
<1> HIDE DEF r
<1>6. Same(e)
    BY <1>1, <1>5 DEF Same, Exchange
<1>7. /\ \A f \in Exchanges \ {g} : Same(f) /\ (Used(f)' <=> Used(f)) /\ (Retry(f)' <=> Retry(f))
      /\ Used(g)'
    <2>1. \A f \in Exchanges \ {g} : Same(f)
        BY <1>5, <1>6, SameRefl
    <2>2. Used(g)'
        BY <1>4, <1>5 DEF Used
    <2>3. QED
        BY <2>1, <2>2 DEF Same, Used, Retry
<1>8. \A f \in Exchanges : Used(f) =>
        /\ f /= g /\ OriginKnown(f)
        /\ exchange[f].of \in Exchanges \ {g} /\ exchange[f].payload \in Exchanges \ {g}
    BY <1>4 DEF OriginInv, OriginsKnown, OriginKnown
<1>9. OriginsKnown'
    <2>1. ASSUME NEW f \in Exchanges, Used(f)'
          PROVE  OriginKnown(f)'
        <3>1. CASE f = g
            <4>1. Same(p) /\ exchange[p].payload = p
                BY <1>0, <1>2, <1>4, <1>7 DEF OriginKnown
            <4>2. QED
                BY <1>2, <1>4, <1>5, <1>7, <3>1, <4>1 DEF OriginKnown, Same, Used
        <3>2. CASE f /= g
            <4>1. /\ OriginKnown(f) /\ exchange[f].of \in Exchanges \ {g}
                  /\ exchange[f].payload \in Exchanges \ {g}
                BY <1>7, <1>8, <2>1, <3>2
            <4>2. Same(f) /\ Same(exchange[f].of) /\ Same(exchange[f].payload)
                BY <1>7, <3>2, <4>1
            <4>3. QED
                BY <4>1, <4>2 DEF OriginKnown, Same, Used
        <3>3. QED
            BY <3>1, <3>2
    <2>2. QED
        BY <2>1 DEF OriginsKnown
<1>10. Expired(e, p)'
    BY <1>0, <1>1, <1>2, <1>5, <1>6 DEF Expired, At, Same, Exchange
<1>11. RetriesFollowRefusals'
    <2>1. ASSUME NEW f \in Exchanges, Used(f)', Retry(f)'
          PROVE  \E h \in Exchanges : Expired(h, exchange[f].payload)'
        <3>1. CASE f = g
            BY <1>4, <1>5, <1>10, <3>1 DEF Expired
        <3>2. CASE f /= g
            <4>1. PICK h \in Exchanges : Expired(h, exchange[f].payload)
                BY <1>7, <2>1, <3>2 DEF OriginInv, RetriesFollowRefusals
            <4>2. h /= g
                BY <1>4, <4>1 DEF Expired, At, Used
            <4>3. Same(h) /\ Same(f)
                BY <1>7, <3>2, <4>2
            <4>4. QED
                BY <4>1, <4>3 DEF Expired, At, Same
        <3>3. QED
            BY <3>1, <3>2
    <2>2. QED
        BY <2>1 DEF RetriesFollowRefusals
<1>12. \A f \in Exchanges \ {g} : Used(f) /\ exchange[f].payload = p => ~Retry(f)
    BY <1>1, <1>2 DEF OriginInv, WaitingKnown
<1>13. OneRetry'
    <2>1. \A f \in Exchanges \ {g} : Used(f)' /\ Retry(f)' => exchange'[f].payload /= p
        BY <1>7, <1>12 DEF Same
    <2>2. exchange'[g].payload = p
        BY <1>4, <1>5
    <2>3. QED
        BY <1>7, <2>1, <2>2 DEF OriginInv, OneRetry, Same
<1>14. WaitingKnown'
    <2>1. \A d \in Callers : attempt'[d] = IF d = c THEN g ELSE attempt[d]
        BY <1>1, <1>3 DEF TypeOK
    <2>2. \A d \in Callers : attempt[d] /= NoExchange => attempt[d] \in Exchanges \ {g}
        BY <1>1, <1>4 DEF TypeOK, OriginInv, WaitingKnown
    <2>3. ASSUME NEW d \in Callers, attempt'[d] /= NoExchange
          PROVE  /\ Used(attempt[d])' /\ exchange'[attempt'[d]].of = attempt'[d]
                 /\ \A f \in Exchanges : Used(f)' /\ exchange'[f].payload = attempt'[d] => ~Retry(f)'
        <3>1. CASE d = c
            <4>1. attempt'[d] = g
                BY <2>1, <3>1
            <4>2. \A f \in Exchanges : Used(f)' => exchange'[f].payload /= g
                BY <1>4, <1>5, <1>7, <1>8 DEF Same
            <4>3. QED
                BY <1>4, <1>5, <1>7, <4>1, <4>2 DEF Used
        <3>2. CASE d /= c
            <4>1. attempt'[d] = attempt[d] /\ attempt[d] \in Exchanges \ {g}
                BY <2>1, <2>2, <2>3, <3>2
            <4>2. attempt[d] /= p
                BY <1>1, <1>2, <3>2 DEF OriginInv, WaitingKnown
            <4>3. Same(attempt[d]) /\ exchange'[g].payload /= attempt[d]
                BY <1>4, <1>5, <1>7, <4>1, <4>2
            <4>4. \A f \in Exchanges : Used(f)' /\ exchange'[f].payload = attempt[d] => ~Retry(f)'
                BY <1>7, <2>3, <4>1, <4>3 DEF OriginInv, WaitingKnown, Same
            <4>5. QED
                BY <2>3, <4>1, <4>3, <4>4 DEF OriginInv, WaitingKnown, Same, Used
        <3>3. QED
            BY <3>1, <3>2
    <2>4. QED
        BY <2>1, <2>2, <2>3 DEF OriginInv, WaitingKnown
<1>15. QED
    BY <1>9, <1>11, <1>13, <1>14 DEF OriginInv

LEMMA DuplicateOrigin ==
    ASSUME ChannelInv, OriginInv, NEW e \in Exchanges, Duplicate(e)
    PROVE  OriginInv'
<1>1. PICK g \in Exchanges : Free(g) /\ exchange' = [exchange EXCEPT ![g] = exchange[e]]
    BY DEF Duplicate
<1>2. /\ exchange'[g] = exchange[e] /\ ~Used(g) /\ Used(e) /\ g /= e
      /\ \A f \in Exchanges \ {g} : exchange'[f] = exchange[f]
    BY <1>1 DEF Duplicate, Free, At, Used, ChannelInv, TypeOK
<1>3. \A f \in Exchanges : Used(f) =>
        /\ f /= g /\ OriginKnown(f)
        /\ exchange[f].of \in Exchanges \ {g} /\ exchange[f].payload \in Exchanges \ {g}
    BY <1>2 DEF OriginInv, OriginsKnown, OriginKnown
<1>4. ASSUME NEW f \in Exchanges
      PROVE  \E h \in Exchanges \ {g} : exchange'[f] = exchange[h] /\ (Used(f)' => Used(h))
    <2>1. CASE f = g
        BY <1>2, <2>1
    <2>2. CASE f /= g
        BY <1>2, <2>2 DEF Used
    <2>3. QED
        BY <2>1, <2>2
<1>5. OriginsKnown'
    <2>1. ASSUME NEW f \in Exchanges, Used(f)'
          PROVE  OriginKnown(f)'
        <3>1. PICK h \in Exchanges \ {g} : exchange'[f] = exchange[h] /\ Used(h)
            BY <1>4, <2>1
        <3>2. /\ OriginKnown(h) /\ exchange[h].of \in Exchanges \ {g}
              /\ exchange[h].payload \in Exchanges \ {g}
            BY <1>3, <3>1
        <3>3. /\ exchange'[exchange[h].of] = exchange[exchange[h].of]
              /\ exchange'[exchange[h].payload] = exchange[exchange[h].payload]
            BY <1>2, <3>2
        <3>4. QED
            BY <3>1, <3>2, <3>3 DEF OriginKnown, Used
    <2>2. QED
        BY <2>1 DEF OriginsKnown
<1>6. RetriesFollowRefusals'
    <2>1. ASSUME NEW f \in Exchanges, Used(f)', Retry(f)'
          PROVE  \E h \in Exchanges : Expired(h, exchange[f].payload)'
        <3>1. PICK h \in Exchanges : exchange'[f] = exchange[h] /\ Used(h)
            BY <1>4, <2>1
        <3>2. PICK x \in Exchanges : Expired(x, exchange[h].payload)
            BY <2>1, <3>1 DEF OriginInv, RetriesFollowRefusals, Retry
        <3>3. x /= g
            BY <1>2, <3>2 DEF Expired, At, Used
        <3>4. QED
            BY <1>2, <3>1, <3>2, <3>3 DEF Expired, At
    <2>2. QED
        BY <2>1 DEF RetriesFollowRefusals
<1>7. OneRetry'
    BY <1>4 DEF OriginInv, OneRetry, Used, Retry
<1>8. WaitingKnown'
    <2>1. attempt' = attempt
        BY DEF Duplicate
    <2>2. \A c \in Callers : attempt[c] /= NoExchange => attempt[c] \in Exchanges \ {g}
        BY <1>2 DEF ChannelInv, TypeOK, OriginInv, WaitingKnown
    <2>3. ASSUME NEW c \in Callers, attempt[c] /= NoExchange
          PROVE  /\ Used(attempt[c])' /\ exchange'[attempt[c]].of = attempt[c]
                 /\ \A f \in Exchanges : Used(f)' /\ exchange'[f].payload = attempt[c] => ~Retry(f)'
        <3>1. exchange'[attempt[c]] = exchange[attempt[c]]
            BY <1>2, <2>2, <2>3
        <3>2. \A f \in Exchanges : Used(f)' /\ exchange'[f].payload = attempt[c] => ~Retry(f)'
            BY <1>4, <2>3 DEF OriginInv, WaitingKnown, Retry
        <3>3. QED
            BY <2>1, <2>3, <3>1, <3>2 DEF OriginInv, WaitingKnown, Used
    <2>4. QED
        BY <2>1, <2>3 DEF OriginInv, WaitingKnown
<1>9. QED
    BY <1>5, <1>6, <1>7, <1>8 DEF OriginInv

LEMMA OriginStep == ChannelInv /\ OriginInv /\ [Next]_vars => OriginInv'
<1> SUFFICES ASSUME ChannelInv, OriginInv, [Next]_vars PROVE OriginInv'
    OBVIOUS
<1>1. TypeOK
    BY DEF ChannelInv
<1>2. ASSUME NEW c \in Callers, SendKeyExchange(c)
      PROVE  OriginInv'
    <2>1. PICK e \in Exchanges :
            /\ Free(e) /\ attempt' = [attempt EXCEPT ![c] = e]
            /\ exchange' = [exchange EXCEPT ![e] = Request(e, "keyExchange", e, NoSession, 0)]
        BY <1>2 DEF SendKeyExchange
    <2> DEFINE r == Request(e, "keyExchange", e, NoSession, 0)
    <2>2. r.of = e /\ r.payload = e /\ r.at = "sent"
        BY KeyExchangeForm
    <2>3. exchange'[e] = r /\ \A f \in Exchanges \ {e} : exchange'[f] = exchange[f]
        BY <1>1, <2>1 DEF TypeOK
    <2> HIDE DEF r
    <2>4. ~Used(e) /\ Used(e)'
        BY <2>1, <2>2, <2>3 DEF Free, At, Used
    <2>5. QED
        BY <1>1, <2>1, <2>2, <2>3, <2>4, NewCallOrigin
<1>3. ASSUME NEW c \in Callers, SendEncrypted(c)
      PROVE  OriginInv'
    <2> DEFINE n == sendSeq["up"][httpSession] + 1
    <2>1. PICK e \in Exchanges :
            /\ Free(e) /\ attempt' = [attempt EXCEPT ![c] = e]
            /\ exchange' = [exchange EXCEPT ![e] = Request(e, "encrypted", e, httpSession, n)]
        BY <1>3 DEF SendEncrypted
    <2> DEFINE r == Request(e, "encrypted", e, httpSession, n)
    <2>2. httpSession \in Sessions /\ n \in Nat
        BY <1>3 DEF SendEncrypted, ChannelInv, TypeOK, SomeSession, Directions
    <2>3. r.of = e /\ r.payload = e /\ r.at = "sent"
        BY <2>2, EncryptedForm
    <2>4. exchange'[e] = r /\ \A f \in Exchanges \ {e} : exchange'[f] = exchange[f]
        BY <1>1, <2>1 DEF TypeOK
    <2> HIDE DEF r
    <2>5. ~Used(e) /\ Used(e)'
        BY <2>1, <2>3, <2>4 DEF Free, At, Used
    <2>6. QED
        BY <1>1, <2>1, <2>3, <2>4, <2>5, NewCallOrigin
<1>4. ASSUME NEW c \in Callers, NEW e \in Exchanges,
             ReceiveKeyExchange(c, e) \/ ReceiveError(c, e) \/ ReceiveAnswer(c, e)
      PROVE  OriginInv'
    <2>1. \A f \in Exchanges : Same(f)
        BY <1>4, AnswerKeepsOrigin
    <2>2. attempt' = [attempt EXCEPT ![c] = NoExchange]
        BY <1>4 DEF ReceiveKeyExchange, ReceiveError, ReceiveAnswer
    <2>3. \A d \in Callers : attempt'[d] \in {attempt[d], NoExchange}
        BY <1>1, <2>2 DEF TypeOK
    <2>4. QED
        BY <1>1, <2>1, <2>3, OriginFrame
<1>5. ASSUME NEW c \in Callers, GiveUp(c)
      PROVE  OriginInv'
    <2>1. \A f \in Exchanges : Same(f)
        BY <1>5, SameRefl DEF GiveUp
    <2>2. \A d \in Callers : attempt'[d] \in {attempt[d], NoExchange}
        BY <1>1, <1>5 DEF GiveUp, TypeOK
    <2>3. QED
        BY <1>1, <2>1, <2>2, OriginFrame
<1>6. CASE Server
    <2>1. PICK e \in Exchanges :
            \/ HandleKeyExchange(e) \/ ServePlain(e)
            \/ FindSession(e) \/ HandleDecrypt(e) \/ Serve(e)
        BY <1>6 DEF Server
    <2>2. \A f \in Exchanges : Same(f)
        BY <2>1, ServerKeepsOrigin
    <2>3. attempt' = attempt
        BY <2>1 DEF HandleKeyExchange, ServePlain, FindSession, HandleDecrypt, Serve
    <2>4. QED
        BY <1>1, <2>2, <2>3, OriginFrame
<1>7. CASE Expire \/ UNCHANGED vars
    <2>1. exchange' = exchange /\ attempt' = attempt
        BY <1>7 DEF Expire, vars
    <2>2. QED
        BY <1>1, <2>1, SameRefl, OriginFrame
<1>8. CASE Requester
    BY <1>2, <1>3, <1>4, <1>5, <1>8, ReceiveExpiredOrigin DEF Requester
<1>9. QED
    BY <1>6, <1>7, <1>8, DuplicateOrigin DEF Next

(* Two requests with one payload that are both carried out: one of them is  *)
(* a key exchange, and the payload was delivered twice.                     *)
LEMMA OriginsServedOnce == ChannelInv /\ OriginInv => ServedOnce
<1> SUFFICES ASSUME ChannelInv, OriginInv, NEW e \in Exchanges, NEW f \in Exchanges,
                    e /= f, CarriedOut(e), CarriedOut(f),
                    exchange[e].payload = exchange[f].payload
             PROVE  /\ "keyExchange" \in {exchange[e].kind, exchange[f].kind}
                    /\ DeliveredTwice(exchange[e].payload)
    BY DEF ServedOnce
<1>1. /\ exchange[e] \in Exchange /\ Used(e) /\ OriginKnown(e)
      /\ exchange[f] \in Exchange /\ Used(f) /\ OriginKnown(f)
    BY Entry DEF CarriedOut, Opened, At, Used, OriginInv, OriginsKnown
<1>2. \A g, h \in Exchanges :
        /\ g /= h /\ exchange[g].of = exchange[h].of
        /\ exchange[g].payload = exchange[e].payload /\ exchange[h].payload = exchange[e].payload
        => DeliveredTwice(exchange[e].payload)
    BY DEF DeliveredTwice
<1>3. "keyExchange" \in {exchange[e].kind, exchange[f].kind}
    <2>1. ASSUME exchange[e].kind = "encrypted", exchange[f].kind = "encrypted"
          PROVE  FALSE
        <3>1. Opened(e) /\ Opened(f)
            BY <2>1 DEF CarriedOut
        <3>2. exchange[e].session = exchange[f].session /\ exchange[e].seq = exchange[f].seq
            BY <1>1, <2>1 DEF OriginKnown
        <3>3. QED
            BY <3>1, <3>2 DEF ChannelInv, OpenedOnce
    <2>2. QED
        BY <1>1, <2>1 DEF Exchange
<1>4. ASSUME NEW x \in Exchanges, Used(x), Retry(x), exchange[x].payload = exchange[e].payload
      PROVE  \A y \in Exchanges :
                CarriedOut(y) /\ ~Retry(y) /\ exchange[y].payload = exchange[e].payload
                => DeliveredTwice(exchange[e].payload)
    <2>1. PICK g \in Exchanges : Expired(g, exchange[e].payload)
        BY <1>4 DEF OriginInv, RetriesFollowRefusals
    <2>2. /\ exchange[g].of = exchange[e].payload /\ exchange[g].kind = "encrypted"
          /\ exchange[g].at = "received" /\ exchange[g].code = "PreconditionFailed"
          /\ Used(g) /\ OriginKnown(g)
        BY <2>1 DEF Expired, At, Used, OriginInv, OriginsKnown
    <2>3. ASSUME NEW y \in Exchanges, CarriedOut(y), ~Retry(y),
                 exchange[y].payload = exchange[e].payload
          PROVE  DeliveredTwice(exchange[e].payload)
        <3>1. Used(y) /\ OriginKnown(y) /\ exchange[y].of = exchange[g].of
            BY <2>2, <2>3 DEF CarriedOut, Opened, At, Used, Retry, OriginInv, OriginsKnown
        <3>2. exchange[y].kind = "encrypted"
            BY <2>2, <3>1 DEF OriginKnown
        <3>3. Opened(y)
            BY <2>3, <3>2 DEF CarriedOut
        <3>4. exchange[g].payload = exchange[e].payload
            BY <2>2 DEF OriginKnown
        <3>5. y /= g
            BY <2>2, <3>3, Entry DEF WellFormed, Opened, At
        <3>6. QED
            BY <1>2, <2>3, <3>1, <3>4, <3>5
    <2>4. QED
        BY <2>3
<1>5. CASE exchange[e].of = exchange[f].of
    BY <1>2, <1>3, <1>5
<1>6. CASE exchange[e].of /= exchange[f].of
    <2>1. Retry(e) \/ Retry(f)
        BY <1>6 DEF Retry
    <2>2. ~(Retry(e) /\ Retry(f))
        BY <1>1, <1>6 DEF OriginInv, OneRetry
    <2>3. CASE Retry(e)
        BY <1>1, <1>3, <1>4, <2>2, <2>3
    <2>4. CASE Retry(f)
        BY <1>1, <1>3, <1>4, <2>2, <2>4
    <2>5. QED
        BY <2>1, <2>3, <2>4
<1>7. QED
    BY <1>5, <1>6

-----------------------------------------------------------------------------
(* The theorems *)

LEMMA StepKeepsInvariant == ChannelInv /\ [Next]_vars => ChannelInv'
<1> SUFFICES ASSUME ChannelInv, [Next]_vars PROVE ChannelInv'
    OBVIOUS
<1>1. CASE Requester
    BY <1>1, SendKeyExchangeStep, SendEncryptedStep, GiveUpStep, ReceiveKeyExchangeStep,
       ReceiveExpiredStep, ReceiveErrorStep, ReceiveAnswerStep DEF Requester
<1>2. CASE Server
    BY <1>2, HandleKeyExchangeStep, ServePlainStep, FindSessionStep, HandleDecryptStep, ServeStep
    DEF Server
<1>3. CASE Expire
    BY <1>3, ExpireStep
<1>4. CASE \E e \in Exchanges : Duplicate(e)
    BY <1>4, DuplicateStep
<1>5. CASE UNCHANGED vars
    BY <1>5 DEF vars, ChannelInv, TypeOK, WindowIsExact, ExchangesWellFormed, WellFormed,
                ServedHasPassed, OpenedOnce, Opened, At, RepliesDiffer, PassedWasReceived
<1>6. QED
    BY <1>1, <1>2, <1>3, <1>4, <1>5 DEF Next

(* The inductive invariant holds in every behaviour of the requester, the   *)
(* server and the network between them.                                     *)
THEOREM ChannelInvHolds == Spec => []ChannelInv
<1>1. Init => ChannelInv
    BY InitEstablishes
<1>2. ChannelInv /\ [Next]_vars => ChannelInv'
    BY StepKeepsInvariant
<1>3. QED
    BY <1>1, <1>2, PTL DEF Spec

(* Type correctness: sessions, windows and exchanges keep their form.       *)
THEOREM ChannelTypeCorrect == Spec => []TypeOK
<1>1. ChannelInv => TypeOK
    BY DEF ChannelInv
<1>2. QED
    BY <1>1, ChannelInvHolds, PTL

(* replayWindow: in every interleaving of the handlers, for every width of  *)
(* the bitmap, the window of each receiver is what the history of the       *)
(* numbers let through makes it.                                            *)
THEOREM WindowAlwaysExact == Spec => []WindowIsExact
<1>1. ChannelInv => WindowIsExact
    BY DEF ChannelInv
<1>2. QED
    BY <1>1, ChannelInvHolds, PTL

(* Where every request comes from, in every behaviour.                      *)
LEMMA OriginInvHolds == Spec => [](ChannelInv /\ OriginInv)
<1>1. Init => ChannelInv /\ OriginInv
    BY InitEstablishes, OriginInit
<1>2. (ChannelInv /\ OriginInv) /\ [Next]_vars => (ChannelInv /\ OriginInv)'
    BY StepKeepsInvariant, OriginStep
<1>3. QED
    BY <1>1, <1>2, PTL DEF Spec

(* CryptoMiddleware and doEncryptedHTTP: however often, however late and in *)
(* whatever order requests arrive, what a caller wants is carried out twice *)
(* only if the network delivered a request of its call twice, and never by  *)
(* two encrypted ones. A request that comes with a key exchange is guarded  *)
(* by nothing: it is carried out on every delivery.                         *)
THEOREM ServedOnceHolds == Spec => []ServedOnce
<1>1. ChannelInv /\ OriginInv => ServedOnce
    BY OriginsServedOnce
<1>2. QED
    BY <1>1, OriginInvHolds, PTL

(* An answer that carries something is received by ReceiveAnswer only.      *)
LEMMA OnlyReceiveAnswer ==
    ASSUME ChannelInv, Next, NEW e \in Exchanges, exchange[e].at = "replied",
           exchange[e].reply /= 0, exchange'[e].at = "received"
    PROVE  \E c \in Callers : ReceiveAnswer(c, e)
<1>1. /\ exchange \in [Exchanges -> Exchange]
      /\ exchange[e].kind = "encrypted" /\ exchange[e].code = "OK"
    BY Entry DEF ChannelInv, TypeOK, WellFormed
<1>2. exchange'[e] /= exchange[e]
    OBVIOUS
<1>3. ASSUME NEW c \in Callers, SendKeyExchange(c)
      PROVE  FALSE
    <2>1. PICK f \in Exchanges :
            exchange' = [exchange EXCEPT ![f] = Request(f, "keyExchange", f, NoSession, 0)]
        BY <1>3 DEF SendKeyExchange
    <2>2. Request(f, "keyExchange", f, NoSession, 0).at = "sent"
        BY KeyExchangeForm
    <2>3. QED
        BY <1>1, <1>2, <2>1, <2>2
<1>4. ASSUME NEW c \in Callers, SendEncrypted(c)
      PROVE  FALSE
    <2> DEFINE n == sendSeq["up"][httpSession] + 1
    <2>1. PICK f \in Exchanges :
            exchange' = [exchange EXCEPT ![f] = Request(f, "encrypted", f, httpSession, n)]
        BY <1>4 DEF SendEncrypted
    <2>2. httpSession \in Sessions /\ n \in Nat
        BY <1>4 DEF SendEncrypted, ChannelInv, TypeOK, SomeSession, Directions
    <2>3. Request(f, "encrypted", f, httpSession, n).at = "sent"
        BY <2>2, EncryptedForm
    <2>4. QED
        BY <1>1, <1>2, <2>1, <2>3
<1>5. ASSUME NEW c \in Callers, NEW f \in Exchanges, ReceiveExpired(c, f)
      PROVE  FALSE
    <2>1. PICK g \in Exchanges : Free(g) /\
            exchange' = [exchange EXCEPT
                ![f].at = "received",
                ![g] = Request(g, "keyExchange", exchange[f].payload, NoSession, 0)]
        BY <1>5 DEF ReceiveExpired
    <2>2. f /= e /\ g /= e
        BY <1>1, <1>5, <2>1 DEF ReceiveExpired, Free, At
    <2>3. QED
        BY <1>1, <1>2, <2>1, <2>2
<1>6. ASSUME NEW c \in Callers, NEW f \in Exchanges, ReceiveKeyExchange(c, f) \/ ReceiveError(c, f)
      PROVE  FALSE
    <2>1. f /= e /\ exchange' = [exchange EXCEPT ![f].at = "received"]
        BY <1>1, <1>6 DEF ReceiveKeyExchange, ReceiveError
    <2>2. QED
        BY <1>1, <1>2, <2>1
<1>7. ASSUME NEW f \in Exchanges,
             HandleKeyExchange(f) \/ ServePlain(f) \/ FindSession(f) \/ HandleDecrypt(f) \/ Serve(f)
      PROVE  FALSE
    <2>1. f /= e
        BY <1>7 DEF HandleKeyExchange, ServePlain, FindSession, HandleDecrypt, Serve, At
    <2>2. exchange'[e] = exchange[e]
        BY <1>1, <1>7, <2>1 DEF HandleKeyExchange, ServePlain, FindSession, HandleDecrypt, Serve
    <2>3. QED
        BY <1>2, <2>2
<1>8. ASSUME NEW f \in Exchanges, Duplicate(f)
      PROVE  FALSE
    <2>1. PICK g \in Exchanges : exchange' = [exchange EXCEPT ![g] = exchange[f]]
        BY <1>8 DEF Duplicate
    <2>2. QED
        BY <1>1, <1>2, <1>8, <2>1 DEF Duplicate, At
<1>9. \A c \in Callers : ~GiveUp(c)
    BY <1>2 DEF GiveUp
<1>10. ~Expire
    BY <1>2 DEF Expire
<1>11. PICK c \in Callers, f \in Exchanges : ReceiveAnswer(c, f)
    BY <1>3, <1>4, <1>5, <1>6, <1>7, <1>8, <1>9, <1>10 DEF Next, Requester, Server
<1>12. f = e
    BY <1>1, <1>2, <1>11 DEF ReceiveAnswer
<1>13. QED
    BY <1>11, <1>12

(* doEncryptedHTTP: an answer that its caller waits for can be opened,      *)
(* whatever session either side holds by then, unless windowSize answers    *)
(* overtook it.                                                             *)
THEOREM AnswersCanBeRead == Spec => AnswerIsReadable
<1> DEFINE Readable(e) ==
        At(e, "replied") /\ exchange[e].reply /= 0 /\ exchange'[e].at = "received" =>
            \/ exchange'[e].code = "OK"
            \/ Late(passed["down"][exchange[e].session], exchange[e].reply)
<1>1. ASSUME ChannelInv, [Next]_vars
      PROVE  [\A e \in Exchanges : Readable(e)]_vars
    <2>1. ASSUME Next, NEW e \in Exchanges, At(e, "replied"), exchange[e].reply /= 0,
                 exchange'[e].at = "received"
          PROVE  \/ exchange'[e].code = "OK"
                 \/ Late(passed["down"][exchange[e].session], exchange[e].reply)
        <3> DEFINE x == exchange[e]  s == x.session  n == x.reply
        <3>1. PICK c \in Callers : ReceiveAnswer(c, e)
            BY <1>1, <2>1, OnlyReceiveAnswer DEF At
        <3>2. /\ x \in Exchange /\ n \in Nat /\ s \in Sessions /\ x.with = s /\ s \in SomeSession
            BY <1>1, <2>1, Entry DEF WellFormed, Exchange, SomeSession
        <3>3. /\ recvWindow["down"][s] \in Window /\ passed["down"][s] \in SUBSET Nat
              /\ Exact(recvWindow["down"][s], passed["down"][s])
              /\ n \notin passed["down"][s]
            BY <1>1, <2>1, <3>2
            DEF ChannelInv, TypeOK, WindowIsExact, PassedWasReceived, Directions
        <3>4. Fresh(recvWindow["down"][s], n) <=> FreshForEver(passed["down"][s], n)
            BY <3>2, <3>3, FreshIsExact
        <3>5. CASE Fresh(recvWindow["down"][s], n)
            <4>1. exchange'[e] = Handled(x, s, "received", "OK")
                BY <1>1, <3>1, <3>2, <3>5 DEF ReceiveAnswer, ChannelInv, TypeOK
            <4>2. QED
                BY <3>2, <4>1, AnswerReadForm
        <3>6. CASE ~Fresh(recvWindow["down"][s], n)
            BY <2>1, <3>3, <3>4, <3>6 DEF FreshForEver
        <3>7. QED
            BY <3>5, <3>6
    <2>2. QED
        BY <1>1, <2>1
<1>2. QED
    BY <1>1, ChannelInvHolds, PTL DEF Spec, AnswerIsReadable

=============================================================================
