--------------------------- MODULE ExchangeProofs ---------------------------
(***************************************************************************)
(* Theorems about Exchange, for any clients, proxied or direct, and any    *)
(* number of calls.  They need no fairness.                                *)
(***************************************************************************)
EXTENDS Exchange, SequenceTheorems, TLAPS

N(c) == Len(calls[c])
O(c) == Len(outcome[c])
Local(c) == <<calls[c], outcome[c], at[c], line[c], state[c], unread[c],
              sent[c], back[c], executed[c]>>

\* A client waits for one call at most, its last.
Busy == {"handshake", "sending", "posting", "awaiting"}
Counts(c) ==
  /\ N(c) <= MaxCalls[c]
  /\ N(c) = IF at[c] \in Busy THEN O(c) + 1 ELSE O(c)

\* What was handled: not what lies ahead, and nothing twice.
Handled(c) == \A n \in 1 .. MaxCalls[c] :
  /\ executed[c][n] \in {0, 1}
  /\ n > N(c) => executed[c][n] = 0

\* At most one request or one answer is on its way.
OnTheWay(c, n) == sent[c] = <<n>> /\ back[c] = <<>> /\ executed[c][n] = 0
OnItsWayBack(c, n) == sent[c] = <<>> /\ back[c] = <<n>> /\ executed[c][n] = 1
Nowhere(c) == sent[c] = <<>> /\ back[c] = <<>>

Underway(c) ==
  CASE at[c] = "handshake" ->
         Nowhere(c) /\ executed[c][N(c)] = 0 /\ line[c] \in {"open", "dead"} /\ ~unread[c]
    [] at[c] = "sending" ->
         Nowhere(c) /\ executed[c][N(c)] = 0 /\ line[c] # "none"
    [] at[c] = "posting" ->
         \/ line[c] = "open" /\ OnTheWay(c, N(c))
         \/ line[c] = "dead" /\ Nowhere(c) /\ executed[c][N(c)] = 0
    [] at[c] = "awaiting" ->
         /\ (line[c] = "open" /\ OnTheWay(c, N(c))) \/ OnItsWayBack(c, N(c)) \/ Nowhere(c)
         /\ line[c] \in {"open", "dead"}
    [] OTHER ->
         /\ \/ Nowhere(c)
            \/ \E n \in 1 .. N(c) : /\ OnTheWay(c, n) \/ OnItsWayBack(c, n)
                                    /\ outcome[c][n] = "ResponseNotReady"
         /\ at[c] = "free" /\ state[c] = "Idle" => Nowhere(c)

\* What the last call to end broke shows in the connection.
Unusable(c) ==
  unread[c] \/ line[c] = "unusable" \/ (at[c] = "free" /\ state[c] = "Req-sent")
Spoiled(c) == O(c) > 0 /\ Breaks(c, O(c))
Usable(c) == at[c] # "gone" =>
  /\ Unusable(c) <=> Spoiled(c)
  /\ at[c] = "free" /\ Unusable(c) => line[c] # "none"

\* OutcomesTrue and BrokenForGood, of one client.
Truth(c) == \A n \in 1 .. O(c) :
  /\ outcome[c][n] = "answered" => executed[c][n] = 1
  /\ outcome[c][n] \in NeverSent => executed[c][n] = 0 /\ sent[c] # <<n>>
BrokenRightly(c) == \A n \in 1 .. O(c) :
  /\ n > 1 /\ Breaks(c, n - 1) => outcome[c][n] \in Broken
  /\ outcome[c][n] \in Refusal => n > 1 /\ Breaks(c, n - 1)

ClientInv(c) ==
  Counts(c) /\ Handled(c) /\ Underway(c) /\ Usable(c) /\ Truth(c) /\ BrokenRightly(c)
IInv == TypeOK /\ \A c \in Client : ClientInv(c)
-----------------------------------------------------------------------------
(* Facts about one client. *)

LEMMA Typing ==
  ASSUME TypeOK, NEW c \in Client
  PROVE  /\ calls[c] \in Seq(Method) /\ outcome[c] \in Seq(Outcome)
         /\ N(c) \in Nat /\ O(c) \in Nat /\ MaxCalls[c] \in Nat
         /\ at[c] \in Activity /\ line[c] \in Line
         /\ state[c] \in {"Idle", "Req-sent"} /\ unread[c] \in BOOLEAN
         /\ sent[c] \in Seq(1 .. MaxCalls[c]) /\ back[c] \in Seq(1 .. MaxCalls[c])
         /\ executed[c] \in [1 .. MaxCalls[c] -> Nat]
BY BoundsAssumption DEF TypeOK, N, O

LEMMA Frame ==
  ASSUME NEW c, ClientInv(c), UNCHANGED Local(c)
  PROVE  ClientInv(c)'
<1>1. N(c)' = N(c) /\ O(c)' = O(c)
  BY DEF Local, N, O
<1>2. Counts(c)' /\ Handled(c)' /\ Truth(c)'
  BY <1>1 DEF ClientInv, Local, Counts, Handled, Truth
<1>5. BrokenRightly(c)'
  BY <1>1 DEF ClientInv, Local, BrokenRightly, Breaks
<1>3. Underway(c)'
  BY <1>1 DEF ClientInv, Local, Underway, OnTheWay, OnItsWayBack, Nowhere
<1>4. Usable(c)'
  BY <1>1 DEF ClientInv, Local, Usable, Unusable, Spoiled, Breaks
<1> QED BY <1>2, <1>3, <1>4, <1>5 DEF ClientInv

\* A call is made.
LEMMA CallMade ==
  ASSUME TypeOK, NEW c \in Client, NEW m \in Method,
         calls' = [calls EXCEPT ![c] = Append(@, m)]
  PROVE  /\ calls' \in [Client -> Seq(Method)]
         /\ N(c)' = N(c) + 1
         /\ \A n \in 1 .. N(c) : calls'[c][n] = calls[c][n]
         /\ \A d \in Client \ {c} : calls'[d] = calls[d]
<1>1. calls[c] \in Seq(Method) /\ calls'[c] = Append(calls[c], m)
  BY DEF TypeOK
<1> QED BY <1>1 DEF TypeOK, N

\* A call ends.
LEMMA CallEnded ==
  ASSUME TypeOK, NEW c \in Client, NEW how \in Outcome, Ends(c, how)
  PROVE  /\ outcome' \in [Client -> Seq(Outcome)] /\ at' \in [Client -> Activity]
         /\ at'[c] = "free" /\ O(c)' = O(c) + 1
         /\ outcome'[c][O(c) + 1] = how
         /\ \A n \in 1 .. O(c) : outcome'[c][n] = outcome[c][n]
         /\ \A d \in Client \ {c} : outcome'[d] = outcome[d] /\ at'[d] = at[d]
<1>1. outcome[c] \in Seq(Outcome) /\ outcome'[c] = Append(outcome[c], how)
  BY DEF TypeOK, Ends
<1> QED BY <1>1 DEF TypeOK, Ends, O, Activity

\* The calls that have ended stay as they were, and so does what they broke.
LEMMA EndedCalls ==
  ASSUME TypeOK, NEW c \in Client, Counts(c), BrokenRightly(c),
         \A n \in 1 .. N(c) : calls'[c][n] = calls[c][n],
         \A n \in 1 .. O(c) : outcome'[c][n] = outcome[c][n]
  PROVE  /\ \A n \in 1 .. O(c) : Breaks(c, n)' <=> Breaks(c, n)
         /\ \A n \in 1 .. O(c) :
              /\ n > 1 /\ Breaks(c, n - 1)' => outcome'[c][n] \in Broken
              /\ outcome'[c][n] \in Refusal => n > 1 /\ Breaks(c, n - 1)'
<1>1. N(c) \in Nat /\ O(c) \in Nat /\ O(c) <= N(c)
  BY Typing DEF Counts
<1>2. ASSUME NEW n \in 1 .. O(c) PROVE Breaks(c, n)' <=> Breaks(c, n)
  <2>1. n \in 1 .. N(c)
    BY <1>1
  <2> QED BY <2>1 DEF Breaks
<1>3. ASSUME NEW n \in 1 .. O(c)
      PROVE  /\ n > 1 /\ Breaks(c, n - 1)' => outcome'[c][n] \in Broken
             /\ outcome'[c][n] \in Refusal => n > 1 /\ Breaks(c, n - 1)'
  <2>1. /\ n > 1 /\ Breaks(c, n - 1) => outcome[c][n] \in Broken
        /\ outcome[c][n] \in Refusal => n > 1 /\ Breaks(c, n - 1)
    BY DEF BrokenRightly
  <2>2. n > 1 => n - 1 \in 1 .. O(c)
    BY <1>1
  <2>3. n > 1 => (Breaks(c, n - 1)' <=> Breaks(c, n - 1))
    BY <2>2, <1>2
  <2> QED BY <2>1, <2>3
<1> QED BY <1>2, <1>3

\* A call ends: its end agrees with what the call before broke.
LEMMA EndsRightly ==
  ASSUME TypeOK, NEW c \in Client, ClientInv(c),
         \A n \in 1 .. N(c) : calls'[c][n] = calls[c][n],
         Counts(c)',
         NEW how \in Outcome, Ends(c, how),
         Spoiled(c) => how \in Broken,
         how \in Refusal => Spoiled(c)
  PROVE  /\ BrokenRightly(c)'
         /\ Spoiled(c)' <=> \/ how \in Broken \/ how = "handshake failed"
                            \/ how = "answered" /\ calls'[c][N(c)'] = "POST" /\ c \in Proxied
<1>1. O(c)' = O(c) + 1 /\ at'[c] = "free" /\ outcome'[c][O(c) + 1] = how
      /\ \A n \in 1 .. O(c) : outcome'[c][n] = outcome[c][n]
  BY CallEnded
<1>2. O(c) \in Nat /\ N(c) \in Nat
  BY Typing
<1>3. N(c)' = O(c) + 1
  BY <1>1 DEF Counts, Busy
<1>4. /\ \A n \in 1 .. O(c) : Breaks(c, n)' <=> Breaks(c, n)
      /\ \A n \in 1 .. O(c) :
           /\ n > 1 /\ Breaks(c, n - 1)' => outcome'[c][n] \in Broken
           /\ outcome'[c][n] \in Refusal => n > 1 /\ Breaks(c, n - 1)'
  BY <1>1, EndedCalls DEF ClientInv
<1>5. ASSUME NEW n \in 1 .. O(c) + 1, n = O(c) + 1
      PROVE  Spoiled(c) <=> n > 1 /\ Breaks(c, n - 1)'
  <2>1. n - 1 = O(c) /\ (n > 1 <=> O(c) > 0) /\ (n > 1 => n - 1 \in 1 .. O(c))
    BY <1>2, <1>5
  <2> QED BY <1>4, <2>1 DEF Spoiled
<1>6. BrokenRightly(c)'
  <2> SUFFICES ASSUME NEW n \in 1 .. O(c) + 1
               PROVE  /\ n > 1 /\ Breaks(c, n - 1)' =>
                           outcome'[c][n] \in Broken
                      /\ outcome'[c][n] \in Refusal => n > 1 /\ Breaks(c, n - 1)'
    BY <1>1 DEF BrokenRightly
  <2>1. CASE n \in 1 .. O(c)
    BY <1>4, <2>1
  <2>2. CASE n = O(c) + 1
    BY <1>1, <1>5, <2>2
  <2> QED BY <1>2, <2>1, <2>2
<1>7. Spoiled(c)' <=> \/ how \in Broken \/ how = "handshake failed"
                      \/ how = "answered" /\ calls'[c][N(c)'] = "POST" /\ c \in Proxied
  <2>1. O(c)' > 0 /\ N(c)' = O(c)'
    BY <1>1, <1>2, <1>3
  <2>2. outcome'[c][O(c)'] = how
    BY <1>1
  <2>3. how = "answered" => how \notin Broken /\ how # "handshake failed"
    BY DEF Broken, Refusal
  <2> QED BY <2>1, <2>2, <2>3 DEF Spoiled, Breaks
<1> QED BY <1>6, <1>7

\* A call ends: its end is true, and the ends of the others remain so.
LEMMA EndsTruly ==
  ASSUME TypeOK, NEW c \in Client, Truth(c), NEW how \in Outcome, Ends(c, how),
         executed'[c] = executed[c],
         \A n \in 1 .. O(c) : sent'[c] = <<n>> => sent[c] = <<n>>,
         how = "answered" => executed[c][O(c) + 1] = 1,
         how \in NeverSent => executed[c][O(c) + 1] = 0 /\ sent'[c] # <<O(c) + 1>>
  PROVE  Truth(c)'
<1>1. O(c)' = O(c) + 1 /\ outcome'[c][O(c) + 1] = how /\ O(c) \in Nat
      /\ \A n \in 1 .. O(c) : outcome'[c][n] = outcome[c][n]
  BY CallEnded, Typing
<1> SUFFICES ASSUME NEW n \in 1 .. O(c) + 1
             PROVE  /\ outcome'[c][n] = "answered" => executed'[c][n] = 1
                    /\ outcome'[c][n] \in NeverSent => executed'[c][n] = 0 /\ sent'[c] # <<n>>
  BY <1>1 DEF Truth
<1>2. CASE n \in 1 .. O(c)
  BY <1>1, <1>2 DEF Truth
<1>3. CASE n = O(c) + 1
  BY <1>1, <1>3
<1> QED BY <1>1, <1>2, <1>3
-----------------------------------------------------------------------------
(* The steps of a client. *)

\* A call takes a connection, new or old: the last call to end is the same.
LEMMA TakesLine ==
  ASSUME TypeOK, NEW c \in Client, ClientInv(c), at[c] = "free", N(c) < MaxCalls[c],
         NEW m \in Method, calls' = [calls EXCEPT ![c] = Append(@, m)],
         at'[c] \in Busy, UNCHANGED <<outcome, sent, executed>>
  PROVE  /\ Counts(c)' /\ Handled(c)' /\ Truth(c)' /\ BrokenRightly(c)'
         /\ Spoiled(c)' <=> Spoiled(c)
         /\ executed[c][N(c)'] = 0
<1>1. /\ N(c)' = N(c) + 1 /\ O(c)' = O(c) /\ N(c) = O(c) /\ O(c) \in Nat
      /\ N(c) + 1 \in 1 .. MaxCalls[c] /\ MaxCalls[c] \in Nat
      /\ \A n \in 1 .. N(c) : calls'[c][n] = calls[c][n]
  <2>1. N(c) = O(c)
    BY DEF ClientInv, Counts, Busy
  <2>2. O(c)' = O(c)
    BY DEF O
  <2>3. N(c)' = N(c) + 1 /\ \A n \in 1 .. N(c) : calls'[c][n] = calls[c][n]
    BY CallMade
  <2>4. N(c) \in Nat /\ MaxCalls[c] \in Nat
    BY Typing
  <2>5. N(c) + 1 \in 1 .. MaxCalls[c]
    BY <2>4
  <2> QED BY <2>1, <2>2, <2>3, <2>4, <2>5
<1>2. Counts(c)'
  BY <1>1 DEF Counts
<1>3. Handled(c)'
  BY <1>1 DEF ClientInv, Handled
<1>4. Truth(c)'
  BY <1>1 DEF ClientInv, Truth
<1>5. /\ \A n \in 1 .. O(c) : Breaks(c, n)' <=> Breaks(c, n)
      /\ BrokenRightly(c)'
  BY <1>1, EndedCalls DEF ClientInv, BrokenRightly
<1>6. Spoiled(c)' <=> Spoiled(c)
  <2>1. O(c) > 0 => O(c) \in 1 .. O(c)
    BY <1>1
  <2> QED BY <1>1, <1>5, <2>1 DEF Spoiled
<1>7. executed[c][N(c)'] = 0
  BY <1>1 DEF ClientInv, Handled
<1> QED BY <1>2, <1>3, <1>4, <1>5, <1>6, <1>7

LEMMA ConnectsStep ==
  ASSUME IInv, NEW c \in Client, NEW m \in Method, CallConnects(c, m)
  PROVE  IInv'
<1>1. /\ TypeOK /\ ClientInv(c) /\ at[c] = "free" /\ line[c] = "none" /\ N(c) < MaxCalls[c]
      /\ calls' = [calls EXCEPT ![c] = Append(@, m)]
      /\ at' = [at EXCEPT ![c] = "handshake"] /\ line' = [line EXCEPT ![c] = "open"]
      /\ UNCHANGED <<outcome, state, unread, sent, back, serving, up, executed>>
  BY DEF IInv, CallConnects, N
<1>2. at'[c] = "handshake" /\ line'[c] = "open"
  BY <1>1 DEF TypeOK
<1>3. TypeOK'
  <2>1. backlog' \in Seq(Proxied)
    BY <1>1 DEF CallConnects, TypeOK
  <2> QED BY <1>1, <2>1, CallMade DEF TypeOK, Activity, Line
<1>4. \A d \in Client \ {c} : UNCHANGED Local(d)
  BY <1>1, CallMade DEF Local, TypeOK
<1>5. /\ Counts(c)' /\ Handled(c)' /\ Truth(c)' /\ BrokenRightly(c)'
      /\ (Spoiled(c)' <=> Spoiled(c)) /\ executed[c][N(c)'] = 0
  BY <1>1, <1>2, TakesLine DEF Busy
<1>6. ~Unusable(c) /\ ~unread[c] /\ state[c] = "Idle" /\ Nowhere(c)
  BY <1>1, Typing DEF ClientInv, Usable, Unusable, Underway
<1>7. Underway(c)'
  BY <1>1, <1>2, <1>5, <1>6 DEF Underway, Nowhere
<1>8. Usable(c)'
  BY <1>1, <1>2, <1>5, <1>6 DEF ClientInv, Usable, Unusable
<1> QED BY <1>3, <1>4, <1>5, <1>7, <1>8, Frame DEF IInv, ClientInv

LEMMA OnLineStep ==
  ASSUME IInv, NEW c \in Client, NEW m \in Method, CallOnLine(c, m)
  PROVE  IInv'
<1>1. /\ TypeOK /\ ClientInv(c) /\ at[c] = "free" /\ line[c] # "none" /\ state[c] = "Idle"
      /\ N(c) < MaxCalls[c] /\ calls' = [calls EXCEPT ![c] = Append(@, m)]
      /\ at' = [at EXCEPT ![c] = "sending"]
      /\ UNCHANGED <<outcome, line, state, unread, sent, back, backlog, serving, up, executed>>
  BY DEF IInv, CallOnLine, N
<1>2. at'[c] = "sending"
  BY <1>1 DEF TypeOK
<1>3. TypeOK'
  BY <1>1, CallMade DEF TypeOK, Activity
<1>4. \A d \in Client \ {c} : UNCHANGED Local(d)
  BY <1>1, CallMade DEF Local, TypeOK
<1>5. /\ Counts(c)' /\ Handled(c)' /\ Truth(c)' /\ BrokenRightly(c)'
      /\ (Spoiled(c)' <=> Spoiled(c)) /\ executed[c][N(c)'] = 0
  BY <1>1, <1>2, TakesLine DEF Busy
<1>6. Nowhere(c)
  BY <1>1 DEF ClientInv, Underway
<1>7. Underway(c)'
  BY <1>1, <1>2, <1>5, <1>6 DEF Underway, Nowhere
<1>8. Usable(c)'
  BY <1>1, <1>2, <1>5 DEF ClientInv, Usable, Unusable
<1> QED BY <1>3, <1>4, <1>5, <1>7, <1>8, Frame DEF IInv, ClientInv

\* A call that ends at once leaves what it found: a connection that is broken, or
\* none.
LEMMA EndsAtOnce ==
  ASSUME IInv, NEW c \in Client, NEW m \in Method, NEW how \in {"refused", "CannotSendRequest"},
         at[c] = "free", N(c) < MaxCalls[c],
         IF how = "refused" THEN line[c] = "none" ELSE line[c] # "none" /\ state[c] = "Req-sent",
         calls' = [calls EXCEPT ![c] = Append(@, m)], Ends(c, how),
         UNCHANGED <<line, state, unread, sent, back, backlog, serving, up, executed>>
  PROVE  IInv'
<1>1. TypeOK /\ ClientInv(c) /\ how \in Outcome /\ how \in NeverSent
  BY DEF IInv, Outcome, NeverSent
<1>2. /\ calls' \in [Client -> Seq(Method)] /\ N(c)' = N(c) + 1
      /\ \A n \in 1 .. N(c) : calls'[c][n] = calls[c][n]
      /\ \A d \in Client \ {c} : calls'[d] = calls[d]
  BY <1>1, CallMade
<1>3. /\ outcome' \in [Client -> Seq(Outcome)] /\ at' \in [Client -> Activity]
      /\ at'[c] = "free" /\ O(c)' = O(c) + 1
      /\ \A n \in 1 .. O(c) : outcome'[c][n] = outcome[c][n]
      /\ \A d \in Client \ {c} : outcome'[d] = outcome[d] /\ at'[d] = at[d]
  BY <1>1, CallEnded
<1>4. N(c) = O(c) /\ O(c) \in Nat /\ N(c) + 1 \in 1 .. MaxCalls[c] /\ MaxCalls[c] \in Nat
  BY <1>1, Typing DEF ClientInv, Counts, Busy
<1>5. /\ Unusable(c) <=> how = "CannotSendRequest"
      /\ Unusable(c) <=> Spoiled(c)
  BY <1>1 DEF ClientInv, Usable, Unusable
<1>6. TypeOK'
  BY <1>1, <1>2, <1>3 DEF TypeOK
<1>7. \A d \in Client \ {c} : UNCHANGED Local(d)
  BY <1>1, <1>2, <1>3 DEF Local
<1>8. Counts(c)'
  BY <1>2, <1>3, <1>4 DEF Counts, Busy
<1>9. BrokenRightly(c)' /\ (Spoiled(c)' <=> how = "CannotSendRequest")
  <2>1. how \in Broken <=> how = "CannotSendRequest"
    BY DEF Broken, Refusal
  <2>2. how \in Refusal <=> how = "CannotSendRequest"
    BY DEF Refusal
  <2> QED BY <1>1, <1>2, <1>5, <1>8, <2>1, <2>2, EndsRightly
<1>10. Handled(c)'
  BY <1>1, <1>2, <1>4 DEF ClientInv, Handled
<1>11. \/ Nowhere(c)
       \/ \E n \in 1 .. N(c) : /\ OnTheWay(c, n) \/ OnItsWayBack(c, n)
                               /\ outcome[c][n] = "ResponseNotReady"
  BY <1>1 DEF ClientInv, Underway
<1>12. Underway(c)'
  <2>1. CASE Nowhere(c)
    BY <1>3, <2>1 DEF Underway, Nowhere
  <2>2. ASSUME NEW n \in 1 .. N(c), OnTheWay(c, n) \/ OnItsWayBack(c, n),
               outcome[c][n] = "ResponseNotReady", ~Nowhere(c)
        PROVE  Underway(c)'
    <3>1. n \in 1 .. N(c)' /\ outcome'[c][n] = "ResponseNotReady"
      BY <1>2, <1>3, <1>4, <2>2
    <3>2. OnTheWay(c, n)' \/ OnItsWayBack(c, n)'
      BY <2>2 DEF OnTheWay, OnItsWayBack
    <3>3. state[c] # "Idle"
      BY <1>1, <2>2 DEF ClientInv, Underway
    <3> QED BY <1>3, <3>1, <3>2, <3>3 DEF Underway
  <2> QED BY <1>11, <2>1, <2>2
<1>13. Usable(c)'
  <2>1. Unusable(c)' <=> how = "CannotSendRequest"
    BY <1>3, <1>5 DEF Unusable
  <2> QED BY <1>3, <1>9, <2>1 DEF Usable
<1>14. Truth(c)'
  <2>1. executed[c][O(c) + 1] = 0
    BY <1>1, <1>4 DEF ClientInv, Handled
  <2>2. sent[c] # <<O(c) + 1>>
    <3>1. \A n \in 1 .. N(c) : <<n>> # <<O(c) + 1>>
      BY <1>4
    <3>2. <<>> # <<O(c) + 1>>
      OBVIOUS
    <3> QED BY <1>11, <3>1, <3>2 DEF Nowhere, OnTheWay, OnItsWayBack
  <2> QED BY <1>1, <2>1, <2>2, EndsTruly DEF ClientInv
<1> QED
  BY <1>6, <1>7, <1>8, <1>9, <1>10, <1>12, <1>13, <1>14, Frame DEF IInv, ClientInv

LEMMA RefusedStep ==
  ASSUME IInv, NEW c \in Client, NEW m \in Method, CallRefused(c, m)
  PROVE  IInv'
BY EndsAtOnce DEF CallRefused, N

LEMMA CannotSendStep ==
  ASSUME IInv, NEW c \in Client, NEW m \in Method, CallCannotSend(c, m)
  PROVE  IInv'
BY EndsAtOnce DEF CallCannotSend, N

\* A call goes on: nothing has ended.
LEMMA GoesOnRightly ==
  ASSUME TypeOK, NEW c \in Client, ClientInv(c), at[c] \in Busy, at'[c] \in Busy,
         line'[c] = line[c], UNCHANGED <<calls, outcome, unread, executed>>,
         \A n \in 1 .. O(c) : sent'[c] = <<n>> => sent[c] = <<n>>
  PROVE  Counts(c)' /\ Handled(c)' /\ Usable(c)' /\ Truth(c)' /\ BrokenRightly(c)'
<1>1. N(c)' = N(c) /\ O(c)' = O(c)
  BY DEF N, O
<1>2. Counts(c)' /\ Handled(c)'
  BY <1>1 DEF ClientInv, Counts, Handled
<1>3. Truth(c)'
  BY <1>1 DEF ClientInv, Truth
<1>4. BrokenRightly(c)'
  BY <1>1 DEF ClientInv, BrokenRightly, Breaks
<1>5. Usable(c)'
  <2>1. Spoiled(c)' <=> Spoiled(c)
    BY <1>1 DEF Spoiled, Breaks
  <2>2. at[c] \notin {"free", "gone"} /\ at'[c] \notin {"free", "gone"}
    BY DEF Busy
  <2> QED BY <2>1, <2>2 DEF ClientInv, Usable, Unusable
<1> QED BY <1>2, <1>3, <1>4, <1>5

\* A call that went on ends.
LEMMA EndsBusy ==
  ASSUME TypeOK, NEW c \in Client, ClientInv(c), at[c] \in Busy,
         NEW how \in Outcome, Ends(c, how), UNCHANGED <<calls, executed>>,
         Unusable(c) => how \in Broken,
         how \in Refusal => Unusable(c)
  PROVE  /\ Counts(c)' /\ Handled(c)' /\ BrokenRightly(c)'
         /\ Spoiled(c)' <=> \/ how \in Broken \/ how = "handshake failed"
                            \/ how = "answered" /\ IsPost(c) /\ c \in Proxied
         /\ N(c) = O(c) + 1 /\ O(c) \in Nat /\ N(c) \in 1 .. MaxCalls[c] /\ at'[c] = "free"
<1>1. N(c) = O(c) + 1 /\ O(c) \in Nat /\ MaxCalls[c] \in Nat /\ N(c) <= MaxCalls[c]
  BY Typing DEF ClientInv, Counts
<1>2. N(c)' = N(c) /\ O(c)' = O(c) + 1 /\ at'[c] = "free"
  BY CallEnded DEF N
<1>3. Counts(c)'
  BY <1>1, <1>2 DEF Counts, Busy
<1>4. Handled(c)'
  BY <1>2 DEF ClientInv, Handled
<1>5. Unusable(c) <=> Spoiled(c)
  BY DEF ClientInv, Usable, Busy
<1>6. /\ BrokenRightly(c)'
      /\ Spoiled(c)' <=> \/ how \in Broken \/ how = "handshake failed"
                         \/ how = "answered" /\ calls'[c][N(c)'] = "POST" /\ c \in Proxied
  BY <1>3, <1>5, EndsRightly
<1>7. calls'[c][N(c)'] = "POST" <=> IsPost(c)
  BY <1>2 DEF IsPost, Last, N
<1>8. N(c) \in 1 .. MaxCalls[c]
  BY <1>1
<1> QED BY <1>1, <1>2, <1>3, <1>4, <1>6, <1>7, <1>8

LEMMA HandshakenStep ==
  ASSUME IInv, NEW c \in Client, Handshaken(c)
  PROVE  IInv'
<1>1. /\ TypeOK /\ ClientInv(c) /\ at[c] = "handshake" /\ line[c] = "open"
      /\ at' = [at EXCEPT ![c] = "sending"]
      /\ UNCHANGED <<calls, outcome, line, state, unread, sent, back, backlog, serving, up, executed>>
  BY DEF IInv, Handshaken
<1>2. at'[c] = "sending" /\ TypeOK' /\ \A d \in Client \ {c} : UNCHANGED Local(d)
  BY <1>1 DEF TypeOK, Activity, Local
<1>3. Counts(c)' /\ Handled(c)' /\ Usable(c)' /\ Truth(c)' /\ BrokenRightly(c)'
  BY <1>1, <1>2, GoesOnRightly DEF Busy
<1>4. Underway(c)'
  BY <1>1, <1>2 DEF ClientInv, Underway, Nowhere, N
<1> QED BY <1>2, <1>3, <1>4, Frame DEF IInv, ClientInv

LEMMA HandshakeFailsStep ==
  ASSUME IInv, NEW c \in Client, HandshakeFails(c)
  PROVE  IInv'
<1>1. /\ TypeOK /\ ClientInv(c) /\ at[c] = "handshake" /\ Ends(c, "handshake failed")
      /\ line' = [line EXCEPT ![c] = "unusable"]
      /\ UNCHANGED <<calls, state, unread, sent, back, backlog, serving, up, executed>>
  BY DEF IInv, HandshakeFails
<1>2. /\ Nowhere(c) /\ executed[c][N(c)] = 0 /\ ~unread[c] /\ line[c] # "unusable"
      /\ line'[c] = "unusable"
  BY <1>1 DEF ClientInv, Underway, TypeOK
<1>3. "handshake failed" \in Outcome /\ "handshake failed" \notin Refusal
  BY DEF Outcome, NeverSent, Refusal
<1>4. TypeOK' /\ \A d \in Client \ {c} : UNCHANGED Local(d)
  BY <1>1, <1>3, CallEnded DEF TypeOK, Line, Local
<1>5. ~Unusable(c)
  BY <1>1, <1>2 DEF Unusable
<1>6. /\ Counts(c)' /\ Handled(c)' /\ BrokenRightly(c)' /\ Spoiled(c)'
      /\ N(c) = O(c) + 1 /\ O(c) \in Nat /\ at'[c] = "free"
  BY <1>1, <1>3, <1>5, EndsBusy DEF Busy
<1>7. Underway(c)'
  BY <1>1, <1>2, <1>6 DEF Underway, Nowhere
<1>8. Usable(c)'
  BY <1>2, <1>6 DEF Usable, Unusable
<1>9. Truth(c)'
  <2>1. sent'[c] = <<>> /\ <<>> # <<O(c) + 1>>
    BY <1>1, <1>2 DEF Nowhere
  <2> QED BY <1>1, <1>2, <1>3, <1>6, <2>1, EndsTruly DEF ClientInv
<1> QED BY <1>4, <1>6, <1>7, <1>8, <1>9, Frame DEF IInv, ClientInv

LEMMA SendHeadStep ==
  ASSUME IInv, NEW c \in Client, SendHead(c)
  PROVE  IInv'
<1>1. /\ TypeOK /\ ClientInv(c) /\ at[c] = "sending" /\ line[c] = "open"
      /\ at' = [at EXCEPT ![c] = IF IsPost(c) THEN "posting" ELSE "awaiting"]
      /\ state' = [state EXCEPT ![c] = "Req-sent"]
      /\ sent' = [sent EXCEPT ![c] = Append(@, N(c))]
      /\ UNCHANGED <<calls, outcome, line, unread, back, backlog, serving, up, executed>>
  BY DEF IInv, SendHead, Sending, Last, N
<1>2. /\ Nowhere(c) /\ executed[c][N(c)] = 0 /\ N(c) = O(c) + 1 /\ O(c) \in Nat
      /\ N(c) \in 1 .. MaxCalls[c]
  BY <1>1, Typing DEF ClientInv, Underway, Counts, Busy
<1>3. sent' = [sent EXCEPT ![c] = <<N(c)>>]
  BY <1>1, <1>2 DEF Nowhere
<1>4. at'[c] \in {"posting", "awaiting"} /\ sent'[c] = <<N(c)>>
  BY <1>1, <1>3 DEF TypeOK
<1>5. TypeOK' /\ \A d \in Client \ {c} : UNCHANGED Local(d)
  <2>1. <<N(c)>> \in Seq(1 .. MaxCalls[c])
    BY <1>2
  <2>2. \A d \in Client \ {c} : UNCHANGED Local(d)
    BY <1>1, <1>3 DEF TypeOK, Local
  <2>3. DOMAIN sent' = Client /\ \A d \in Client : {sent'[d], back'[d]} \subseteq Seq(1 .. MaxCalls[d])
    <3>1. sent'[c] \in Seq(1 .. MaxCalls[c]) /\ DOMAIN sent' = Client
      BY <1>1, <1>4, <2>1, <1>3 DEF TypeOK
    <3>2. \A d \in Client \ {c} : sent'[d] = sent[d]
      BY <1>3
    <3> QED BY <1>1, <3>1, <3>2 DEF TypeOK
  <2>4. at' \in [Client -> Activity] /\ state' \in [Client -> {"Idle", "Req-sent"}]
    BY <1>1 DEF TypeOK, Activity
  <2> QED BY <1>1, <2>2, <2>3, <2>4 DEF TypeOK
<1>6. Counts(c)' /\ Handled(c)' /\ Usable(c)' /\ Truth(c)' /\ BrokenRightly(c)'
  <2>1. \A n \in 1 .. O(c) : <<n>> # <<N(c)>>
    BY <1>2
  <2> QED BY <1>1, <1>4, <2>1, GoesOnRightly DEF Busy
<1>7. Underway(c)'
  BY <1>1, <1>2, <1>4 DEF Underway, OnTheWay, Nowhere, N
<1> QED BY <1>5, <1>6, <1>7, Frame DEF IInv, ClientInv

LEMMA SendBodyStep ==
  ASSUME IInv, NEW c \in Client, SendBody(c)
  PROVE  IInv'
<1>1. /\ TypeOK /\ ClientInv(c) /\ at[c] = "posting" /\ line[c] = "open"
      /\ at' = [at EXCEPT ![c] = "awaiting"]
      /\ UNCHANGED <<calls, outcome, line, state, unread, sent, back, backlog, serving, up, executed>>
  BY DEF IInv, SendBody
<1>2. at'[c] = "awaiting" /\ TypeOK' /\ \A d \in Client \ {c} : UNCHANGED Local(d)
  BY <1>1 DEF TypeOK, Activity, Local
<1>3. Counts(c)' /\ Handled(c)' /\ Usable(c)' /\ Truth(c)' /\ BrokenRightly(c)'
  BY <1>1, <1>2, GoesOnRightly DEF Busy
<1>4. Underway(c)'
  BY <1>1, <1>2 DEF ClientInv, Underway, OnTheWay, N
<1> QED BY <1>2, <1>3, <1>4, Frame DEF IInv, ClientInv

LEMMA SendLostStep ==
  ASSUME IInv, NEW c \in Client, SendLost(c)
  PROVE  IInv'
<1>1. /\ TypeOK /\ ClientInv(c) /\ at[c] \in {"sending", "posting"} /\ line[c] = "dead"
      /\ \/ at' = [at EXCEPT ![c] = "posting"] /\ at[c] = "sending"
         \/ at' = [at EXCEPT ![c] = "awaiting"]
      /\ state' = [state EXCEPT ![c] = "Req-sent"] \/ state' = state
      /\ UNCHANGED <<calls, outcome, line, unread, sent, back, backlog, serving, up, executed>>
  BY DEF IInv, SendLost, Sending
<1>2. at'[c] \in {"posting", "awaiting"} /\ TypeOK' /\ \A d \in Client \ {c} : UNCHANGED Local(d)
  BY <1>1 DEF TypeOK, Activity, Local
<1>3. Counts(c)' /\ Handled(c)' /\ Usable(c)' /\ Truth(c)' /\ BrokenRightly(c)'
  BY <1>1, <1>2, GoesOnRightly DEF Busy
<1>4. Nowhere(c) /\ executed[c][N(c)] = 0
  BY <1>1 DEF ClientInv, Underway
<1>5. Underway(c)'
  BY <1>1, <1>2, <1>4 DEF Underway, Nowhere, N
<1> QED BY <1>2, <1>3, <1>5, Frame DEF IInv, ClientInv

LEMMA SendFailsStep ==
  ASSUME IInv, NEW c \in Client, SendFails(c)
  PROVE  IInv'
<1>1. /\ TypeOK /\ ClientInv(c) /\ at[c] \in {"sending", "posting"}
      /\ line[c] \in {"dead", "unusable"} /\ Ends(c, "send failed")
      /\ state' = [state EXCEPT ![c] = "Req-sent"]
      /\ UNCHANGED <<calls, line, unread, sent, back, backlog, serving, up, executed>>
  BY DEF IInv, SendFails
<1>2. Nowhere(c) /\ executed[c][N(c)] = 0 /\ state'[c] = "Req-sent"
  BY <1>1 DEF ClientInv, Underway, TypeOK
<1>3. "send failed" \in Outcome /\ "send failed" \notin Refusal /\ "send failed" \in Broken
  BY DEF Outcome, NeverSent, Refusal, Broken
<1>4. TypeOK' /\ \A d \in Client \ {c} : UNCHANGED Local(d)
  BY <1>1, <1>3, CallEnded DEF TypeOK, Local
<1>5. /\ Counts(c)' /\ Handled(c)' /\ BrokenRightly(c)' /\ Spoiled(c)'
      /\ N(c) = O(c) + 1 /\ O(c) \in Nat /\ at'[c] = "free"
  BY <1>1, <1>3, EndsBusy DEF Busy
<1>6. Underway(c)'
  BY <1>1, <1>2, <1>5 DEF Underway, Nowhere
<1>7. Usable(c)'
  BY <1>1, <1>2, <1>5 DEF Usable, Unusable
<1>8. Truth(c)'
  <2>1. sent'[c] = <<>> /\ <<>> # <<O(c) + 1>>
    BY <1>1, <1>2 DEF Nowhere
  <2> QED BY <1>1, <1>2, <1>3, <1>5, <2>1, EndsTruly DEF ClientInv
<1> QED BY <1>4, <1>5, <1>6, <1>7, <1>8, Frame DEF IInv, ClientInv

LEMMA NotReadyStep ==
  ASSUME IInv, NEW c \in Client, NotReady(c)
  PROVE  IInv'
<1>1. /\ TypeOK /\ ClientInv(c) /\ at[c] = "awaiting" /\ unread[c]
      /\ Ends(c, "ResponseNotReady")
      /\ state' = [state EXCEPT ![c] = "Req-sent"] /\ unread' = [unread EXCEPT ![c] = unread[c]]
      /\ UNCHANGED <<calls, line, sent, back, backlog, serving, up, executed>>
  BY DEF IInv, NotReady, NotReadyState
<1>2. unread' = unread /\ state'[c] = "Req-sent"
  BY <1>1 DEF TypeOK
<1>3. "ResponseNotReady" \in Outcome /\ "ResponseNotReady" \in Broken
      /\ "ResponseNotReady" \notin NeverSent
  BY DEF Outcome, NeverSent, Refusal, Broken
<1>4. /\ TypeOK' /\ \A d \in Client \ {c} : UNCHANGED Local(d)
      /\ O(c)' = O(c) + 1 /\ outcome'[c][O(c) + 1] = "ResponseNotReady"
  BY <1>1, <1>2, <1>3, CallEnded DEF TypeOK, Local
<1>5. Unusable(c)
  BY <1>1 DEF Unusable
<1>6. /\ Counts(c)' /\ Handled(c)' /\ BrokenRightly(c)' /\ Spoiled(c)'
      /\ N(c) = O(c) + 1 /\ O(c) \in Nat /\ at'[c] = "free"
  BY <1>1, <1>3, <1>5, EndsBusy DEF Busy
<1>7. Underway(c)'
  <2>1. OnTheWay(c, N(c)) \/ OnItsWayBack(c, N(c)) \/ Nowhere(c)
    BY <1>1 DEF ClientInv, Underway
  <2>2. PICK n \in 1 .. N(c) : n = N(c) /\ N(c)' = N(c) /\ outcome'[c][n] = "ResponseNotReady"
    BY <1>1, <1>4, <1>6 DEF N
  <2>3. OnTheWay(c, n)' \/ OnItsWayBack(c, n)' \/ Nowhere(c)'
    BY <1>1, <2>1, <2>2 DEF OnTheWay, OnItsWayBack, Nowhere
  <2> QED BY <1>2, <1>6, <2>2, <2>3 DEF Underway
<1>8. Usable(c)'
  BY <1>1, <1>2, <1>6 DEF Usable, Unusable, ClientInv, Underway
<1>9. Truth(c)'
  BY <1>1, <1>3, <1>6, EndsTruly DEF ClientInv
<1> QED BY <1>4, <1>6, <1>7, <1>8, <1>9, Frame DEF IInv, ClientInv

LEMMA ReceivedStep ==
  ASSUME IInv, NEW c \in Client, Received(c)
  PROVE  IInv'
<1>1. /\ TypeOK /\ ClientInv(c) /\ at[c] = "awaiting" /\ ~unread[c] /\ back[c] # <<>>
      /\ back' = [back EXCEPT ![c] = Tail(@)]
      /\ state' = [state EXCEPT ![c] = "Idle"]
      /\ unread' = [unread EXCEPT ![c] = LeftUnread(c)]
      /\ line' = IF c \in Direct THEN [line EXCEPT ![c] = "none"] ELSE line
      /\ UNCHANGED <<calls, sent, backlog, serving, up, executed>>
  BY DEF IInv, Received
<1>2. /\ sent[c] = <<>> /\ back[c] = <<N(c)>> /\ executed[c][N(c)] = 1
      /\ line[c] \in {"open", "dead"} /\ N(c) = O(c) + 1 /\ O(c) \in Nat
  BY <1>1, Typing DEF ClientInv, Underway, OnTheWay, OnItsWayBack, Nowhere, Counts, Busy
<1>3. Ends(c, "answered")
  <2>1. Head(back[c]) = Last(c)
    BY <1>2 DEF N, Last
  <2> QED BY <2>1 DEF Received
<1>4. /\ outcome' \in [Client -> Seq(Outcome)] /\ at' \in [Client -> Activity]
      /\ at'[c] = "free" /\ O(c)' = O(c) + 1
      /\ outcome'[c][O(c) + 1] = "answered"
      /\ \A n \in 1 .. O(c) : outcome'[c][n] = outcome[c][n]
      /\ \A d \in Client \ {c} : outcome'[d] = outcome[d] /\ at'[d] = at[d]
  BY <1>1, <1>3, CallEnded DEF Outcome
<1>5. back' = [back EXCEPT ![c] = <<>>]
  <2>1. Tail(<<N(c)>>) = <<>>
    OBVIOUS
  <2> QED BY <1>1, <1>2, <2>1
<1>6. /\ back'[c] = <<>> /\ state'[c] = "Idle" /\ unread'[c] = LeftUnread(c)
      /\ line'[c] # "unusable" /\ (c \in Proxied => line'[c] # "none")
  BY <1>1, <1>2, <1>5 DEF TypeOK, Direct
<1>7. TypeOK'
  <2>1. \A d \in Client : {sent'[d], back'[d]} \subseteq Seq(1 .. MaxCalls[d])
    <3>1. {sent'[c], back'[c]} \subseteq Seq(1 .. MaxCalls[c])
      <4>1. <<>> \in Seq(1 .. MaxCalls[c])
        OBVIOUS
      <4> QED BY <1>1, <1>2, <1>6, <4>1
    <3>2. \A d \in Client \ {c} : sent'[d] = sent[d] /\ back'[d] = back[d]
      BY <1>1, <1>5 DEF TypeOK
    <3>3. \A d \in Client \ {c} : {sent'[d], back'[d]} \subseteq Seq(1 .. MaxCalls[d])
      BY <1>1, <3>2 DEF TypeOK
    <3> QED BY <3>1, <3>3
  <2>2. LeftUnread(c) \in BOOLEAN
    BY DEF LeftUnread
  <2>3. unread' \in [Client -> BOOLEAN]
    BY <1>1, <2>2 DEF TypeOK
  <2>4. line' \in [Client -> Line] /\ state' \in [Client -> {"Idle", "Req-sent"}]
    BY <1>1 DEF TypeOK, Line
  <2>5. DOMAIN back' = Client
    BY <1>5, <1>1 DEF TypeOK
  <2> QED BY <1>1, <1>4, <2>1, <2>3, <2>4, <2>5 DEF TypeOK
<1>8. \A d \in Client \ {c} : UNCHANGED Local(d)
  BY <1>1, <1>4, <1>5 DEF Local, TypeOK
<1>9. /\ Counts(c)' /\ Handled(c)' /\ BrokenRightly(c)'
      /\ Spoiled(c)' <=> IsPost(c) /\ c \in Proxied
  <2>1. "answered" \in Outcome /\ "answered" \notin Broken /\ "answered" \notin Refusal
    BY DEF Outcome, Broken, Refusal
  <2>2. ~Unusable(c)
    BY <1>1, <1>2 DEF Unusable
  <2> QED BY <1>1, <1>3, <2>1, <2>2, EndsBusy DEF Busy
<1>11. Underway(c)'
  BY <1>1, <1>2, <1>4, <1>6 DEF Underway, Nowhere
<1>12. Usable(c)'
  BY <1>4, <1>6, <1>9 DEF Usable, Unusable, LeftUnread
<1>13. Truth(c)'
  <2>1. "answered" \in Outcome /\ "answered" \notin NeverSent
    BY DEF Outcome, NeverSent
  <2> QED BY <1>1, <1>2, <1>3, <2>1, EndsTruly DEF ClientInv
<1> QED
  BY <1>7, <1>8, <1>9, <1>11, <1>12, <1>13, Frame DEF IInv, ClientInv

LEMMA DisconnectedStep ==
  ASSUME IInv, NEW c \in Client, Disconnected(c)
  PROVE  IInv'
<1>1. /\ TypeOK /\ ClientInv(c) /\ at[c] = "awaiting" /\ ~unread[c] /\ back[c] = <<>>
      /\ line[c] = "dead" /\ Ends(c, "disconnected")
      /\ line' = [line EXCEPT ![c] = "none"] /\ state' = [state EXCEPT ![c] = "Idle"]
      /\ UNCHANGED <<calls, unread, sent, back, backlog, serving, up, executed>>
  BY DEF IInv, Disconnected
<1>2. line'[c] = "none" /\ state'[c] = "Idle"
  BY <1>1 DEF TypeOK
<1>3. "disconnected" \in Outcome /\ "disconnected" \notin Broken
      /\ "disconnected" \notin Refusal /\ "disconnected" \notin NeverSent
  BY DEF Outcome, NeverSent, Broken, Refusal
<1>4. TypeOK' /\ \A d \in Client \ {c} : UNCHANGED Local(d)
  BY <1>1, <1>3, CallEnded DEF TypeOK, Line, Local
<1>5. /\ Counts(c)' /\ Handled(c)' /\ BrokenRightly(c)' /\ ~Spoiled(c)'
      /\ N(c) = O(c) + 1 /\ O(c) \in Nat /\ at'[c] = "free"
  BY <1>1, <1>3, EndsBusy DEF Busy, Unusable
<1>6. Underway(c)'
  BY <1>1, <1>2, <1>5 DEF ClientInv, Underway, OnTheWay, OnItsWayBack, Nowhere
<1>7. Usable(c)'
  BY <1>1, <1>2, <1>5 DEF Usable, Unusable
<1>8. Truth(c)'
  BY <1>1, <1>3, <1>5, EndsTruly DEF ClientInv
<1> QED BY <1>4, <1>5, <1>6, <1>7, <1>8, Frame DEF IInv, ClientInv

LEMMA LeaveStep ==
  ASSUME IInv, NEW c \in Client, Leave(c)
  PROVE  IInv'
<1>1. /\ TypeOK /\ ClientInv(c) /\ at[c] = "free"
      /\ at' = [at EXCEPT ![c] = "gone"] /\ line' = [line EXCEPT ![c] = "none"]
      /\ UNCHANGED <<calls, outcome, state, unread, sent, back, backlog, serving, up, executed>>
  BY DEF IInv, Leave, Closed
<1>2. at'[c] = "gone"
  BY <1>1 DEF TypeOK
<1>3. TypeOK'
  BY <1>1 DEF TypeOK, Activity, Line
<1>4. \A d \in Client \ {c} : UNCHANGED Local(d)
  BY <1>1 DEF Local, TypeOK
<1>5. Counts(c)' /\ Handled(c)' /\ BrokenRightly(c)' /\ Truth(c)'
  BY <1>1, <1>2 DEF ClientInv, Counts, Busy, Handled, BrokenRightly, Breaks, Truth, N, O
<1>6. Underway(c)'
  BY <1>1, <1>2 DEF ClientInv, Underway, Nowhere, OnTheWay, OnItsWayBack, N
<1>7. Usable(c)'
  BY <1>2 DEF Usable
<1> QED BY <1>3, <1>4, <1>5, <1>6, <1>7, Frame DEF IInv, ClientInv
-----------------------------------------------------------------------------
(* The steps of the server and the proxy. *)

LEMMA AnsweredClient ==
  ASSUME IInv, NEW c \in Client, Answered(c), UNCHANGED client
  PROVE  /\ \A d \in Client : ClientInv(d)'
         /\ DOMAIN sent' = Client /\ DOMAIN back' = Client /\ DOMAIN executed' = Client
         /\ \A d \in Client : /\ {sent'[d], back'[d]} \subseteq Seq(1 .. MaxCalls[d])
                             /\ executed'[d] \in [1 .. MaxCalls[d] -> Nat]
<1>1. TypeOK /\ ClientInv(c) /\ sent[c] # <<>> /\ at[c] # "posting"
  BY DEF IInv, Answered
<1>2. UNCHANGED <<calls, outcome, at, line, state, unread>>
  BY DEF client
<1>3. PICK n \in 1 .. N(c) :
        /\ OnTheWay(c, n)
        /\ IF at[c] = "awaiting" THEN n = N(c)
           ELSE at[c] \notin Busy /\ n \in 1 .. O(c) /\ outcome[c][n] = "ResponseNotReady"
  <2>1. CASE at[c] \in {"handshake", "sending"}
    BY <1>1, <2>1 DEF ClientInv, Underway, Nowhere
  <2>2. CASE at[c] = "awaiting"
    <3>1. OnTheWay(c, N(c))
      BY <1>1, <2>2 DEF ClientInv, Underway, Nowhere, OnItsWayBack
    <3>2. N(c) \in 1 .. N(c)
      BY <1>1, <2>2, Typing DEF ClientInv, Counts, Busy
    <3> QED BY <2>2, <3>1, <3>2
  <2>3. CASE at[c] \notin Busy
    <3>1. N(c) = O(c)
      BY <1>1, <2>3 DEF ClientInv, Counts
    <3>2. \E n \in 1 .. N(c) : OnTheWay(c, n) /\ outcome[c][n] = "ResponseNotReady"
      BY <1>1, <2>3 DEF ClientInv, Underway, Nowhere, OnItsWayBack, Busy
    <3> QED BY <2>3, <3>1, <3>2 DEF Busy
  <2> QED BY <1>1, <2>1, <2>2, <2>3 DEF Busy
<1>4. n \in 1 .. MaxCalls[c] /\ n <= N(c) /\ executed[c] \in [1 .. MaxCalls[c] -> Nat]
      /\ executed[c][n] = 0
  BY <1>1, <1>3, Typing DEF ClientInv, Counts, OnTheWay
<1>5. /\ sent' = [sent EXCEPT ![c] = <<>>] /\ back' = [back EXCEPT ![c] = <<n>>]
      /\ executed' = [executed EXCEPT ![c][n] = executed[c][n] + 1]
  <2>1. sent[c] = <<n>> /\ back[c] = <<>>
    BY <1>3 DEF OnTheWay
  <2>2. Head(<<n>>) = n /\ Tail(<<n>>) = <<>> /\ Append(<<>>, n) = <<n>>
    OBVIOUS
  <2> QED BY <2>1, <2>2 DEF Answered, Execute
<1>6. /\ sent'[c] = <<>> /\ back'[c] = <<n>> /\ executed'[c][n] = 1
      /\ \A k \in 1 .. MaxCalls[c] : k # n => executed'[c][k] = executed[c][k]
      /\ executed'[c] \in [1 .. MaxCalls[c] -> Nat]
  BY <1>1, <1>4, <1>5 DEF TypeOK
<1>7. \A d \in Client \ {c} : UNCHANGED Local(d)
  BY <1>1, <1>2, <1>5 DEF Local, TypeOK
<1>8. N(c)' = N(c) /\ O(c)' = O(c)
  BY <1>2 DEF N, O
<1>9. Counts(c)' /\ Usable(c)' /\ BrokenRightly(c)'
  BY <1>1, <1>2, <1>8 DEF ClientInv, Counts, Usable, Unusable, Spoiled, BrokenRightly, Breaks
<1>10. Handled(c)'
  <2> SUFFICES ASSUME NEW k \in 1 .. MaxCalls[c]
               PROVE  executed'[c][k] \in {0, 1} /\ (k > N(c) => executed'[c][k] = 0)
    BY <1>8 DEF Handled
  <2>1. CASE k = n
    <3>1. ~(n > N(c))
      BY <1>1, <1>4, Typing
    <3> QED BY <1>6, <2>1, <3>1
  <2>2. CASE k # n
    BY <1>1, <1>6, <2>2 DEF ClientInv, Handled
  <2> QED BY <2>1, <2>2
<1>11. Underway(c)'
  <2>1. CASE at[c] = "awaiting"
    <3>1. OnItsWayBack(c, N(c))'
      BY <1>3, <1>6, <1>8, <2>1 DEF OnItsWayBack
    <3> QED BY <1>1, <1>2, <1>8, <2>1, <3>1 DEF ClientInv, Underway
  <2>2. CASE at[c] # "awaiting"
    <3>1. OnItsWayBack(c, n)'
      BY <1>6 DEF OnItsWayBack
    <3>2. ~(at[c] = "free" /\ state[c] = "Idle")
      BY <1>1, <1>3, <2>2 DEF ClientInv, Underway, Nowhere, OnTheWay
    <3> QED BY <1>2, <1>3, <1>8, <2>2, <3>1, <3>2 DEF Underway, Busy
  <2> QED BY <2>1, <2>2
<1>12. Truth(c)'
  <2> SUFFICES ASSUME NEW k \in 1 .. O(c)
               PROVE  /\ outcome[c][k] = "answered" => executed'[c][k] = 1
                      /\ outcome[c][k] \in NeverSent => executed'[c][k] = 0 /\ sent'[c] # <<k>>
    BY <1>2, <1>8 DEF Truth
  <2>1. k \in 1 .. MaxCalls[c]
    BY <1>1, Typing DEF ClientInv, Counts
  <2>2. CASE k = n
    <3>1. at[c] # "awaiting"
      BY <1>1, <1>3, <2>2, Typing DEF ClientInv, Counts, Busy
    <3> QED BY <1>3, <2>2, <3>1 DEF NeverSent
  <2>3. CASE k # n
    <3>1. executed'[c][k] = executed[c][k] /\ sent'[c] # <<k>>
      BY <1>6, <2>1, <2>3
    <3> QED BY <1>1, <3>1 DEF ClientInv, Truth
  <2> QED BY <2>2, <2>3
<1>13. \A d \in Client : ClientInv(d)'
  BY <1>7, <1>9, <1>10, <1>11, <1>12, Frame DEF IInv, ClientInv
<1>14. <<>> \in Seq(1 .. MaxCalls[c]) /\ <<n>> \in Seq(1 .. MaxCalls[c])
  BY <1>4
<1>15. DOMAIN sent' = Client /\ DOMAIN back' = Client /\ DOMAIN executed' = Client
  BY <1>1, <1>5 DEF TypeOK
<1>16. \A d \in Client : /\ {sent'[d], back'[d]} \subseteq Seq(1 .. MaxCalls[d])
                        /\ executed'[d] \in [1 .. MaxCalls[d] -> Nat]
  <2> SUFFICES ASSUME NEW d \in Client
               PROVE  /\ {sent'[d], back'[d]} \subseteq Seq(1 .. MaxCalls[d])
                      /\ executed'[d] \in [1 .. MaxCalls[d] -> Nat]
    OBVIOUS
  <2>1. CASE d = c
    BY <1>6, <1>14, <2>1
  <2>2. CASE d # c
    BY <1>1, <1>7, <2>2 DEF Local, TypeOK
  <2> QED BY <2>1, <2>2
<1> QED BY <1>13, <1>15, <1>16

LEMMA ServerStep ==
  ASSUME IInv, NEW c \in Client, ServerHandles(c)
  PROVE  IInv'
<1>1. Answered(c) /\ UNCHANGED client /\ UNCHANGED <<backlog, serving, up>>
  BY DEF ServerHandles
<1>2. TypeOK'
  BY <1>1, AnsweredClient DEF IInv, TypeOK, client
<1> QED BY <1>1, <1>2, AnsweredClient DEF IInv

\* What the proxy does between requests leaves clients alone.
LEMMA Untouched ==
  ASSUME IInv, UNCHANGED <<client, sent, back, executed>>
  PROVE  \A c \in Client : ClientInv(c)'
<1>1. \A c \in Client : UNCHANGED Local(c)
  BY DEF client, Local
<1> QED BY <1>1, Frame DEF IInv

\* The other side of a connection is gone, and what was sent with it.
LEMMA LineLost ==
  ASSUME IInv, NEW c \in Client, sent'[c] = <<>>,
         line'[c] = IF line[c] = "open" THEN "dead" ELSE line[c],
         UNCHANGED <<calls, outcome, at, state, unread, back, executed>>
  PROVE  ClientInv(c)'
<1>1. TypeOK /\ ClientInv(c) /\ N(c)' = N(c) /\ O(c)' = O(c)
  BY DEF IInv, N, O
<1>2. Counts(c)' /\ Handled(c)'
  BY <1>1 DEF ClientInv, Counts, Handled
<1>3. BrokenRightly(c)'
  BY <1>1 DEF ClientInv, BrokenRightly, Breaks
<1>4. Underway(c)'
  <2>1. OnTheWay(c, N(c)) => Nowhere(c)' /\ executed'[c][N(c)] = 0
    BY DEF OnTheWay, Nowhere
  <2>2. Nowhere(c) => Nowhere(c)'
    BY DEF Nowhere
  <2>3. \A n \in 1 .. N(c) : OnItsWayBack(c, n) => OnItsWayBack(c, n)'
    BY DEF OnItsWayBack
  <2>4. CASE at[c] \in Busy
    <3>1. N(c) \in 1 .. N(c)
      BY <1>1, <2>4, Typing DEF ClientInv, Counts
    <3> QED BY <1>1, <2>1, <2>2, <2>3, <2>4, <3>1 DEF ClientInv, Underway, Busy
  <2>5. CASE at[c] \notin Busy
    <3>1. \A n \in 1 .. N(c) : OnTheWay(c, n) => Nowhere(c)'
      BY DEF OnTheWay, Nowhere
    <3> QED BY <1>1, <2>2, <2>3, <2>5, <3>1 DEF ClientInv, Underway, Busy
  <2> QED BY <2>4, <2>5
<1>5. Usable(c)'
  <2>1. Spoiled(c)' <=> Spoiled(c)
    BY <1>1 DEF Spoiled, Breaks
  <2>2. Unusable(c)' <=> Unusable(c)
    BY DEF Unusable
  <2> QED BY <1>1, <2>1, <2>2 DEF ClientInv, Usable
<1>6. Truth(c)'
  <2>1. \A n \in 1 .. O(c) : sent'[c] # <<n>>
    OBVIOUS
  <2> QED BY <1>1, <2>1 DEF ClientInv, Truth
<1> QED BY <1>2, <1>3, <1>4, <1>5, <1>6 DEF ClientInv

LEMMA ForwardFailsClient ==
  ASSUME IInv, NEW c \in Client, c = serving, ForwardFails
  PROVE  IInv'
<1>1. /\ TypeOK
      /\ line' = [line EXCEPT ![c] = IF @ = "open" THEN "dead" ELSE @]
      /\ sent' = [sent EXCEPT ![c] = <<>>] /\ serving' = Nobody
      /\ UNCHANGED <<calls, outcome, at, state, unread, back, backlog, up, executed>>
  BY DEF ForwardFails, IInv
<1>2. sent'[c] = <<>> /\ line'[c] = IF line[c] = "open" THEN "dead" ELSE line[c]
  BY <1>1 DEF TypeOK
<1>3. TypeOK'
  <2>1. <<>> \in Seq(1 .. MaxCalls[c])
    OBVIOUS
  <2>2. DOMAIN sent' = Client
        /\ \A d \in Client : {sent'[d], back'[d]} \subseteq Seq(1 .. MaxCalls[d])
    BY <1>1, <2>1 DEF TypeOK
  <2>3. line' \in [Client -> Line]
    BY <1>1 DEF TypeOK, Line
  <2> QED BY <1>1, <2>2, <2>3 DEF TypeOK
<1>4. ClientInv(c)'
  BY <1>1, <1>2, LineLost
<1>5. \A d \in Client \ {c} : UNCHANGED Local(d)
  BY <1>1 DEF Local, TypeOK
<1> QED BY <1>3, <1>4, <1>5, Frame DEF IInv

LEMMA ProxyStep ==
  ASSUME IInv, Proxy
  PROVE  IInv'
<1> USE DEF IInv
<1>1. ASSUME Accept PROVE IInv'
  <2>1. backlog \in Seq(Proxied) /\ backlog # <<>>
    BY <1>1 DEF Accept, TypeOK
  <2>2. Head(backlog) \in Proxied /\ Tail(backlog) \in Seq(Proxied)
    BY <2>1
  <2>3. TypeOK'
    BY <1>1, <2>2 DEF Accept, TypeOK, client
  <2> QED BY <1>1, <2>3, Untouched DEF Accept
<1>2. ASSUME Forward PROVE IInv'
  <2>1. /\ serving \in Client /\ Answered(serving)
        /\ UNCHANGED client /\ UNCHANGED <<backlog, serving, up>>
    BY <1>2, ClientsAssumption DEF Forward, TypeOK
  <2>2. TypeOK'
    BY <2>1, AnsweredClient DEF TypeOK, client
  <2> QED BY <2>1, <2>2, AnsweredClient
<1>3. ASSUME ForwardFails PROVE IInv'
  BY <1>3, ClientsAssumption, ForwardFailsClient DEF ForwardFails, TypeOK
<1>4. ASSUME Release PROVE IInv'
  <2>1. TypeOK'
    BY <1>4 DEF Release, TypeOK, client
  <2> QED BY <1>4, <2>1, Untouched DEF Release
<1> QED BY <1>1, <1>2, <1>3, <1>4 DEF Proxy

LEMMA StopStep ==
  ASSUME IInv, Stop
  PROVE  IInv'
<1>1. /\ TypeOK
      /\ line' = [c \in Client |-> IF c \in Direct /\ line[c] = "open" THEN "dead" ELSE line[c]]
      /\ sent' = [c \in Client |-> IF c \in Direct THEN <<>> ELSE sent[c]]
      /\ up' = FALSE
      /\ UNCHANGED <<calls, outcome, at, state, unread, back, backlog, serving, executed>>
  BY DEF Stop, IInv
<1>2. TypeOK'
  <2>1. \A d \in Client : {sent'[d], back'[d]} \subseteq Seq(1 .. MaxCalls[d])
    <3> SUFFICES ASSUME NEW d \in Client
                 PROVE  {sent'[d], back'[d]} \subseteq Seq(1 .. MaxCalls[d])
      OBVIOUS
    <3>1. sent'[d] = <<>> \/ sent'[d] = sent[d]
      BY <1>1
    <3>2. <<>> \in Seq(1 .. MaxCalls[d])
      OBVIOUS
    <3>3. {sent[d], back[d]} \subseteq Seq(1 .. MaxCalls[d]) /\ back'[d] = back[d]
      BY <1>1 DEF TypeOK
    <3> QED BY <3>1, <3>2, <3>3
  <2>2. DOMAIN sent' = Client
    BY <1>1
  <2>3. line' \in [Client -> Line]
    BY <1>1 DEF TypeOK, Line
  <2> QED BY <1>1, <2>1, <2>2, <2>3 DEF TypeOK
<1>3. ASSUME NEW c \in Client PROVE ClientInv(c)'
  <2>1. CASE c \in Direct
    <3>1. sent'[c] = <<>> /\ line'[c] = IF line[c] = "open" THEN "dead" ELSE line[c]
      BY <1>1, <2>1
    <3> QED BY <1>1, <3>1, LineLost
  <2>2. CASE c \notin Direct
    <3>1. UNCHANGED Local(c)
      BY <1>1, <2>2 DEF Local
    <3> QED BY <3>1, Frame DEF IInv
  <2> QED BY <2>1, <2>2
<1> QED BY <1>2, <1>3 DEF IInv

LEMMA StartStep ==
  ASSUME IInv, Start
  PROVE  IInv'
<1>1. TypeOK'
  BY DEF IInv, Start, TypeOK, client
<1> QED BY <1>1, Untouched DEF Start, IInv
-----------------------------------------------------------------------------
(* The invariant, and what follows from it. *)

LEMMA InitIInv == Init => IInv
<1> SUFFICES ASSUME Init PROVE IInv
  OBVIOUS
<1>1. TypeOK
  <2>1. \A c \in Client : executed[c] \in [1 .. MaxCalls[c] -> Nat]
    BY DEF Init
  <2>2. calls \in [Client -> Seq(Method)] /\ outcome \in [Client -> Seq(Outcome)]
        /\ backlog \in Seq(Proxied) /\ \A c \in Client : {sent[c], back[c]} \subseteq Seq(1 .. MaxCalls[c])
    BY DEF Init
  <2> QED BY <2>1, <2>2 DEF Init, TypeOK, Activity, Line
<1>2. ASSUME NEW c \in Client PROVE ClientInv(c)
  <2>1. /\ N(c) = 0 /\ O(c) = 0 /\ at[c] = "free" /\ line[c] = "none" /\ state[c] = "Idle"
        /\ unread[c] = FALSE /\ sent[c] = <<>> /\ back[c] = <<>>
        /\ executed[c] = [n \in 1 .. MaxCalls[c] |-> 0]
    BY DEF Init, N, O
  <2>2. MaxCalls[c] \in Nat
    BY BoundsAssumption
  <2>3. Counts(c) /\ Handled(c) /\ Underway(c)
    BY <2>1, <2>2 DEF Counts, Busy, Handled, Underway, Nowhere
  <2>4. Usable(c) /\ Truth(c) /\ BrokenRightly(c)
    BY <2>1 DEF Usable, Unusable, Spoiled, Truth, BrokenRightly
  <2> QED BY <2>3, <2>4 DEF ClientInv
<1> QED BY <1>1, <1>2 DEF IInv

LEMMA NextIInv == IInv /\ [Next]_vars => IInv'
<1> SUFFICES ASSUME IInv, [Next]_vars PROVE IInv'
  OBVIOUS
<1>1. ASSUME NEW c \in Client, Call(c) PROVE IInv'
  <2>1. Methods[c] \subseteq Method
    BY BoundsAssumption
  <2> QED BY <1>1, <2>1, ConnectsStep, RefusedStep, OnLineStep, CannotSendStep DEF Call
<1>2. ASSUME NEW c \in Client, GoesOn(c) PROVE IInv'
  BY <1>2, HandshakenStep, HandshakeFailsStep, SendHeadStep, SendBodyStep, SendFailsStep,
     SendLostStep, NotReadyStep, ReceivedStep, DisconnectedStep DEF GoesOn
<1>3. CASE UNCHANGED vars
  <2>1. TypeOK'
    BY <1>3 DEF IInv, TypeOK, vars, client
  <2> QED BY <1>3, <2>1, Untouched DEF IInv, vars
<1> QED BY <1>1, <1>2, <1>3, LeaveStep, ServerStep, ProxyStep, StopStep, StartStep DEF Next

LEMMA Invariant == Spec => []IInv
<1>1. Init => IInv
  BY InitIInv
<1>2. IInv /\ [Next]_vars => IInv'
  BY NextIInv
<1> QED BY <1>1, <1>2, PTL DEF Spec

\* At every moment, for any clients: the state is well formed.
THEOREM ExchangeTyped == Spec => []TypeOK
<1>1. IInv => TypeOK
  BY DEF IInv
<1> QED BY <1>1, Invariant, PTL

\* The outcome of a call tells the truth about it (client.py 207-224): an answer
\* is the one to this very call, a call that could not be sent is never handled,
\* and no call is handled twice, whatever the proxy or the server lose.
THEOREM OutcomesAreTrue == Spec => []OutcomesTrue
<1>1. IInv => OutcomesTrue
  <2> SUFFICES ASSUME IInv, NEW c \in Client, NEW n \in DOMAIN outcome[c]
               PROVE  /\ outcome[c][n] = "answered" => executed[c][n] = 1
                      /\ outcome[c][n] \in NeverSent =>
                           executed[c][n] = 0 /\ \A i \in DOMAIN sent[c] : sent[c][i] # n
                      /\ outcome[c][n] # "mixed up" /\ executed[c][n] <= 1
    BY DEF OutcomesTrue
  <2>1. TypeOK /\ ClientInv(c) /\ outcome[c] \in Seq(Outcome)
    BY Typing DEF IInv
  <2>2. n \in 1 .. O(c) /\ n \in 1 .. MaxCalls[c] /\ outcome[c][n] \in Outcome
    BY <2>1, Typing DEF ClientInv, Counts, O
  <2>3. executed[c][n] <= 1 /\ outcome[c][n] # "mixed up"
    <3>1. executed[c][n] \in {0, 1}
      BY <2>1, <2>2 DEF ClientInv, Handled
    <3>2. \A k \in {0, 1} : k <= 1
      OBVIOUS
    <3>3. outcome[c][n] # "mixed up"
      BY <2>2 DEF Outcome, NeverSent
    <3> QED BY <3>1, <3>2, <3>3
  <2>4. sent[c] = <<>> \/ \E k \in 1 .. N(c) : sent[c] = <<k>>
    <3>1. at[c] \in Busy => N(c) \in 1 .. N(c)
      BY <2>1, Typing DEF ClientInv, Counts
    <3> QED BY <2>1, <3>1 DEF ClientInv, Underway, Nowhere, OnTheWay, OnItsWayBack, Busy
  <2>5. sent[c] # <<n>> => \A i \in DOMAIN sent[c] : sent[c][i] # n
    BY <2>4
  <2> QED BY <2>1, <2>2, <2>3, <2>5 DEF ClientInv, Truth
<1> QED BY <1>1, Invariant, PTL

\* What a handshake, a send or an unread answer has broken stays broken, since
\* http_conn keeps the socket that is there (client.py 74-78), and http.client
\* refuses a call for no other reason.
THEOREM StuckForGood == Spec => []BrokenForGood
<1>1. IInv => BrokenForGood
  <2> SUFFICES ASSUME IInv, NEW c \in Client, NEW n \in DOMAIN outcome[c]
               PROVE  /\ n > 1 /\ Breaks(c, n - 1) => outcome[c][n] \in Broken
                      /\ outcome[c][n] \in Refusal => n > 1 /\ Breaks(c, n - 1)
    BY DEF BrokenForGood
  <2>1. n \in 1 .. O(c)
    BY Typing DEF IInv, O
  <2> QED BY <2>1 DEF IInv, ClientInv, BrokenRightly
<1> QED BY <1>1, Invariant, PTL
=============================================================================
