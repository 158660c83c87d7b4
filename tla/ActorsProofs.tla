---------------------------- MODULE ActorsProofs ----------------------------
(***************************************************************************)
(* What holds of actors for any number of them, of messages and of nested  *)
(* handlers, as long as handlers drop no errors: their state is private    *)
(* and, unless handlers reach their own actors, messages are atomic.       *)
(***************************************************************************)
EXTENDS Actors, SequenceFacts

-----------------------------------------------------------------------------
(* The inductive invariant                                                 *)

\* What a scope binds, and what TypeOK does not say of the two maps.
ScopeType == UNION {[D -> Values] : D \in SUBSET Fields}
Typed == /\ TypeOK
         /\ scopes \in Seq(ScopeType)
         /\ instances \in [Spawned -> Values]

\* The scopes below those of the handlers being executed.
Base == Len(scopes) - Len(calls)

\* A handler being executed and its scope.  It binds the actor's field, whose
\* value is made only of increments sent to the actor; unless handlers reach
\* their own actors, it is the actor's state and the handler's own increment.
Runs(call, own) ==
  LET m == call.message
      a == sent[m].actor
      value == own[FieldOf[a]]
  IN  /\ m \in 1 .. Len(sent) /\ m \notin handled
      /\ DOMAIN own = {FieldOf[a]}
      /\ \A k \in value : k \in 1 .. Len(sent) /\ sent[k].actor = a
      /\ call.assigned => sent[m].kind = "increment" /\ m \in value
      /\ ~reentrant => value = instances[a] \union (IF call.assigned THEN {m} ELSE {})

\* Two handlers being executed are those of two messages and, unless handlers
\* reach their own actors, of two actors.
Apart(c, d) ==
  /\ c.message # d.message
  /\ ~reentrant => sent[c.message].actor # sent[d.message].actor

\* Until an error leaves them, the last scopes are those of the handlers.
Running ==
  flow = "run" =>
    /\ \A i \in 1 .. Len(calls) : Runs(calls[i], scopes[Base + i])
    /\ \A i, j \in 1 .. Len(calls) : i < j => Apart(calls[i], calls[j])

Private ==
  \A a \in Spawned : \A m \in instances[a] : m \in 1 .. Len(sent) /\ sent[m].actor = a

IInv == Typed /\ Running /\ Private

-----------------------------------------------------------------------------
(* The state                                                               *)

LEMMA TypedScopes ==
  ASSUME NEW ss \in Seq(ScopeType)
  PROVE  \A i \in 1 .. Len(ss) :
           DOMAIN ss[i] \subseteq Fields /\ \A f \in DOMAIN ss[i] : ss[i][f] \in Values
<1> SUFFICES ASSUME NEW i \in 1 .. Len(ss)
             PROVE  DOMAIN ss[i] \subseteq Fields /\ \A f \in DOMAIN ss[i] : ss[i][f] \in Values
  OBVIOUS
<1>1. ss[i] \in ScopeType
  BY ElementOfSeq
<1>2. PICK D \in SUBSET Fields : ss[i] \in [D -> Values]
  BY <1>1 DEF ScopeType
<1> QED BY <1>2

LEMMA Facts ==
  ASSUME Typed
  PROVE  /\ scopes \in Seq(ScopeType) /\ Len(scopes) \in Nat
         /\ calls \in Seq(Call) /\ Len(calls) \in Nat
         /\ Len(scopes) > Len(calls) /\ Base \in Nat \ {0}
         /\ sent \in Seq([actor : Spawned, kind : Kinds]) /\ Len(sent) \in Nat
         /\ \A m \in 1 .. Len(sent) : sent[m].actor \in Spawned /\ sent[m].kind \in Kinds
         /\ \A i \in 1 .. Len(calls) : calls[i] \in Call
         /\ scopes # <<>> /\ MaxMessages \in Nat /\ Len(sent) <= MaxMessages
<1>1. /\ scopes \in Seq(ScopeType) /\ Len(scopes) \in Nat
      /\ calls \in Seq(Call) /\ Len(calls) \in Nat
      /\ Len(scopes) > Len(calls)
      /\ sent \in Seq([actor : Spawned, kind : Kinds]) /\ Len(sent) \in Nat
      /\ MaxMessages \in Nat /\ Len(sent) <= MaxMessages
  BY LenProperties, BoundsAssumption DEF Typed, TypeOK
<1>2. \A m \in 1 .. Len(sent) : sent[m] \in [actor : Spawned, kind : Kinds]
  BY <1>1, ElementOfSeq
<1>3. \A i \in 1 .. Len(calls) : calls[i] \in Call
  BY <1>1, ElementOfSeq
<1>4. Base \in Nat \ {0}
  BY <1>1 DEF Base
<1>5. scopes # <<>>
  BY <1>1, Len(<<>>) = 0
<1> QED BY <1>1, <1>2, <1>3, <1>4, <1>5

\* The handler on top of the calls has the last scope, which is where its field
\* is found.
LEMMA TopFacts ==
  ASSUME IInv, flow = "run", InHandler
  PROVE  /\ Len(calls) \in 1 .. Len(calls)
         /\ Top \in Call /\ Top.message \in 1 .. Len(sent)
         /\ Receiver \in Spawned
         /\ Runs(Top, scopes[Len(scopes)])
         /\ Nearest(Field) = Len(scopes)
         /\ scopes[Len(scopes)] \in [{Field} -> Values]
         /\ Updated = scopes[Len(scopes)][Field]
         /\ Lookup(Field) = scopes[Len(scopes)][Field]
<1> DEFINE n == Len(scopes)
           own == scopes[n]
<1>1. /\ Len(calls) \in Nat \ {0} /\ n \in Nat
      /\ Base + Len(calls) = n
      /\ n \in 1 .. n
  BY Facts, EmptySeq DEF IInv, InHandler, Base
<1>2. Runs(Top, own) /\ Top \in Call
  BY <1>1, Facts DEF IInv, Running, Top
<1>3. /\ Top.message \in 1 .. Len(sent) /\ DOMAIN own = {Field}
      /\ Receiver \in Spawned
  BY <1>2, Facts DEF IInv, Runs, Receiver, Field
<1>4. own \in [{Field} -> Values]
  <2>1. own \in ScopeType
    BY <1>1, Facts, ElementOfSeq DEF IInv
  <2> QED BY <1>3, <2>1 DEF ScopeType
<1>5. Nearest(Field) = n
  <2> DEFINE Near(i) == /\ Field \in DOMAIN scopes[i]
                        /\ \A j \in (i + 1) .. n : Field \notin DOMAIN scopes[j]
  <2>1. Near(n)
    BY <1>1, <1>3
  <2>2. ASSUME NEW i \in 1 .. n, Near(i) PROVE i = n
    BY <1>1, <1>3, <2>2
  <2>3. Nearest(Field) = CHOOSE i \in 1 .. n : Near(i)
    BY DEF Nearest
  <2> HIDE DEF Near
  <2> QED BY <1>1, <2>1, <2>2, <2>3
<1>6. Updated = own[Field]
  BY <1>3 DEF Updated
<1>7. Lookup(Field) = own[Field]
  BY <1>5 DEF Lookup
<1> QED BY <1>1, <1>2, <1>3, <1>4, <1>5, <1>6, <1>7

\* A handler keeps running when messages are sent and other actors change.
LEMMA StillRuns ==
  ASSUME NEW i, Runs(calls[i], scopes[Base + i]), UNCHANGED reentrant,
         calls'[i] = calls[i], scopes'[Base' + i] = scopes[Base + i],
         \A k \in 1 .. Len(sent) : k \in 1 .. Len(sent') /\ sent'[k] = sent[k],
         calls[i].message \notin handled',
         LET a == sent[calls[i].message].actor IN ~reentrant => instances'[a] = instances[a]
  PROVE  Runs(calls[i], scopes[Base + i])'
<1>1. PICK call, own : call = calls[i] /\ own = scopes[Base + i]
  <2>1. PICK call : call = calls[i]
    BY Zenon
  <2>2. PICK own : own = scopes[Base + i]
    BY Zenon
  <2> QED BY <2>1, <2>2, Zenon
<1> DEFINE m == call.message
           a == sent[m].actor
           value == own[FieldOf[a]]
<1>2. /\ m \in 1 .. Len(sent) /\ DOMAIN own = {FieldOf[a]}
      /\ \A k \in value : k \in 1 .. Len(sent) /\ sent[k].actor = a
      /\ call.assigned => sent[m].kind = "increment" /\ m \in value
      /\ ~reentrant => value = instances[a] \union (IF call.assigned THEN {m} ELSE {})
  <2>1. Runs(call, own)
    BY <1>1, Zenon
  <2> QED BY ONLY <2>1, Zenon DEF Runs
<1>3. m \in 1 .. Len(sent') /\ sent'[m] = sent[m] /\ m \notin handled'
  BY <1>1, <1>2
<1>4. \A k \in value : k \in 1 .. Len(sent') /\ sent'[k].actor = a
  BY <1>2, SMTT(30)
<1>5. ~reentrant' => value = instances'[a] \union (IF call.assigned THEN {m} ELSE {})
  BY <1>1, <1>2
<1>6. call = calls'[i] /\ own = scopes'[Base' + i]
  BY <1>1
<1>7. sent'[m].actor = a /\ sent'[m].kind = sent[m].kind
  BY <1>3, SMTT(30)
<1>8. call.assigned => sent'[m].kind = "increment" /\ m \in value
  BY <1>2, <1>7, SMTT(30)
<1>9. /\ m \in 1 .. Len(sent') /\ m \notin handled'
      /\ DOMAIN own = {FieldOf[sent'[m].actor]}
      /\ \A k \in own[FieldOf[sent'[m].actor]] :
           k \in 1 .. Len(sent') /\ sent'[k].actor = sent'[m].actor
      /\ call.assigned =>
           sent'[m].kind = "increment" /\ m \in own[FieldOf[sent'[m].actor]]
      /\ ~reentrant' =>
           own[FieldOf[sent'[m].actor]]
             = instances'[sent'[m].actor] \union (IF call.assigned THEN {m} ELSE {})
  BY <1>2, <1>3, <1>4, <1>5, <1>7, <1>8
<1> QED BY <1>6, <1>9, ZenonT(30) DEF Runs

-----------------------------------------------------------------------------
(* The actions                                                             *)

LEMMA SpawnIInv == ASSUME IInv, Spawn PROVE IInv'
<1>1. PICK a \in Actors \ Spawned :
        instances' = [b \in Spawned \union {a} |-> IF b = a THEN {} ELSE instances[b]]
  BY DEF Spawn
<1>2. UNCHANGED <<reentrant, scopes, calls, flow, sent, handled, answer>>
  BY DEF Spawn
<1>3. Spawned' = Spawned \union {a} /\ {} \in Values
  BY <1>1 DEF Spawned, Values
<1>4. \A b \in Spawned : instances'[b] = instances[b]
  BY <1>1
<1>5. instances' \in [Spawned' -> Values] /\ instances'[a] = {}
  BY <1>1, <1>3 DEF IInv, Typed
<1>6. Typed'
  <2>1. [actor : Spawned, kind : Kinds] \subseteq [actor : Spawned', kind : Kinds]
    BY <1>3
  <2>2. sent' \in Seq([actor : Spawned', kind : Kinds])
    <3>1. sent \in Seq([actor : Spawned, kind : Kinds])
      BY Facts DEF IInv
    <3> QED BY <1>2, <2>1, <3>1, WiderSeq, ZenonT(30)
  <2>3. Spawned' \subseteq Actors /\ \A b \in Spawned' : instances'[b] \in Values
    BY <1>3, <1>5 DEF IInv, Typed, TypeOK
  <2> QED BY <1>2, <1>5, <2>2, <2>3 DEF IInv, Typed, TypeOK
<1>7. Running'
  <2> SUFFICES ASSUME flow = "run"
               PROVE  /\ \A i \in 1 .. Len(calls) : Runs(calls[i], scopes[Base + i])'
                      /\ \A i, j \in 1 .. Len(calls) : i < j => Apart(calls[i], calls[j])'
    BY <1>2 DEF Running
  <2>1. Base' = Base
    BY <1>2 DEF Base
  <2>2. ASSUME NEW i \in 1 .. Len(calls) PROVE Runs(calls[i], scopes[Base + i])'
    <3>1. Runs(calls[i], scopes[Base + i])
      BY DEF IInv, Running
    <3>2. sent[calls[i].message].actor \in Spawned /\ calls[i].message \notin handled
      BY <3>1, Facts DEF IInv, Runs
    <3>3. calls'[i] = calls[i] /\ scopes'[Base' + i] = scopes[Base + i]
      BY <1>2, <2>1, Zenon
    <3>4. \A k \in 1 .. Len(sent) : k \in 1 .. Len(sent') /\ sent'[k] = sent[k]
      BY <1>2, Zenon
    <3>5. calls[i].message \notin handled' /\ UNCHANGED reentrant
      BY <1>2, <3>2, Zenon
    <3>6. LET of == sent[calls[i].message].actor IN ~reentrant => instances'[of] = instances[of]
      BY <1>4, <3>2, Zenon
    <3> QED BY <3>1, <3>3, <3>4, <3>5, <3>6, StillRuns, Zenon
  <2>3. ASSUME NEW i \in 1 .. Len(calls), NEW j \in 1 .. Len(calls), i < j
        PROVE  Apart(calls[i], calls[j])'
    BY <1>2, <2>3 DEF IInv, Running, Apart
  <2> QED BY <2>2, <2>3
<1>8. Private'
  BY <1>2, <1>3, <1>4, <1>5 DEF IInv, Private
<1> QED BY <1>6, <1>7, <1>8 DEF IInv

LEMMA SendIInv == ASSUME IInv, Send PROVE IInv'
<1>1. PICK a \in Spawned, kind \in Kinds :
        /\ reentrant \/ \A i \in 1 .. Len(calls) : sent[calls[i].message].actor # a
        /\ sent' = Append(sent, [actor |-> a, kind |-> kind])
        /\ scopes' = Append(scopes, [f \in {FieldOf[a]} |-> instances[a]])
        /\ calls' = Append(calls, [message |-> Len(sent) + 1, snapshot |-> instances[a],
                                   assigned |-> FALSE])
  BY DEF Send
<1>2. /\ flow = "run" /\ Len(sent) < MaxMessages
      /\ UNCHANGED <<reentrant, instances, flow, handled, answer>>
  BY DEF Send
<1> DEFINE message == [actor |-> a, kind |-> kind]
           own == [f \in {FieldOf[a]} |-> instances[a]]
           call == [message |-> Len(sent) + 1, snapshot |-> instances[a],
                    assigned |-> FALSE]
           n == Len(calls)
           last == Len(sent) + 1
<1>3. /\ scopes \in Seq(ScopeType) /\ Len(scopes) \in Nat
      /\ calls \in Seq(Call) /\ n \in Nat /\ Base \in Nat
      /\ sent \in Seq([actor : Spawned, kind : Kinds]) /\ Len(sent) \in Nat
      /\ last \in Messages
  BY <1>2, Facts DEF IInv, Messages
<1>4. message \in [actor : Spawned, kind : Kinds]
  OBVIOUS
<1>5. instances[a] \in Values /\ FieldOf[a] \in Fields /\ Spawned \subseteq Actors
  BY DEF IInv, Typed, TypeOK, Fields
<1>6. own \in ScopeType
  <2>1. own \in [{FieldOf[a]} -> Values] /\ {FieldOf[a]} \in SUBSET Fields
    BY <1>5
  <2> QED BY <2>1 DEF ScopeType
<1>7. call \in Call
  BY <1>3, <1>5 DEF Call
<1>8. /\ sent' \in Seq([actor : Spawned, kind : Kinds]) /\ Len(sent') = Len(sent) + 1
      /\ \A m \in 1 .. Len(sent) : sent'[m] = sent[m]
      /\ sent'[last] = message
  <2> HIDE DEF message
  <2> QED BY <1>1, <1>3, <1>4, WithLast DEF message
<1>9. /\ scopes' \in Seq(ScopeType) /\ Len(scopes') = Len(scopes) + 1
      /\ \A i \in 1 .. Len(scopes) : scopes'[i] = scopes[i]
      /\ scopes'[Len(scopes) + 1] = own
  <2> HIDE DEF own
  <2> QED BY <1>1, <1>3, <1>6, WithLast DEF own
<1>10. /\ calls' \in Seq(Call) /\ Len(calls') = n + 1
       /\ \A i \in 1 .. n : calls'[i] = calls[i]
       /\ calls'[n + 1] = call
  <2> HIDE DEF call
  <2> QED BY <1>1, <1>3, <1>7, WithLast DEF call
<1>11. Typed'
  <2>1. handled \subseteq 1 .. Len(sent')
    BY <1>3, <1>8 DEF IInv, Typed, TypeOK
  <2>2. Len(sent') <= MaxMessages /\ Len(scopes') > Len(calls')
    BY <1>2, <1>3, <1>8, <1>9, <1>10, Facts DEF IInv
  <2>3. \A i \in 1 .. Len(scopes') : DOMAIN scopes'[i] \subseteq Fields
                                      /\ \A f \in DOMAIN scopes'[i] : scopes'[i][f] \in Values
    BY <1>9, TypedScopes, SMTT(30)
  <2> QED BY <1>2, <1>8, <1>9, <1>10, <2>1, <2>2, <2>3 DEF IInv, Typed, TypeOK, Spawned
<1>12. Base' = Base
  BY <1>3, <1>9, <1>10, SMTT(30) DEF Base
<1>13. ASSUME NEW i \in 1 .. n
       PROVE  /\ calls'[i] = calls[i] /\ scopes'[Base' + i] = scopes[Base + i]
              /\ Runs(calls[i], scopes[Base + i])
              /\ calls[i].message \in 1 .. Len(sent)
  <2>1. Base + i \in 1 .. Len(scopes)
    BY <1>3 DEF Base
  <2>2. Runs(calls[i], scopes[Base + i])
    BY <1>2 DEF IInv, Running
  <2> QED BY <1>9, <1>10, <1>12, <2>1, <2>2 DEF Runs
<1>14. \A i \in 1 .. (n + 1) : Runs(calls[i], scopes[Base + i])'
  <2> SUFFICES ASSUME NEW i \in 1 .. (n + 1) PROVE Runs(calls[i], scopes[Base + i])'
    OBVIOUS
  <2>1. CASE i \in 1 .. n
    <3>1. \A k \in 1 .. Len(sent) : k \in 1 .. Len(sent') /\ sent'[k] = sent[k]
      BY <1>3, <1>8
    <3>2. Runs(calls[i], scopes[Base + i]) /\ calls[i].message \notin handled
      BY <1>13, <2>1 DEF Runs
    <3> QED BY <1>2, <1>13, <2>1, <3>1, <3>2, StillRuns, SMTT(30)
  <2>2. CASE i = n + 1
    <3>1. calls'[i] = call /\ scopes'[Base' + i] = own
      <4>1. Base' + i = Len(scopes) + 1
        BY <1>3, <1>12, <2>2, SMTT(30) DEF Base
      <4> QED BY <1>9, <1>10, <2>2, <4>1
    <3>2. call.message = last /\ ~call.assigned /\ sent'[last].actor = a
      BY <1>8
    <3>3. DOMAIN own = {FieldOf[a]} /\ own[FieldOf[a]] = instances[a]
      OBVIOUS
    <3>4. last \in 1 .. Len(sent') /\ last \notin handled
      BY <1>3, <1>8 DEF IInv, Typed, TypeOK
    <3>5. \A k \in instances[a] : k \in 1 .. Len(sent') /\ sent'[k].actor = a
      <4>1. \A k \in instances[a] : k \in 1 .. Len(sent) /\ sent[k].actor = a
        BY DEF IInv, Private
      <4>2. \A k \in 1 .. Len(sent) : k \in 1 .. Len(sent') /\ sent'[k] = sent[k]
        BY <1>3, <1>8
      <4> QED BY <4>1, <4>2
    <3> HIDE DEF call, own, last
    <3> QED BY <1>2, <3>1, <3>2, <3>3, <3>4, <3>5 DEF Runs
  <2> QED BY <1>3, <2>1, <2>2
<1>15. ASSUME NEW i \in 1 .. (n + 1), NEW j \in 1 .. (n + 1), i < j
       PROVE  Apart(calls[i], calls[j])'
  <2>1. i \in 1 .. n
    BY <1>3, <1>15
  <2>2. sent'[calls[i].message] = sent[calls[i].message]
    BY <1>8, <1>13, <2>1
  <2>3. CASE j \in 1 .. n
    <3>1. Apart(calls[i], calls[j])
      BY <1>2, <1>15, <2>1, <2>3 DEF IInv, Running
    <3>2. sent'[calls[j].message] = sent[calls[j].message]
      BY <1>8, <1>13, <2>3
    <3> QED BY <1>2, <1>13, <2>1, <2>2, <2>3, <3>1, <3>2 DEF Apart
  <2>4. CASE j = n + 1
    <3>1. calls'[j].message = last /\ sent'[last].actor = a
      BY <1>8, <1>10, <2>4
    <3>2. calls[i].message # last
      BY <1>3, <1>13, <2>1
    <3>3. ~reentrant => sent[calls[i].message].actor # a
      BY <1>1, <2>1
    <3> HIDE DEF last
    <3> QED BY <1>2, <1>13, <2>1, <2>2, <3>1, <3>2, <3>3 DEF Apart
  <2> QED BY <1>3, <2>3, <2>4
<1>16. Private'
  BY <1>2, <1>3, <1>8 DEF IInv, Private, Spawned
<1> QED BY <1>10, <1>11, <1>14, <1>15, <1>16 DEF IInv, Running

\* count = count + 1 in the handler on top changes its own scope alone.
LEMMA IncrementIInv == ASSUME IInv, Increment PROVE IInv'
<1>1. /\ flow = "run" /\ InHandler /\ Kind = "increment"
      /\ scopes' = [scopes EXCEPT ![Nearest(Field)][Field] = @ \union {Top.message}]
      /\ calls' = [calls EXCEPT ![Len(calls)].assigned = TRUE]
      /\ UNCHANGED <<reentrant, instances, flow, sent, handled, answer>>
  BY DEF Increment
<1> DEFINE n == Len(calls)
           d == Len(scopes)
           m == Top.message
           value == scopes[d][Field] \union {m}
           own == [scopes[d] EXCEPT ![Field] = value]
           call == [Top EXCEPT !.assigned = TRUE]
<1>2. /\ scopes \in Seq(ScopeType) /\ d \in Nat \ {0}
      /\ calls \in Seq(Call) /\ n \in Nat \ {0} /\ calls # <<>>
      /\ scopes # <<>> /\ Base + n = d /\ Base \in Nat
      /\ Len(sent) \in Nat
  BY <1>1, Facts, EmptySeq DEF IInv, InHandler, Base
<1>3. /\ Top \in Call /\ m \in 1 .. Len(sent)
      /\ Runs(Top, scopes[d])
      /\ scopes[d] \in [{Field} -> Values]
  BY <1>1, TopFacts
<1>4. value \in Values /\ m \in Messages
  BY <1>2, <1>3 DEF Values, Call
<1>5. own \in [{Field} -> Values] /\ own[Field] = value
  <2> HIDE DEF value
  <2> QED BY <1>3, <1>4
<1>6. own \in ScopeType
  <2>1. scopes[d] \in ScopeType
    BY <1>2, ElementOfSeq
  <2>2. Field \in Fields
    BY <1>3, <2>1 DEF ScopeType
  <2> HIDE DEF own
  <2>3. {Field} \in SUBSET Fields
    BY <2>2
  <2> QED BY <1>5, <2>3 DEF ScopeType
<1>7. scopes' = [scopes EXCEPT ![d] = own]
  BY <1>1, TopFacts
<1>8. /\ call \in Call /\ call.message = m /\ call.assigned
      /\ calls' = [calls EXCEPT ![n] = call]
  <2>1. call \in Call /\ call.message = m /\ call.assigned
    BY <1>3 DEF Call
  <2> QED BY <1>1, <2>1 DEF Top
<1> HIDE DEF own, call, value
<1>9. /\ scopes' \in Seq(ScopeType) /\ Len(scopes') = d
      /\ \A i \in 1 .. (d - 1) : scopes'[i] = scopes[i]
      /\ scopes'[d] = own
  BY <1>2, <1>6, <1>7, AnotherLast
<1>10. /\ calls' \in Seq(Call) /\ Len(calls') = n
       /\ \A i \in 1 .. (n - 1) : calls'[i] = calls[i]
       /\ calls'[n] = call
  BY <1>2, <1>8, AnotherLast
<1>11. Typed'
  <2>1. \A i \in 1 .. Len(scopes') : DOMAIN scopes'[i] \subseteq Fields
                                      /\ \A f \in DOMAIN scopes'[i] : scopes'[i][f] \in Values
    BY <1>9, TypedScopes
  <2>2. Len(scopes') > Len(calls')
    BY <1>2, <1>9, <1>10, Facts DEF IInv
  <2> QED BY <1>1, <1>9, <1>10, <2>1, <2>2 DEF IInv, Typed, TypeOK, Spawned
<1>12. Base' = Base
  BY <1>9, <1>10 DEF Base
<1>13. \A i \in 1 .. n : Runs(calls[i], scopes[Base + i])'
  <2> SUFFICES ASSUME NEW i \in 1 .. n PROVE Runs(calls[i], scopes[Base + i])'
    OBVIOUS
  <2>1. CASE i \in 1 .. (n - 1)
    <3>1. Runs(calls[i], scopes[Base + i]) /\ calls[i].message \notin handled'
      BY <1>1 DEF IInv, Running, Runs
    <3>2. calls'[i] = calls[i] /\ scopes'[Base' + i] = scopes[Base + i]
      <4>1. Base + i \in 1 .. (d - 1)
        BY <1>2, <2>1
      <4> QED BY <1>9, <1>10, <1>12, <2>1, <4>1
    <3> QED BY <1>1, <3>1, <3>2, StillRuns
  <2>2. CASE i = n
    <3> DEFINE a == sent[m].actor
    <3>1. calls'[i] = call /\ scopes'[Base' + i] = own
      BY <1>2, <1>9, <1>10, <1>12, <2>2
    <3>2. /\ m \notin handled /\ FieldOf[a] = Field
          /\ \A k \in scopes[d][Field] : k \in 1 .. Len(sent) /\ sent[k].actor = a
          /\ ~reentrant => scopes[d][Field] \union {m} = instances[a] \union {m}
      BY <1>3 DEF Runs, Field, Receiver
    <3>3. \A k \in value : k \in 1 .. Len(sent) /\ sent[k].actor = a
      BY <1>3, <3>2 DEF value
    <3>4. /\ sent[m].kind = "increment" /\ m \in value
          /\ ~reentrant => value = instances[a] \union {m}
      BY <1>1, <3>2 DEF value, Kind
    <3>5. DOMAIN own = {FieldOf[a]} /\ own[FieldOf[a]] = value
      BY <1>5, <3>2
    <3>6. /\ m \in 1 .. Len(sent') /\ m \notin handled'
          /\ DOMAIN own = {FieldOf[sent'[m].actor]}
          /\ \A k \in own[FieldOf[sent'[m].actor]] :
               k \in 1 .. Len(sent') /\ sent'[k].actor = sent'[m].actor
          /\ call.assigned =>
               sent'[m].kind = "increment" /\ m \in own[FieldOf[sent'[m].actor]]
          /\ ~reentrant' =>
               own[FieldOf[sent'[m].actor]]
                 = instances'[sent'[m].actor] \union (IF call.assigned THEN {m} ELSE {})
      BY <1>1, <1>3, <1>8, <3>2, <3>3, <3>4, <3>5
    <3> QED BY <1>8, <3>1, <3>6, ZenonT(30) DEF Runs
  <2> QED BY <1>2, <2>1, <2>2
<1>14. ASSUME NEW i \in 1 .. n, NEW j \in 1 .. n, i < j
       PROVE  Apart(calls[i], calls[j])'
  <2>1. \A k \in 1 .. n : calls'[k].message = calls[k].message
    <3> SUFFICES ASSUME NEW k \in 1 .. n PROVE calls'[k].message = calls[k].message
      BY SMTT(30)
    <3>1. CASE k = n
      BY <1>8, <1>10, <3>1 DEF Top
    <3>2. CASE k # n
      BY <1>2, <1>10, <3>2, SMTT(30)
    <3> QED BY <3>1, <3>2
  <2>2. Apart(calls[i], calls[j])
    BY <1>1, <1>14 DEF IInv, Running
  <2> QED BY <1>1, <2>1, <2>2 DEF Apart
<1>15. Private'
  BY <1>1 DEF IInv, Private, Spawned
<1> QED BY <1>10, <1>11, <1>13, <1>14, <1>15 DEF IInv, Running

\* Errors are dropped by main alone: no handler is being executed.
LEMMA DropErrorIInv ==
  ASSUME "handler" \notin Droppers, IInv, DropError
  PROVE  IInv'
<1> DEFINE empty == [f \in {} |-> {}]
<1>1. calls = <<>> /\ Len(calls) = 0
  BY Len(<<>>) = 0 DEF DropError, Drops, Code
<1>2. empty \in ScopeType
  <2>1. empty \in [{} -> Values] /\ {} \in SUBSET Fields
    OBVIOUS
  <2> QED BY <2>1 DEF ScopeType
<1>3. /\ scopes' = Append(scopes, empty)
      /\ UNCHANGED <<reentrant, instances, calls, flow, sent, handled, answer>>
  BY DEF DropError
<1> HIDE DEF empty
<1>4. /\ scopes' \in Seq(ScopeType) /\ Len(scopes') = Len(scopes) + 1
  BY <1>2, <1>3, Facts, WithLast DEF IInv
<1>5. Typed'
  <2>1. \A i \in 1 .. Len(scopes') : DOMAIN scopes'[i] \subseteq Fields
                                      /\ \A f \in DOMAIN scopes'[i] : scopes'[i][f] \in Values
    BY <1>4, TypedScopes
  <2>2. Len(scopes') > Len(calls')
    BY <1>3, <1>4, Facts DEF IInv
  <2> QED BY <1>3, <1>4, <2>1, <2>2 DEF IInv, Typed, TypeOK, Spawned
<1>6. Running'
  BY <1>1, <1>3 DEF Running
<1>7. Private'
  BY <1>3 DEF IInv, Private, Spawned
<1> QED BY <1>5, <1>6, <1>7 DEF IInv

LEMMA FailIInv == ASSUME IInv, Fail PROVE IInv'
<1>1. flow' = "error" /\ UNCHANGED <<reentrant, scopes, instances, calls, sent, handled, answer>>
  BY DEF Fail
<1>2. Typed'
  BY <1>1 DEF IInv, Typed, TypeOK, Spawned
<1> QED BY <1>1, <1>2 DEF IInv, Running, Private, Spawned

\* An error leaves all handlers, one after the other.
LEMMA AbortIInv ==
  ASSUME "handler" \notin Droppers, IInv, Abort
  PROVE  IInv'
<1>1. /\ calls' = Below /\ calls # <<>>
      /\ flow' \in {"run", "error"}
      /\ flow' = "run" => Below = <<>>
      /\ UNCHANGED <<reentrant, scopes, instances, sent, handled, answer>>
  BY DEF Abort, InHandler, Drops, Code
<1>2. calls' \in Seq(Call) /\ Len(calls') = Len(calls) - 1
  BY <1>1, Facts, WithoutLast DEF IInv, Below
<1>3. Typed'
  <2>1. Len(scopes') > Len(calls')
    BY <1>1, <1>2, Facts DEF IInv
  <2> QED BY <1>1, <1>2, <2>1 DEF IInv, Typed, TypeOK, Spawned
<1>4. Running'
  <2>1. flow' = "run" => Len(calls') = 0
    BY <1>1, Len(<<>>) = 0
  <2> QED BY <2>1 DEF Running
<1>5. Private'
  BY <1>1 DEF IInv, Private, Spawned
<1> QED BY <1>3, <1>4, <1>5 DEF IInv

\* The handler on top writes back its field, and no other.
LEMMA FinishIInv == ASSUME IInv, Finish PROVE IInv'
<1>1. /\ flow = "run" /\ InHandler /\ calls # <<>>
      /\ answer' = IF Kind = "get" THEN Lookup(Field) ELSE answer
      /\ instances' = [instances EXCEPT ![Receiver] = Updated]
      /\ scopes' = Popped /\ calls' = Below
      /\ handled' = handled \union {Top.message}
      /\ UNCHANGED <<reentrant, flow, sent>>
  BY DEF Finish, InHandler
<1> DEFINE n == Len(calls)
           d == Len(scopes)
           m == Top.message
           value == scopes[d][Field]
<1>2. /\ scopes \in Seq(ScopeType) /\ d \in Nat \ {0}
      /\ calls \in Seq(Call) /\ n \in Nat \ {0}
      /\ scopes # <<>> /\ Base + n = d /\ Base \in Nat \ {0}
      /\ Len(sent) \in Nat
  BY <1>1, Facts, EmptySeq DEF IInv, InHandler, Base
<1>3. /\ Top \in Call /\ m \in 1 .. Len(sent) /\ Receiver \in Spawned
      /\ Runs(Top, scopes[d])
      /\ scopes[d] \in [{Field} -> Values]
      /\ Updated = value /\ Lookup(Field) = value
  BY <1>1, TopFacts
<1>4. value \in Values
  BY <1>3
<1>5. /\ instances' \in [Spawned -> Values] /\ Spawned' = Spawned
      /\ instances'[Receiver] = value
      /\ \A a \in Spawned : a # Receiver => instances'[a] = instances[a]
  <2> HIDE DEF value
  <2>1. instances \in [Spawned -> Values] /\ instances' = [instances EXCEPT ![Receiver] = value]
    BY <1>1, <1>3 DEF IInv, Typed
  <2>2. instances' \in [Spawned -> Values]
    BY <1>4, <2>1
  <2> QED BY <1>3, <2>1, <2>2 DEF Spawned
<1> HIDE DEF value
<1>6. /\ scopes' \in Seq(ScopeType) /\ Len(scopes') = d - 1
      /\ \A i \in 1 .. (d - 1) : scopes'[i] = scopes[i]
  BY <1>1, <1>2, WithoutLast DEF Popped
<1>7. /\ calls' \in Seq(Call) /\ Len(calls') = n - 1
      /\ \A i \in 1 .. (n - 1) : calls'[i] = calls[i]
  BY <1>1, <1>2, WithoutLast DEF Below
<1>8. Typed'
  <2>1. \A i \in 1 .. Len(scopes') : DOMAIN scopes'[i] \subseteq Fields
                                      /\ \A f \in DOMAIN scopes'[i] : scopes'[i][f] \in Values
    BY <1>6, TypedScopes
  <2>2. Len(scopes') > Len(calls')
    BY <1>2, <1>6, <1>7, Facts DEF IInv
  <2>3. answer' \in Values
    BY <1>1, <1>3, <1>4 DEF IInv, Typed, TypeOK
  <2>4. handled' \subseteq 1 .. Len(sent')
    BY <1>1, <1>3 DEF IInv, Typed, TypeOK
  <2>5. \A a \in Spawned' : instances'[a] \in Values
    BY <1>5
  <2> QED BY <1>1, <1>5, <1>6, <1>7, <2>1, <2>2, <2>3, <2>4, <2>5 DEF IInv, Typed, TypeOK
<1>9. Base' = Base
  <2>1. d \in Nat /\ n \in Nat /\ Len(scopes') - Len(calls') = (d - 1) - (n - 1)
    BY <1>2, <1>6, <1>7
  <2>2. (d - 1) - (n - 1) = d - n
    BY <2>1
  <2> QED BY <2>1, <2>2 DEF Base
<1>10. \A i \in 1 .. (n - 1) : Runs(calls[i], scopes[Base + i])'
  <2> SUFFICES ASSUME NEW i \in 1 .. (n - 1) PROVE Runs(calls[i], scopes[Base + i])'
    OBVIOUS
  <2>1. i \in 1 .. n /\ n \in 1 .. n /\ i < n /\ Base + i \in 1 .. (d - 1)
    BY <1>2
  <2>2. Runs(calls[i], scopes[Base + i]) /\ Apart(calls[i], Top)
    BY <1>1, <2>1, SMTT(30) DEF IInv, Running, Top
  <2>3. calls[i].message \in 1 .. Len(sent) /\ calls[i].message \notin handled'
    BY <1>1, <2>2 DEF Runs, Apart
  <2>4. ~reentrant => instances'[sent[calls[i].message].actor]
                        = instances[sent[calls[i].message].actor]
    <3>1. sent[calls[i].message].actor \in Spawned
      BY <2>3, Facts DEF IInv
    <3> QED BY <1>5, <2>2, <3>1 DEF Apart, Receiver
  <2>5. calls'[i] = calls[i] /\ scopes'[Base' + i] = scopes[Base + i]
    BY <1>6, <1>7, <1>9, <2>1
  <2> QED BY <1>1, <2>2, <2>3, <2>4, <2>5, StillRuns
<1>11. ASSUME NEW i \in 1 .. (n - 1), NEW j \in 1 .. (n - 1), i < j
       PROVE  Apart(calls[i], calls[j])'
  <2>1. i \in 1 .. n /\ j \in 1 .. n
    BY <1>2
  <2>2. Apart(calls[i], calls[j])
    BY <1>1, <1>11, <2>1 DEF IInv, Running
  <2> QED BY <1>1, <1>7, <2>2 DEF Apart
<1>12. Private'
  <2>1. \A k \in value : k \in 1 .. Len(sent) /\ sent[k].actor = Receiver
    BY <1>3 DEF Runs, value, Field, Receiver
  <2> QED BY <1>1, <1>5, <2>1 DEF IInv, Private
<1> QED BY <1>7, <1>8, <1>10, <1>11, <1>12 DEF IInv, Running

LEMMA InitIInv == Init => IInv
<1> SUFFICES ASSUME Init PROVE IInv
  OBVIOUS
<1> DEFINE empty == [f \in {} |-> {}]
<1>1. /\ reentrant \in Reentrant /\ scopes = <<empty>> /\ instances = empty
      /\ calls = <<>> /\ flow = "run" /\ sent = <<>> /\ handled = {} /\ answer = {}
  BY DEF Init
<1>2. empty \in ScopeType
  <2>1. empty \in [{} -> Values] /\ {} \in SUBSET Fields
    OBVIOUS
  <2> QED BY <2>1 DEF ScopeType
<1>3. /\ scopes \in Seq(ScopeType) /\ Len(scopes) = 1
      /\ Len(calls) = 0 /\ calls \in Seq(Call)
      /\ Len(sent) = 0 /\ sent \in Seq([actor : Spawned, kind : Kinds])
  <2> HIDE DEF empty
  <2> QED BY <1>1, <1>2
<1>4. Spawned = {} /\ instances \in [Spawned -> Values]
  BY <1>1 DEF Spawned
<1>5. Typed
  <2>1. {} \in Values /\ 0 <= MaxMessages
    BY BoundsAssumption DEF Values
  <2>2. \A i \in 1 .. Len(scopes) : DOMAIN scopes[i] \subseteq Fields
                                    /\ \A f \in DOMAIN scopes[i] : scopes[i][f] \in Values
    BY <1>3, TypedScopes
  <2> HIDE DEF empty
  <2> QED BY <1>1, <1>3, <1>4, <2>1, <2>2 DEF Typed, TypeOK
<1>6. Running
  BY <1>3 DEF Running
<1>7. Private
  BY <1>4 DEF Private
<1> QED BY <1>5, <1>6, <1>7 DEF IInv

LEMMA StepIInv ==
  ASSUME "handler" \notin Droppers
  PROVE  IInv /\ [Next]_vars => IInv'
<1> SUFFICES ASSUME IInv, [Next]_vars PROVE IInv'
  OBVIOUS
<1>1. CASE UNCHANGED vars
  <2>1. UNCHANGED <<reentrant, scopes, instances, calls, flow, sent, handled, answer>>
    BY <1>1 DEF vars
  <2>2. UNCHANGED <<Spawned, Base>>
    BY <2>1 DEF Spawned, Base
  <2>3. Typed'
    BY <2>1, <2>2 DEF IInv, Typed, TypeOK
  <2>4. ASSUME NEW i \in 1 .. Len(calls)
        PROVE  Runs(calls[i], scopes[Base + i])' = Runs(calls[i], scopes[Base + i])
    BY <2>1, <2>2, Zenon DEF Runs
  <2>5. ASSUME NEW i \in 1 .. Len(calls), NEW j \in 1 .. Len(calls)
        PROVE  Apart(calls[i], calls[j])' = Apart(calls[i], calls[j])
    BY <2>1, Zenon DEF Apart
  <2>6. Running'
    BY <2>1, <2>4, <2>5 DEF IInv, Running
  <2>7. Private'
    BY <2>1, <2>2 DEF IInv, Private
  <2> QED BY <2>3, <2>6, <2>7 DEF IInv
<1> QED BY <1>1, SpawnIInv, SendIInv, IncrementIInv, DropErrorIInv, FailIInv, AbortIInv,
           FinishIInv DEF Next

\* What a completed increment leaves in the state of its actor.
LEMMA FinishKeepsIncrement ==
  ASSUME IInv, Finish, Kind = "increment"
  PROVE  \A m \in handled' \ handled : m \in instances'[Receiver]
<1>1. /\ flow = "run" /\ InHandler /\ Top.assigned
      /\ handled' = handled \union {Top.message}
      /\ instances' = [instances EXCEPT ![Receiver] = Updated]
  BY SMTT(30) DEF Finish
<1>2. /\ Top.message \in scopes[Len(scopes)][Field]
      /\ Updated = scopes[Len(scopes)][Field]
      /\ Receiver \in Spawned
  BY <1>1, TopFacts DEF Runs, Field, Receiver
<1>3. instances'[Receiver] = Updated
  BY <1>1, <1>2 DEF Spawned
<1> QED BY <1>1, <1>2, <1>3

\* A step of the interpreter is, to the actors, one message handled, an actor
\* spawned, or nothing.
AtomicVars == <<Promised(instances, [a \in {} |-> {}]), Promised(handled, {}),
                Promised(answer, {})>>

LEMMA InitAtomic == Init => Atomic!Init
BY DEF Init, Atomic!Init, Promised

LEMMA StepAtomic ==
  ASSUME IInv, [Next]_vars
  PROVE  Atomic!Next \/ UNCHANGED AtomicVars
<1>1. reentrant' = reentrant
  BY DEF Next, vars, Spawn, Send, Increment, DropError, Fail, Abort, Finish
<1>2. CASE reentrant
  BY <1>1, <1>2 DEF AtomicVars, Promised
<1>3. CASE ~reentrant
  <2>1. CASE Spawn
    <3>1. PICK a \in Actors \ Spawned :
            instances' = [b \in Spawned \union {a} |-> IF b = a THEN {} ELSE instances[b]]
      BY <2>1 DEF Spawn
    <3>2. Atomic!Spawn(a)
      BY <1>1, <1>3, <2>1, <3>1 DEF Spawn, Spawned, Atomic!Spawn, Promised
    <3> QED BY <3>2 DEF Atomic!Next
  <2>2. CASE Send \/ Increment \/ DropError \/ Fail \/ Abort \/ UNCHANGED vars
    <3>1. UNCHANGED <<instances, handled, answer>>
      BY <2>2 DEF Send, Increment, DropError, Fail, Abort, vars
    <3> QED BY <1>1, <3>1 DEF AtomicVars, Promised
  <2>3. CASE Finish
    <3> DEFINE m == Top.message
               value == scopes[Len(scopes)][Field]
    <3>1. /\ flow = "run" /\ InHandler
          /\ answer' = IF Kind = "get" THEN Lookup(Field) ELSE answer
          /\ instances' = [instances EXCEPT ![Receiver] = Updated]
          /\ handled' = handled \union {m}
          /\ Kind = "increment" => Top.assigned
      BY <2>3, SMTT(30) DEF Finish
    <3>2. /\ m \in 1 .. Len(sent) /\ m \notin handled /\ Receiver \in Spawned
          /\ Top \in Call
          /\ Updated = value /\ Lookup(Field) = value
          /\ Top.assigned => Kind = "increment"
          /\ value = instances[Receiver] \union (IF Top.assigned THEN {m} ELSE {})
      BY <1>3, <3>1, TopFacts DEF Runs, Field, Receiver, Kind
    <3>3. m \in Messages /\ Kind \in Kinds
      BY <3>2, Facts DEF IInv, Call, Kind
    <3>4. instances \in [Spawned -> Values]
      BY DEF IInv, Typed
    <3> HIDE DEF value, m
    <3>5. CASE Kind = "increment"
      <4>1. /\ handled' = handled \union {m} /\ m \notin handled
            /\ instances' = [instances EXCEPT ![Receiver] = @ \union {m}]
            /\ answer' = answer
        BY <3>1, <3>2, <3>5 DEF m
      <4>2. Atomic!Increment(Receiver, m)
        BY <1>1, <1>3, <4>1 DEF Atomic!Increment, Atomic!Handle, Promised
      <4>3. Receiver \in DOMAIN Promised(instances, [a \in {} |-> {}])
        BY <1>3, <3>2 DEF Promised, Spawned
      <4> QED BY <3>3, <4>2, <4>3 DEF Atomic!Next
    <3>6. CASE Kind = "get"
      <4>1. Updated = instances[Receiver] /\ Lookup(Field) = instances[Receiver]
        BY <3>2, <3>6
      <4>2. /\ handled' = handled \union {m} /\ m \notin handled
            /\ instances' = instances
            /\ answer' = instances[Receiver]
        BY <3>1, <3>2, <3>4, <3>6, <4>1 DEF m
      <4>3. Atomic!Get(Receiver, m)
        BY <1>1, <1>3, <4>2 DEF Atomic!Get, Atomic!Handle, Promised
      <4>4. Receiver \in DOMAIN Promised(instances, [a \in {} |-> {}])
        BY <1>3, <3>2 DEF Promised, Spawned
      <4> QED BY <3>3, <4>3, <4>4 DEF Atomic!Next
    <3> QED BY <3>3, <3>5, <3>6 DEF Kinds
  <2> QED BY <2>1, <2>2, <2>3 DEF Next
<1> QED BY <1>2, <1>3 DEF Promised

-----------------------------------------------------------------------------
(* Theorems.  A handler that drops an error goes on with the scopes that   *)
(* the error leaked, of other actors too, on top of its own: nothing below *)
(* holds of such programs.                                                 *)

\* As long as handlers drop no errors, an actor's state is made only of what
\* was sent to it, even if actors send to themselves through others and
\* whatever main drops: eval_actor_message writes back the scope it pushed.
THEOREM ActorsPrivateState ==
  ASSUME "handler" \notin Droppers
  PROVE  Spec => []PrivateState
<1>1. IInv => PrivateState
  BY DEF IInv, Typed, Private, PrivateState
<1>2. IInv /\ [Next]_vars => IInv'
  BY StepIInv
<1> QED BY <1>1, <1>2, InitIInv, PTL DEF Spec

\* A handler that completes an increment leaves it in the state it writes back,
\* whatever its nested messages did, to the same actor too.
THEOREM ActorsOwnIncrementKept ==
  ASSUME "handler" \notin Droppers
  PROVE  Spec => OwnIncrementKept
<1>1. IInv /\ [Next]_vars => IInv'
  BY StepIInv
<1>2. IInv /\ [Next]_vars =>
        [\A m \in handled' \ handled :
           Kind = "increment" => m \in instances'[Receiver]]_vars
  <2> SUFFICES ASSUME IInv, [Next]_vars
               PROVE  \A m \in handled' \ handled :
                        Kind = "increment" => m \in instances'[Receiver]
    OBVIOUS
  <2>1. CASE Finish
    BY <2>1, FinishKeepsIncrement
  <2>2. CASE ~Finish
    <3>1. handled' = handled
      BY <2>2 DEF Next, vars, Spawn, Send, Increment, DropError, Fail, Abort
    <3> QED BY <3>1
  <2> QED BY <2>1, <2>2
<1> QED BY <1>1, <1>2, InitIInv, PTL DEF Spec, OwnIncrementKept

\* As long as handlers drop no errors and reach no actor that waits below them,
\* the interpreter implements actors that handle one message at a time: nested
\* handlers, copies of the fields, write-backs and errors cannot be told from
\* it.
THEOREM ActorsAtomicMessages ==
  ASSUME "handler" \notin Droppers
  PROVE  Spec => AtomicMessages
<1>1. IInv /\ [Next]_vars => IInv'
  BY StepIInv
<1>2. IInv /\ [Next]_vars => [Atomic!Next]_AtomicVars
  BY StepAtomic
<1> QED BY <1>1, <1>2, InitIInv, InitAtomic, PTL
        DEF Spec, AtomicMessages, Atomic!Spec, AtomicVars
=============================================================================
