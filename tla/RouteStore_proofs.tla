------------------------- MODULE RouteStore_proofs --------------------------
(***************************************************************************)
(* Proofs about the registration of manifests and the validation of        *)
(* payloads (RouteStore), for every number of routes, callers, manifests   *)
(* and payload files: what the registry holds was signed, the deltas that  *)
(* reach the swap fit their manifest, an undisturbed call accepts exactly  *)
(* the file it was promised, a quarantine has a cause, and the registry    *)
(* implements RouteRegistry.                                               *)
(***************************************************************************)
EXTENDS RouteStore, WellFoundedInduction, TLAPS

Contents == Payloads \cup {Absent}
IdleCall == [step : {"idle"}]
RunningCall == [step : {"stat", "hash", "load"}, id : RouteIds, manifest : Manifests,
                seen : SUBSET Contents]
RejectedCall == [step : {"rejected"}, id : RouteIds, class : PayloadFailure,
                 manifest : Manifests, seen : SUBSET Contents]
AcceptedCall == [step : {"accepted"}, manifest : Manifests, content : Payloads,
                 undisturbed : BOOLEAN]
Call == IdleCall \cup RunningCall \cup RejectedCall \cup AcceptedCall

StoreType ==
    /\ payloadFile \in Contents
    /\ routes \in [RouteIds -> Manifests \cup {Absent}]
    /\ statuses \in [RouteIds -> {"ABSENT", "PRODUCTION", "REVOKED", "QUARANTINED"}]
    /\ call \in [Callers -> Call]

\* Both dictionaries of the registry have the same keys, and every manifest
\* in them was verified under its own id.
RegistryFacts ==
    \A id \in RouteIds :
        /\ statuses[id] = "ABSENT" <=> routes[id] = Absent
        /\ routes[id] # Absent => Verified(routes[id]) /\ routes[id].body.route_id = id

\* What a step of validate_payload knows about the file as long as it has not
\* been replaced since the call began.
RunningFacts(k) ==
    k.step \in {"stat", "hash", "load"} =>
        /\ Verified(k.manifest)
        /\ routes[k.id] # Absent
        /\ payloadFile \in k.seen
        /\ k.step \in {"hash", "load"} /\ k.seen = {payloadFile} =>
              payloadFile # Absent /\ payloadFile.size <= MaxPayloadBytes
        /\ k.step = "load" /\ k.seen = {payloadFile} =>
              k.manifest.body.payload.sha256 \in {NoHash, payloadFile}

HasCause(manifest, seen) ==
    \E content \in seen :
        \/ content = Absent
        \/ TensorFailure(manifest, content) # "none"
        \/ manifest.body.payload.sha256 \notin {NoHash, content}

RejectedFacts(k) ==
    k.step = "rejected" =>
        /\ Verified(k.manifest)
        /\ routes[k.id] # Absent
        /\ k.class # "payload_too_large" => HasCause(k.manifest, k.seen)

AcceptedFacts(k) ==
    k.step = "accepted" =>
        /\ Verified(k.manifest)
        /\ TensorFailure(k.manifest, k.content) = "none"
        /\ k.undisturbed =>
              /\ k.content.size <= MaxPayloadBytes
              /\ k.manifest.body.payload.sha256 \in {NoHash, k.content}

CallFacts(k) == RunningFacts(k) /\ RejectedFacts(k) /\ AcceptedFacts(k)

\* The inductive invariant.
StoreInv ==
    /\ StoreType
    /\ RegistryFacts
    /\ \A c \in Callers : CallFacts(call[c])

-----------------------------------------------------------------------------
(* Operators.                                                              *)

LEMMA SmallestIndex ==
    ASSUME NEW n \in Nat, NEW T \in SUBSET (1..n), T # {}
    PROVE  \E i \in T : \A j \in T : i <= j
<1> DEFINE less == OpToRel(<, Nat)
<1>1. less = {ss \in Nat \X Nat : ss[1] < ss[2]}
  BY DEF OpToRel
<1>2. IsWellFoundedOn(less, Nat)
  BY NatLessThanWellFounded
<1> HIDE DEF less
<1>3. PICK i \in T : \A j \in T : <<j, i>> \notin less
  <2>1. T \subseteq Nat
    OBVIOUS
  <2> QED
    BY <1>2, <2>1, WFMin
<1>4. ASSUME NEW j \in T  PROVE i <= j
  <2>1. i \in Nat /\ j \in Nat
    OBVIOUS
  <2>2. <<j, i>> \notin less
    BY <1>3
  <2> QED
    BY <1>1, <2>1, <2>2
<1> QED
  BY <1>4

LEMMA LargestIndex ==
    ASSUME NEW n \in Nat, NEW T \in SUBSET (1..n), T # {}
    PROVE  \E i \in T : \A j \in T : j <= i
<1> DEFINE U == {n + 1 - i : i \in T}
<1>1. U \in SUBSET (1..n) /\ U # {}
  <2>1. ASSUME NEW i \in T  PROVE n + 1 - i \in 1..n
    BY SMT
  <2> QED
    BY <2>1
<1>2. \E u \in U : \A v \in U : u <= v
  <2> HIDE DEF U
  <2> QED
    BY <1>1, SmallestIndex
<1>3. PICK i \in T : \A v \in U : n + 1 - i <= v
  BY <1>2
<1>4. ASSUME NEW j \in T  PROVE j <= i
  <2>1. n + 1 - i <= n + 1 - j
    BY <1>3
  <2>2. i \in Nat /\ j \in Nat
    OBVIOUS
  <2> QED
    BY <2>1, <2>2
<1> QED
  BY <1>4

\* The outcomes of the checks of one layer, and what it means to pass them.
LEMMA LayerOutcome ==
    ASSUME NEW spec, NEW tensors
    PROVE  /\ LayerFailure(spec, tensors) \in (PayloadFailure \ {"payload_too_large"}) \cup {"none"}
           /\ LayerFailure(spec, tensors) = "none" =>
                 LET delta == tensors[PayloadKey(spec)]
                 IN  /\ spec.shape \in {<<>>, delta.shape}
                     /\ spec.dtype \in {"", delta.dtype}
                     /\ delta.finite
  BY DEF LayerFailure, PayloadFailure

LEMMA TensorOutcome ==
    ASSUME NEW m \in Manifests, Verified(m), NEW content \in Contents
    PROVE  /\ TensorFailure(m, content) \in (PayloadFailure \ {"payload_too_large"}) \cup {"none"}
           /\ TensorFailure(m, content) = "none" =>
                 /\ content # Absent
                 /\ content.parse = "ok"
                 /\ \A i \in DOMAIN m.body.layers :
                       LayerFailure(m.body.layers[i], content.tensors) = "none"
<1>1. CASE content = Absent
  BY <1>1 DEF TensorFailure, PayloadFailure
<1>2. CASE content # Absent /\ content.parse # "ok"
  <2>1. content.parse \in {"payload_header_corrupted", "payload_io_error"}
    BY <1>2, StoreAssumption DEF Contents
  <2> QED
    BY <1>2, <2>1 DEF TensorFailure, PayloadFailure
<1>3. CASE content # Absent /\ content.parse = "ok"
  <2> DEFINE layers == m.body.layers
             failures == [i \in DOMAIN layers |-> LayerFailure(layers[i], content.tensors)]
             bad == {i \in DOMAIN failures : failures[i] # "none"}
             first == CHOOSE i \in bad : \A j \in bad : i <= j
  <2>1. TensorFailure(m, content) = IF bad = {} THEN "none" ELSE failures[first]
    BY <1>3 DEF TensorFailure
  <2>2. Len(layers) \in Nat /\ DOMAIN layers = 1..Len(layers)
    BY StoreAssumption DEF Verified
  <2>3. \A i \in DOMAIN layers :
           failures[i] \in (PayloadFailure \ {"payload_too_large"}) \cup {"none"}
    BY LayerOutcome
  <2>4. CASE bad = {}
    <3>1. \A i \in DOMAIN layers : LayerFailure(layers[i], content.tensors) = "none"
      BY <2>4
    <3>2. TensorFailure(m, content) = "none"
      BY <2>1, <2>4
    <3> HIDE DEF layers
    <3> QED
      BY <1>3, <3>1, <3>2 DEF layers
  <2>5. CASE bad # {}
    <3>1. bad \in SUBSET (1..Len(layers))
      BY <2>2
    <3>2. first \in bad
      <4> HIDE DEF bad, layers
      <4>1. \E i \in bad : \A j \in bad : i <= j
        BY <2>2, <2>5, <3>1, SmallestIndex
      <4> QED
        BY <4>1
    <3>3. failures[first] # "none" /\ first \in DOMAIN layers
      BY <3>2
    <3> QED
      BY <2>1, <2>3, <2>5, <3>3
  <2> QED
    BY <2>4, <2>5
<1> QED
  BY <1>1, <1>2, <1>3 DEF Contents

LEMMA PayloadScope ==
    ASSUME NEW class \in PayloadFailure
    PROVE  EvaluateFailure(class).scope = "ROUTE" => class # "payload_too_large"
  BY DEF EvaluateFailure, PayloadFailure, Verdict

\* A manifest that verifies is one that the registry's own signer would have
\* signed, with a permissive license and a verdict other than FAIL.
LEMMA VerifiedIsSigned ==
    ASSUME NEW m \in Manifests, Verified(m)
    PROVE  /\ \E k \in DOMAIN SecretKeys : m = Sign(m, k)
           /\ m.body.license \cap {"MIT", "APACHE", "BSD"} # {}
           /\ m.body.verdict \in {"PASS", "CAUTION"}
<1>1. /\ m = [body |-> m.body, signature |-> m.signature]
      /\ m.signature = [algorithm |-> m.signature.algorithm,
                        key_id |-> m.signature.key_id, value |-> m.signature.value]
      /\ m.body.verdict \in {"PASS", "CAUTION", "FAIL"}
  BY StoreAssumption DEF Verified, VerifySignature
<1>2. /\ m.signature.algorithm = "hmac-sha256"
      /\ m.signature.key_id \in DOMAIN SecretKeys
      /\ m.signature.value = Mac(m.signature.key_id, m)
  BY DEF Verified, VerifySignature
<1>3. m = Sign(m, m.signature.key_id)
  BY <1>1, <1>2 DEF Sign
<1>4. m.body.license \cap {"MIT", "APACHE", "BSD"} # {}
  <2>1. EvaluateLicenseRisk(m.body.license) = "ALLOW"
    BY DEF Verified
  <2>2. SUFFICES ASSUME m.body.license \cap {"MIT", "APACHE", "BSD"} = {}
                 PROVE  FALSE
    OBVIOUS
  <2>3. EvaluateLicenseRisk(m.body.license) \in {"DENY", "MANUAL_REVIEW"}
    BY <2>2 DEF EvaluateLicenseRisk
  <2> QED
    BY <2>1, <2>3
<1> QED
  BY <1>1, <1>2, <1>3, <1>4 DEF Verified

\* The deltas of a file that passed every check.
LEMMA DeltasFit ==
    ASSUME NEW m \in Manifests, Verified(m), NEW content \in Contents,
           TensorFailure(m, content) = "none",
           NEW i \in DOMAIN m.body.layers
    PROVE  LET spec == m.body.layers[i]
               deltas == Deltas(m, content)
           IN  /\ spec.name \in DOMAIN deltas
               /\ deltas[spec.name].finite
               /\ LastOfName(m.body.layers, i) =>
                     /\ spec.shape \in {<<>>, deltas[spec.name].shape}
                     /\ spec.dtype \in {"", deltas[spec.name].dtype}
<1> DEFINE layers == m.body.layers
           Same == {j \in DOMAIN layers : layers[j].name = layers[i].name}
           last == CHOOSE j \in DOMAIN layers :
                      layers[j].name = layers[i].name /\ LastOfName(layers, j)
<1>1. Len(layers) \in Nat /\ DOMAIN layers = 1..Len(layers)
  BY StoreAssumption DEF Verified
<1>2. \A j \in DOMAIN layers : LayerFailure(layers[j], content.tensors) = "none"
  BY TensorOutcome
<1>3. \E j \in DOMAIN layers : layers[j].name = layers[i].name /\ LastOfName(layers, j)
  <2>1. Same \in SUBSET (1..Len(layers)) /\ Same # {}
    BY <1>1
  <2>2. PICK j \in Same : \A l \in Same : l <= j
    <3> HIDE DEF Same
    <3> QED
      BY <1>1, <2>1, LargestIndex
  <2> QED
    BY <2>2 DEF LastOfName
<1>4. last \in DOMAIN layers /\ layers[last].name = layers[i].name /\ LastOfName(layers, last)
  BY <1>3
<1>5. LastOfName(layers, i) => last = i
  <2>1. i \in Nat /\ last \in Nat
    BY <1>1, <1>4
  <2>2. i <= last
    BY <1>4 DEF LastOfName
  <2>3. LastOfName(layers, i) => last <= i
    BY <1>4 DEF LastOfName
  <2> HIDE DEF last
  <2> QED
    BY <2>1, <2>2, <2>3
<1>6. /\ layers[i].name \in DOMAIN Deltas(m, content)
      /\ Deltas(m, content)[layers[i].name] = content.tensors[PayloadKey(layers[last])]
  BY DEF Deltas
<1>7. LayerFailure(layers[last], content.tensors) = "none"
  BY <1>2, <1>4
<1> HIDE DEF layers, last
<1> DEFINE delta == content.tensors[PayloadKey(layers[last])]
<1>8. /\ layers[last].shape \in {<<>>, delta.shape}
      /\ layers[last].dtype \in {"", delta.dtype}
      /\ delta.finite
  BY <1>7, LayerOutcome
<1> HIDE DEF delta
<1>9. Deltas(m, content)[layers[i].name] = delta
  BY <1>6 DEF delta
<1>10. LastOfName(layers, i) =>
          /\ layers[i].shape \in {<<>>, delta.shape}
          /\ layers[i].dtype \in {"", delta.dtype}
  BY <1>5, <1>8
<1> QED
  BY <1>6, <1>8, <1>9, <1>10 DEF layers

-----------------------------------------------------------------------------
(* The invariant.                                                          *)

LEMMA StoreInit == Init => StoreInv
<1> SUFFICES ASSUME Init PROVE StoreInv
  OBVIOUS
<1>1. StoreType
  BY DEF Init, StoreType, Contents, Call, IdleCall, NoCall
<1>2. RegistryFacts
  BY DEF Init, RegistryFacts
<1>3. ASSUME NEW c \in Callers  PROVE CallFacts(call[c])
  BY <1>3 DEF Init, NoCall, CallFacts, RunningFacts, RejectedFacts, AcceptedFacts
<1> QED
  BY <1>1, <1>2, <1>3 DEF StoreInv

\* A caller takes a step of its own: nobody else notices.
LEMMA OneCall ==
    ASSUME StoreInv, NEW c \in Callers, NEW k \in Call, CallFacts(k),
           call' = [call EXCEPT ![c] = k], UNCHANGED <<payloadFile, registry>>
    PROVE  StoreInv'
<1>1. StoreType'
  BY DEF StoreInv, StoreType, registry
<1>2. RegistryFacts'
  BY DEF StoreInv, RegistryFacts, registry
<1>3. ASSUME NEW d \in Callers  PROVE CallFacts(call[d])'
  <2>1. call'[d] = IF d = c THEN k ELSE call[d]
    BY DEF StoreInv, StoreType
  <2>2. CallFacts(call'[d])
    BY <2>1 DEF StoreInv
  <2> QED
    BY <2>2 DEF CallFacts, RunningFacts, RejectedFacts, AcceptedFacts, registry
<1> QED
  BY <1>1, <1>2, <1>3 DEF StoreInv

\* A failure that is not the size of the file leaves a cause behind.
LEMMA RejectStep ==
    ASSUME StoreInv, NEW c \in Callers, call[c] \in RunningCall,
           NEW class \in PayloadFailure, Reject(c, class),
           class # "payload_too_large" => HasCause(call[c].manifest, call[c].seen),
           UNCHANGED <<payloadFile, registry>>
    PROVE  StoreInv'
<1> DEFINE k == [step |-> "rejected", id |-> call[c].id, class |-> class,
                 manifest |-> call[c].manifest, seen |-> call[c].seen]
<1>1. k \in Call
  BY DEF Call, RunningCall, RejectedCall
<1>2. CallFacts(k)
  <2>1. RunningFacts(call[c])
    BY DEF StoreInv, CallFacts
  <2> QED
    BY <2>1 DEF RunningCall, CallFacts, RunningFacts, RejectedFacts, AcceptedFacts
<1>3. call' = [call EXCEPT ![c] = k]
  BY DEF Reject
<1> HIDE DEF k
<1> QED
  BY <1>1, <1>2, <1>3, OneCall

\* Going on needs the facts of the next step.
LEMMA GotoStepStep ==
    ASSUME StoreInv, NEW c \in Callers, call[c] \in RunningCall,
           NEW step \in {"hash", "load"}, GotoStep(c, step),
           call[c].seen = {payloadFile} =>
              payloadFile # Absent /\ payloadFile.size <= MaxPayloadBytes,
           step = "load" /\ call[c].seen = {payloadFile} =>
              call[c].manifest.body.payload.sha256 \in {NoHash, payloadFile},
           UNCHANGED <<payloadFile, registry>>
    PROVE  StoreInv'
<1> DEFINE k == [call[c] EXCEPT !.step = step]
<1>1. k \in RunningCall /\ k.step = step /\ k.id = call[c].id /\ k.seen = call[c].seen
      /\ k.manifest = call[c].manifest
  BY DEF RunningCall
<1>2. call' = [call EXCEPT ![c] = k]
  BY DEF GotoStep
<1> HIDE DEF k
<1>3. CallFacts(k)
  <2>1. RunningFacts(call[c])
    BY DEF StoreInv, CallFacts
  <2> QED
    BY <1>1, <2>1 DEF RunningCall, CallFacts, RunningFacts, RejectedFacts, AcceptedFacts
<1>4. k \in Call
  BY <1>1 DEF Call
<1> QED
  BY <1>2, <1>3, <1>4, OneCall

\* What a caller's record is, told by its step.
LEMMA CallKind ==
    ASSUME StoreInv, NEW c \in Callers
    PROVE  /\ call[c].step \in {"stat", "hash", "load"} => call[c] \in RunningCall
           /\ call[c].step = "rejected" => call[c] \in RejectedCall
           /\ call[c].step = "accepted" => call[c] \in AcceptedCall
           /\ call[c].step \in {"idle", "stat", "hash", "load", "rejected", "accepted"}
<1>1. call[c] \in Call
  BY DEF StoreInv, StoreType
<1> QED
  BY <1>1 DEF Call, IdleCall, RunningCall, RejectedCall, AcceptedCall

LEMMA ValidateStartStep ==
    ASSUME StoreInv, NEW c \in Callers, NEW id \in RouteIds, ValidateStart(c, id)
    PROVE  StoreInv'
<1>1. routes[id] \in Manifests /\ Verified(routes[id]) /\ routes[id] # Absent
  BY DEF ValidateStart, StoreInv, StoreType, RegistryFacts
<1>2. payloadFile \in Contents
  BY DEF StoreInv, StoreType
<1>3. CASE payloadFile = Absent
  <2> DEFINE k == [step |-> "rejected", id |-> id, class |-> "payload_file_not_found",
                   manifest |-> routes[id], seen |-> {Absent}]
  <2>1. k \in Call
    BY <1>1 DEF Call, RejectedCall, PayloadFailure, Contents
  <2>2. CallFacts(k)
    BY <1>1 DEF CallFacts, RunningFacts, RejectedFacts, AcceptedFacts, HasCause
  <2>3. call' = [call EXCEPT ![c] = k] /\ UNCHANGED <<payloadFile, registry>>
    BY <1>3 DEF ValidateStart
  <2> HIDE DEF k
  <2> QED
    BY <2>1, <2>2, <2>3, OneCall
<1>4. CASE payloadFile # Absent
  <2> DEFINE k == [step |-> "stat", id |-> id, manifest |-> routes[id],
                   seen |-> {payloadFile}]
  <2>1. k \in Call
    BY <1>1, <1>2 DEF Call, RunningCall
  <2>2. CallFacts(k)
    BY <1>1 DEF CallFacts, RunningFacts, RejectedFacts, AcceptedFacts
  <2>3. call' = [call EXCEPT ![c] = k] /\ UNCHANGED <<payloadFile, registry>>
    BY <1>4 DEF ValidateStart
  <2> HIDE DEF k
  <2> QED
    BY <2>1, <2>2, <2>3, OneCall
<1> QED
  BY <1>3, <1>4

LEMMA StatSizeStep ==
    ASSUME StoreInv, NEW c \in Callers, StatSize(c)
    PROVE  StoreInv'
<1>1. call[c].step = "stat" /\ call[c] \in RunningCall /\ UNCHANGED <<payloadFile, registry>>
  BY CallKind DEF StatSize
<1>2. RunningFacts(call[c])
  BY DEF StoreInv, CallFacts
<1>3. payloadFile \in call[c].seen
  BY <1>1, <1>2 DEF RunningFacts
<1>4. CASE payloadFile = Absent
  <2>1. Reject(c, "payload_io_error")
    BY <1>4 DEF StatSize
  <2>2. HasCause(call[c].manifest, call[c].seen)
    BY <1>3, <1>4 DEF HasCause
  <2>3. "payload_io_error" \in PayloadFailure
    BY DEF PayloadFailure
  <2> QED
    BY <1>1, <2>1, <2>2, <2>3, RejectStep
<1>5. CASE payloadFile # Absent /\ payloadFile.size > MaxPayloadBytes
  <2>1. Reject(c, "payload_too_large")
    BY <1>5 DEF StatSize
  <2>2. "payload_too_large" \in PayloadFailure
    BY DEF PayloadFailure
  <2> QED
    BY <1>1, <2>1, <2>2, RejectStep
<1>6. CASE payloadFile # Absent /\ ~(payloadFile.size > MaxPayloadBytes)
  <2>1. GotoStep(c, "hash")
    BY <1>6 DEF StatSize
  <2>2. payloadFile \in Payloads
    BY <1>6 DEF StoreInv, StoreType, Contents
  <2>3. payloadFile.size <= MaxPayloadBytes
    BY <1>6, <2>2, StoreAssumption
  <2> QED
    BY <1>1, <1>6, <2>1, <2>3, GotoStepStep
<1> QED
  BY <1>4, <1>5, <1>6

LEMMA CheckHashStep ==
    ASSUME StoreInv, NEW c \in Callers, CheckHash(c)
    PROVE  StoreInv'
<1> DEFINE expected == call[c].manifest.body.payload.sha256
<1>1. call[c].step = "hash" /\ call[c] \in RunningCall /\ UNCHANGED <<payloadFile, registry>>
  BY CallKind DEF CheckHash
<1>2. RunningFacts(call[c])
  BY DEF StoreInv, CallFacts
<1>3. /\ payloadFile \in call[c].seen
      /\ call[c].seen = {payloadFile} =>
            payloadFile # Absent /\ payloadFile.size <= MaxPayloadBytes
  BY <1>1, <1>2 DEF RunningFacts
<1>4. CASE expected # NoHash /\ payloadFile = Absent
  <2>1. Reject(c, "payload_io_error")
    BY <1>4 DEF CheckHash
  <2>2. HasCause(call[c].manifest, call[c].seen)
    BY <1>3, <1>4 DEF HasCause
  <2>3. "payload_io_error" \in PayloadFailure
    BY DEF PayloadFailure
  <2> QED
    BY <1>1, <2>1, <2>2, <2>3, RejectStep
<1>5. CASE expected # NoHash /\ payloadFile \notin {Absent, expected}
  <2>1. Reject(c, "payload_sha256_mismatch")
    BY <1>5 DEF CheckHash
  <2>2. HasCause(call[c].manifest, call[c].seen)
    BY <1>3, <1>5 DEF HasCause
  <2>3. "payload_sha256_mismatch" \in PayloadFailure
    BY DEF PayloadFailure
  <2> QED
    BY <1>1, <2>1, <2>2, <2>3, RejectStep
<1>6. CASE expected = NoHash \/ (payloadFile # Absent /\ payloadFile = expected)
  <2>1. GotoStep(c, "load")
    BY <1>6 DEF CheckHash
  <2> QED
    BY <1>1, <1>3, <1>6, <2>1, GotoStepStep
<1> QED
  BY <1>4, <1>5, <1>6

LEMMA LoadTensorsStep ==
    ASSUME StoreInv, NEW c \in Callers, LoadTensors(c)
    PROVE  StoreInv'
<1> DEFINE failure == TensorFailure(call[c].manifest, payloadFile)
<1>1. call[c].step = "load" /\ call[c] \in RunningCall /\ UNCHANGED <<payloadFile, registry>>
  BY CallKind DEF LoadTensors
<1>2. RunningFacts(call[c])
  BY DEF StoreInv, CallFacts
<1>3. /\ payloadFile \in call[c].seen /\ payloadFile \in Contents
      /\ call[c].manifest \in Manifests /\ Verified(call[c].manifest)
      /\ call[c].seen = {payloadFile} =>
            /\ payloadFile.size <= MaxPayloadBytes
            /\ call[c].manifest.body.payload.sha256 \in {NoHash, payloadFile}
  BY <1>1, <1>2 DEF RunningFacts, RunningCall, StoreInv, StoreType
<1>4. /\ failure \in (PayloadFailure \ {"payload_too_large"}) \cup {"none"}
      /\ failure = "none" => payloadFile # Absent
  BY <1>3, TensorOutcome
<1>5. CASE failure # "none"
  <2>1. Reject(c, failure)
    BY <1>5 DEF LoadTensors
  <2>2. HasCause(call[c].manifest, call[c].seen)
    BY <1>3, <1>5 DEF HasCause
  <2>3. failure \in PayloadFailure
    BY <1>4, <1>5
  <2> HIDE DEF failure
  <2> QED
    BY <1>1, <2>1, <2>2, <2>3, RejectStep
<1>6. CASE failure = "none"
  <2> DEFINE k == [step |-> "accepted", manifest |-> call[c].manifest,
                   content |-> payloadFile, undisturbed |-> call[c].seen = {payloadFile}]
  <2>1. k \in Call
    BY <1>3, <1>4, <1>6 DEF Call, AcceptedCall, Contents
  <2>2. CallFacts(k)
    BY <1>3, <1>6 DEF CallFacts, RunningFacts, RejectedFacts, AcceptedFacts
  <2>3. call' = [call EXCEPT ![c] = k]
    BY <1>6 DEF LoadTensors
  <2> HIDE DEF k
  <2> QED
    BY <1>1, <2>1, <2>2, <2>3, OneCall
<1> QED
  BY <1>5, <1>6

LEMMA ApplyVerdictStep ==
    ASSUME StoreInv, NEW c \in Callers, ApplyVerdict(c)
    PROVE  StoreInv'
<1>1. call[c] \in RejectedCall /\ routes[call[c].id] # Absent
  BY CallKind DEF ApplyVerdict, StoreInv, CallFacts, RejectedFacts
<1>2. call' = [call EXCEPT ![c] = NoCall] /\ UNCHANGED <<payloadFile, routes>>
  BY DEF ApplyVerdict
<1>3. statuses' = statuses \/ statuses' = [statuses EXCEPT ![call[c].id] = "QUARANTINED"]
  BY DEF ApplyVerdict
<1>4. StoreType'
  BY <1>1, <1>2, <1>3 DEF StoreInv, StoreType, NoCall, Call, IdleCall
<1>5. RegistryFacts'
  BY <1>1, <1>2, <1>3 DEF RejectedCall, StoreInv, StoreType, RegistryFacts
<1>6. ASSUME NEW d \in Callers  PROVE CallFacts(call[d])'
  <2>1. call'[d] = IF d = c THEN NoCall ELSE call[d]
    BY <1>2 DEF StoreInv, StoreType
  <2>2. CallFacts(call'[d])
    BY <2>1 DEF StoreInv, NoCall, CallFacts, RunningFacts, RejectedFacts, AcceptedFacts
  <2> QED
    BY <1>2, <2>2 DEF CallFacts, RunningFacts, RejectedFacts, AcceptedFacts
<1> QED
  BY <1>4, <1>5, <1>6 DEF StoreInv

LEMMA WritePayloadStep ==
    ASSUME StoreInv, NEW content \in Contents, WritePayload(content)
    PROVE  StoreInv'
<1>1. payloadFile' = content /\ UNCHANGED <<routes, statuses>>
  BY DEF WritePayload, registry
<1>2. ASSUME NEW c \in Callers, call[c].step \in {"stat", "hash", "load"}
      PROVE  /\ call'[c] \in RunningCall
             /\ call'[c].step = call[c].step /\ call'[c].id = call[c].id
             /\ call'[c].manifest = call[c].manifest
             /\ call'[c].seen = call[c].seen \cup {content}
  <2>1. call[c] \in RunningCall
    BY <1>2, CallKind
  <2>2. call'[c] = [call[c] EXCEPT !.seen = call[c].seen \cup {content}]
    BY <1>2 DEF WritePayload
  <2> QED
    BY <2>1, <2>2 DEF RunningCall
<1>3. ASSUME NEW c \in Callers, call[c].step \notin {"stat", "hash", "load"}
      PROVE  call'[c] = call[c]
  BY <1>3 DEF WritePayload
<1>4. StoreType'
  <2>1. ASSUME NEW c \in Callers  PROVE call'[c] \in Call
    BY <1>2, <1>3 DEF Call, StoreInv, StoreType
  <2>2. call' = [c \in Callers |-> call'[c]]
    BY DEF WritePayload
  <2>3. call' \in [Callers -> Call]
    BY <2>1, <2>2
  <2> QED
    BY <1>1, <2>3 DEF StoreInv, StoreType
<1>5. RegistryFacts'
  BY <1>1 DEF StoreInv, RegistryFacts
<1>6. ASSUME NEW c \in Callers  PROVE CallFacts(call[c])'
  <2>1. CallFacts(call[c])
    BY DEF StoreInv
  <2>2. CASE call[c].step \notin {"stat", "hash", "load"}
    BY <1>1, <1>3, <2>1, <2>2 DEF CallFacts, RunningFacts, RejectedFacts, AcceptedFacts
  <2>3. CASE call[c].step \in {"stat", "hash", "load"}
    <3>1. RunningFacts(call[c])
      BY <2>1 DEF CallFacts
    <3>2. call'[c].seen = {content} => call[c].seen = {payloadFile} /\ payloadFile = content
      <4>1. payloadFile \in call[c].seen
        BY <2>3, <3>1 DEF RunningFacts
      <4> QED
        BY <1>2, <2>3, <4>1
    <3>3. RunningFacts(call[c])'
      BY <1>1, <1>2, <2>3, <3>1, <3>2 DEF RunningFacts
    <3> QED
      BY <1>2, <2>3, <3>3 DEF CallFacts, RejectedFacts, AcceptedFacts
  <2> QED
    BY <2>2, <2>3
<1> QED
  BY <1>4, <1>5, <1>6 DEF StoreInv

LEMMA RegisterRouteStep ==
    ASSUME StoreInv, NEW m \in Manifests, RegisterRoute(m)
    PROVE  StoreInv'
<1> DEFINE id == m.body.route_id
<1>1. /\ Verified(m) /\ id \in RouteIds /\ m # Absent
      /\ routes' = [routes EXCEPT ![id] = m]
      /\ statuses' = [statuses EXCEPT ![id] = "PRODUCTION"]
      /\ UNCHANGED <<payloadFile, call>>
  BY StoreAssumption DEF RegisterRoute
<1> HIDE DEF id
<1>2. StoreType'
  BY <1>1 DEF StoreInv, StoreType
<1>3. RegistryFacts'
  BY <1>1 DEF StoreInv, StoreType, RegistryFacts, id
<1>4. \A r \in RouteIds : routes[r] # Absent => routes'[r] # Absent
  BY <1>1 DEF StoreInv, StoreType
<1>5. ASSUME NEW c \in Callers  PROVE CallFacts(call[c])'
  <2>1. CallFacts(call[c]) /\ call'[c] = call[c]
    BY <1>1 DEF StoreInv
  <2>2. call[c].step \in {"stat", "hash", "load", "rejected"} => call[c].id \in RouteIds
    BY CallKind DEF RunningCall, RejectedCall
  <2> QED
    BY <1>1, <1>4, <2>1, <2>2 DEF CallFacts, RunningFacts, RejectedFacts, AcceptedFacts
<1> QED
  BY <1>2, <1>3, <1>5 DEF StoreInv

LEMMA RevokeRouteStep ==
    ASSUME StoreInv, NEW id \in RouteIds, RevokeRoute(id)
    PROVE  StoreInv'
<1>1. StoreType'
  BY DEF RevokeRoute, StoreInv, StoreType
<1>2. RegistryFacts'
  BY DEF RevokeRoute, StoreInv, StoreType, RegistryFacts
<1>3. \A c \in Callers : CallFacts(call[c])'
  BY DEF RevokeRoute, StoreInv, CallFacts, RunningFacts, RejectedFacts, AcceptedFacts
<1> QED
  BY <1>1, <1>2, <1>3 DEF StoreInv

LEMMA StoreStep == StoreInv /\ [Next]_vars => StoreInv'
<1> SUFFICES ASSUME StoreInv, [Next]_vars PROVE StoreInv'
  OBVIOUS
<1>1. ASSUME NEW content \in Payloads \cup {Absent}, WritePayload(content)  PROVE StoreInv'
  BY <1>1, WritePayloadStep DEF Contents
<1>2. ASSUME NEW m \in Manifests, RegisterRoute(m)  PROVE StoreInv'
  BY <1>2, RegisterRouteStep
<1>3. ASSUME NEW id \in RouteIds, RevokeRoute(id)  PROVE StoreInv'
  BY <1>3, RevokeRouteStep
<1>4. ASSUME NEW c \in Callers, CallStep(c)  PROVE StoreInv'
  BY <1>4, ValidateStartStep, StatSizeStep, CheckHashStep, LoadTensorsStep, ApplyVerdictStep
     DEF CallStep
<1>5. CASE UNCHANGED vars
  BY <1>5 DEF vars, StoreInv, StoreType, RegistryFacts, CallFacts, RunningFacts,
              RejectedFacts, AcceptedFacts
<1> QED
  BY <1>1, <1>2, <1>3, <1>4, <1>5 DEF Next

\* The invariant holds always: the two dictionaries of the registry agree and
\* hold verified manifests (register_route), and each call of validate_payload
\* knows about its file what its steps so far have checked.
THEOREM StoreInvariance == Spec => []StoreInv
  BY StoreInit, StoreStep, PTL DEF Spec

-----------------------------------------------------------------------------
(* The properties.                                                         *)

\* Whatever register_route leaves in the registry was signed with one of its
\* secrets, id and content included, and passed the license and quality
\* policies, however the files change.
THEOREM RegistryIsSigned == Spec => []RegistryHoldsSigned
<1>1. StoreInv => RegistryHoldsSigned
  <2> SUFFICES ASSUME StoreInv PROVE RegistryHoldsSigned
    OBVIOUS
  <2>1. ASSUME NEW c \in Callers
        PROVE  /\ call[c].step \in {"idle", "stat", "hash", "load", "accepted", "rejected"}
               /\ call[c].step = "rejected" => call[c].class \in PayloadFailure
    BY CallKind DEF RejectedCall
  <2>2. TypeOK
    BY <2>1 DEF StoreInv, StoreType, Contents, TypeOK
  <2>3. ASSUME NEW id \in RouteIds, routes[id] # Absent
        PROVE  /\ \E k \in DOMAIN SecretKeys : routes[id] = Sign(routes[id], k)
               /\ routes[id].body.route_id = id
               /\ routes[id].body.license \cap {"MIT", "APACHE", "BSD"} # {}
               /\ routes[id].body.verdict \in {"PASS", "CAUTION"}
    <3>1. routes[id] \in Manifests /\ Verified(routes[id]) /\ routes[id].body.route_id = id
      BY <2>3 DEF StoreInv, StoreType, RegistryFacts
    <3> QED
      BY <3>1, VerifiedIsSigned
  <2> QED
    BY <2>2, <2>3 DEF RegistryHoldsSigned
<1> QED
  BY <1>1, StoreInvariance, PTL

\* Deltas that validate_payload hands to the swap have finite values and the
\* shape and dtype of their layer, although the file may be replaced between
\* any two of its steps.
THEOREM DeltasAreWellFormed == Spec => []DeltasWellFormed
<1>1. StoreInv => DeltasWellFormed
  <2> SUFFICES ASSUME StoreInv, NEW c \in Callers, call[c].step = "accepted",
                      NEW i \in DOMAIN call[c].manifest.body.layers
               PROVE  LET spec == call[c].manifest.body.layers[i]
                          deltas == Deltas(call[c].manifest, call[c].content)
                      IN  /\ spec.name \in DOMAIN deltas
                          /\ deltas[spec.name].finite
                          /\ LastOfName(call[c].manifest.body.layers, i) =>
                                /\ spec.shape \in {<<>>, deltas[spec.name].shape}
                                /\ spec.dtype \in {"", deltas[spec.name].dtype}
    BY DEF DeltasWellFormed
  <2>1. call[c].manifest \in Manifests /\ call[c].content \in Contents
    BY CallKind DEF AcceptedCall, Contents
  <2>2. Verified(call[c].manifest) /\ TensorFailure(call[c].manifest, call[c].content) = "none"
    BY DEF StoreInv, CallFacts, AcceptedFacts
  <2> QED
    BY <2>1, <2>2, DeltasFit
<1> QED
  BY <1>1, StoreInvariance, PTL

\* A call of validate_payload that ran while nobody touched the file accepts
\* only a file within the limit and, where the manifest gives a hash, the very
\* file it names, which load_payload_deltas would accept as well.
THEOREM UndisturbedIsExact == Spec => []UndisturbedPayloadExact
<1>1. StoreInv => UndisturbedPayloadExact
  <2> SUFFICES ASSUME StoreInv, NEW c \in Callers,
                      call[c].step = "accepted", call[c].undisturbed
               PROVE  /\ call[c].content.size <= MaxPayloadBytes
                      /\ call[c].manifest.body.payload.sha256 # NoHash =>
                            /\ call[c].content = call[c].manifest.body.payload.sha256
                            /\ LoaderAccepts(call[c].manifest, call[c].content)
    BY DEF UndisturbedPayloadExact
  <2>1. call[c].manifest \in Manifests /\ call[c].content \in Contents
    BY CallKind DEF AcceptedCall, Contents
  <2>2. /\ Verified(call[c].manifest)
        /\ TensorFailure(call[c].manifest, call[c].content) = "none"
        /\ call[c].content.size <= MaxPayloadBytes
        /\ call[c].manifest.body.payload.sha256 \in {NoHash, call[c].content}
    BY DEF StoreInv, CallFacts, AcceptedFacts
  <2> QED
    BY <2>1, <2>2, TensorOutcome DEF LoaderAccepts
<1> QED
  BY <1>1, StoreInvariance, PTL

\* _apply_verdict quarantines a route only for a file that was missing,
\* unreadable or not what the route's manifest says while the call looked.
THEOREM QuarantineIsCaused == Spec => QuarantineHasCause
<1> DEFINE Caused(id) ==
        \E c \in Callers :
            /\ call[c].step = "rejected" /\ call[c].id = id
            /\ HasCause(call[c].manifest, call[c].seen)
<1>1. StoreInv /\ [Next]_vars =>
         \A id \in RouteIds :
            statuses[id] # "QUARANTINED" /\ statuses'[id] = "QUARANTINED" => Caused(id)
  <2> SUFFICES ASSUME StoreInv, [Next]_vars, NEW id \in RouteIds,
                      statuses[id] # "QUARANTINED", statuses'[id] = "QUARANTINED"
               PROVE  Caused(id)
    OBVIOUS
  <2>0. statuses \in [RouteIds -> {"ABSENT", "PRODUCTION", "REVOKED", "QUARANTINED"}]
    BY DEF StoreInv, StoreType
  <2>1. ASSUME NEW c \in Callers, ApplyVerdict(c)  PROVE Caused(id)
    <3>1. call[c].step = "rejected" /\ call[c] \in RejectedCall
      BY <2>1, CallKind DEF ApplyVerdict
    <3>2. EvaluateFailure(call[c].class).scope = "ROUTE" /\ call[c].id = id
      BY <2>0, <2>1 DEF ApplyVerdict
    <3>3. call[c].class # "payload_too_large"
      BY <3>1, <3>2, PayloadScope DEF RejectedCall
    <3>4. HasCause(call[c].manifest, call[c].seen)
      BY <3>1, <3>3 DEF StoreInv, CallFacts, RejectedFacts
    <3> QED
      BY <3>1, <3>2, <3>4
  <2>2. ASSUME NEW m \in Manifests, RegisterRoute(m)  PROVE FALSE
    BY <2>0, <2>2 DEF RegisterRoute
  <2>3. ASSUME NEW r \in RouteIds, RevokeRoute(r)  PROVE FALSE
    BY <2>0, <2>3 DEF RevokeRoute
  <2>4. statuses' # statuses
    OBVIOUS
  <2> QED
    BY <2>1, <2>2, <2>3, <2>4
       DEF Next, CallStep, ValidateStart, StatSize, CheckHash, LoadTensors, WritePayload,
           registry, vars
<1>2. StoreInv /\ [Next]_vars =>
         [\A id \in RouteIds :
             statuses[id] # "QUARANTINED" /\ statuses'[id] = "QUARANTINED" => Caused(id)]_vars
  BY <1>1
<1> QED
  BY <1>2, StoreInvariance, PTL DEF Spec, QuarantineHasCause, HasCause

\* The registry of manifests implements the registry of statuses that the
\* models of the runtime, the window and the pilot server are built on:
\* register_route, revoke_route and the quarantine of _apply_verdict are its
\* steps, everything else leaves it alone.
THEOREM RegistryRefinement == Spec => ImplementsRegistry
<1>1. Init => Abstract!RegistryInit
  BY DEF Init, Abstract!RegistryInit
<1>2. StoreInv /\ [Next]_vars => [Abstract!RegistryNext]_statuses
  <2> SUFFICES ASSUME StoreInv, [Next]_vars, statuses' # statuses
               PROVE  Abstract!RegistryNext
    OBVIOUS
  <2>1. ASSUME NEW m \in Manifests, RegisterRoute(m)  PROVE Abstract!RegistryNext
    <3>1. m.body.route_id \in RouteIds /\ Verified(m)
      BY <2>1, StoreAssumption DEF RegisterRoute
    <3>2. Abstract!RegisterRoute(m.body.route_id)
      BY <2>1, <3>1 DEF RegisterRoute, Abstract!RegisterRoute
    <3> QED
      BY <3>1, <3>2 DEF Abstract!RegistryNext
  <2>2. ASSUME NEW r \in RouteIds, RevokeRoute(r)  PROVE Abstract!RegistryNext
    BY <2>2 DEF RevokeRoute, StoreInv, RegistryFacts, Abstract!RegistryNext,
                Abstract!RevokeRoute
  <2>3. ASSUME NEW c \in Callers, ApplyVerdict(c)  PROVE Abstract!RegistryNext
    <3>1. call[c] \in RejectedCall /\ routes[call[c].id] # Absent
      BY <2>3, CallKind DEF ApplyVerdict, StoreInv, CallFacts, RejectedFacts
    <3>2. call[c].id \in RouteIds /\ statuses[call[c].id] # "ABSENT"
      BY <3>1 DEF RejectedCall, StoreInv, RegistryFacts
    <3>3. statuses' = [statuses EXCEPT ![call[c].id] = "QUARANTINED"]
      BY <2>3 DEF ApplyVerdict
    <3> QED
      BY <3>2, <3>3 DEF Abstract!RegistryNext, Abstract!QuarantineRoute
  <2> QED
    BY <2>1, <2>2, <2>3
       DEF Next, CallStep, ValidateStart, StatSize, CheckHash, LoadTensors, WritePayload,
           registry, vars
<1> QED
  BY <1>1, <1>2, StoreInvariance, PTL DEF Spec, ImplementsRegistry, Abstract!RegistrySpec

=============================================================================
