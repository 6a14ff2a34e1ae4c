----------------------------- MODULE RouteStore -----------------------------
(***************************************************************************)
(* The registration of route manifests and the validation of their         *)
(* payloads (neural_scalpel/route/registry.py, verifier.py, crypto.py,     *)
(* policy.py, payload_validator.py, payload.py) beside a publisher who     *)
(* rewrites the files.  A manifest is read and verified once, when it is   *)
(* registered; the payload file is read again, in several steps, by every  *)
(* call of infer.                                                          *)
(*                                                                         *)
(* HMAC and SHA-256 are taken to be injective: a signature is the pair of  *)
(* the secret and the signed content, a hash is the content.  A license    *)
(* name is the set of the markers it contains, a tensor its shape, its     *)
(* dtype and whether its values are finite.                                *)
(***************************************************************************)
EXTENDS FailurePolicy, Integers, SequencesExt

CONSTANTS RouteIds, Callers,
          Manifests,        \* the manifests that get written to the disk
          Payloads,         \* the contents of payload files
          SecretKeys,       \* secret_keys: key ids with their secrets
          MaxPayloadBytes,
          NoHash,           \* an empty sha256
          Absent            \* no file, no manifest, no payload block, no key

\* A file is a manifest only as far as json.load and the schema make it one:
\* the schema gives a valid manifest its list of layers and one of the three
\* verdicts, and a signature block its three fields.  load_file answers with
\* tensors or fails in one of the two ways that validate_payload tells apart.
ASSUME StoreAssumption ==
    /\ Absent \notin Manifests \cup Payloads
    /\ \A m \in Manifests :
          /\ m = [body |-> m.body, signature |-> m.signature]
          /\ m.body.route_id \in RouteIds
          /\ m.signature # Absent =>
                m.signature = [algorithm |-> m.signature.algorithm,
                               key_id |-> m.signature.key_id, value |-> m.signature.value]
          /\ m.body.schema_valid =>
                /\ m.body.verdict \in {"PASS", "CAUTION", "FAIL"}
                /\ Len(m.body.layers) \in Nat
                /\ DOMAIN m.body.layers = 1..Len(m.body.layers)
    /\ \A p \in Payloads :
          /\ p.parse \in {"ok", "payload_header_corrupted", "payload_io_error"}
          /\ p.size \in Nat
    /\ MaxPayloadBytes \in Nat

VARIABLES
    payloadFile,     \* what is on the disk at the payload's path
    routes,          \* registry.routes
    statuses,        \* registry.statuses
    call             \* the validation a caller is in

vars == <<payloadFile, routes, statuses, call>>
registry == <<routes, statuses>>

-----------------------------------------------------------------------------
(* Signatures.                                                             *)

\* hmac over _canonicalize, which drops the signature block.
Mac(keyId, manifest) == <<SecretKeys[keyId], manifest.body>>

Sign(manifest, keyId) ==
    [manifest EXCEPT !.signature =
        [algorithm |-> "hmac-sha256", key_id |-> keyId, value |-> Mac(keyId, manifest)]]

\* Mutant: the signature is compared, but not with what was signed.
VerifySignature_AnyContent(manifest) ==
    LET block == manifest.signature
    IN  /\ block # Absent
        /\ block.key_id \in DOMAIN SecretKeys
        /\ block.value[1] = SecretKeys[block.key_id]

VerifySignature(manifest) ==
    LET block == manifest.signature
    IN  /\ block # Absent
        /\ block.algorithm = "hmac-sha256"
        /\ block.key_id \in DOMAIN SecretKeys
        /\ block.value = Mac(block.key_id, manifest)

-----------------------------------------------------------------------------
(* Registration.                                                           *)

\* The permissive markers are looked for first, so a name with both kinds is
\* allowed.
EvaluateLicenseRisk(markers) ==
    CASE markers \cap {"MIT", "APACHE", "BSD"} # {}        -> "ALLOW"
      [] markers \cap {"MIT", "APACHE", "BSD"} = {}
            /\ markers \cap {"GPL", "AGPL", "CC-BY-NC-SA"} # {} -> "DENY"
      [] OTHER                                             -> "MANUAL_REVIEW"

\* verify_schema and verify_hash are one fact of the manifest's body each.
Verified(manifest) ==
    /\ manifest.body.schema_valid
    /\ manifest.body.hashes_valid
    /\ VerifySignature(manifest)
    /\ EvaluateLicenseRisk(manifest.body.license) = "ALLOW"
    /\ manifest.body.verdict # "FAIL"

\* Mutant: the old entry is dropped before the new manifest is verified.
RegisterRoute_DropsFirst(manifest) ==
    /\ LET id == manifest.body.route_id
       IN  IF Verified(manifest)
             THEN /\ routes' = [routes EXCEPT ![id] = manifest]
                  /\ statuses' = [statuses EXCEPT ![id] = "PRODUCTION"]
             ELSE /\ routes' = [routes EXCEPT ![id] = Absent]
                  /\ statuses' = [statuses EXCEPT ![id] = "ABSENT"]
    /\ UNCHANGED <<payloadFile, call>>

\* The file at the path holds `manifest` when it is read.  A manifest that
\* does not verify raises and changes nothing.
RegisterRoute(manifest) ==
    /\ Verified(manifest)
    /\ LET id == manifest.body.route_id
       IN  /\ routes' = [routes EXCEPT ![id] = manifest]
           /\ statuses' = [statuses EXCEPT ![id] = "PRODUCTION"]
    /\ UNCHANGED <<payloadFile, call>>

RevokeRoute(id) ==
    /\ routes[id] # Absent
    /\ statuses' = [statuses EXCEPT ![id] = "REVOKED"]
    /\ UNCHANGED <<payloadFile, routes, call>>

-----------------------------------------------------------------------------
(* Payloads.                                                               *)

\* The file that the payload block names; Absent without a block or a uri.
HasPayload(manifest) ==
    manifest.body.payload # Absent /\ manifest.body.payload.uri # ""

\* payload_key, which defaults to the name of the layer.
PayloadKey(spec) == IF spec.payload_key = Absent THEN spec.name ELSE spec.payload_key

\* Steps 5 to 8 for one layer; "none" when the layer passes.  An empty shape
\* or dtype, which the schema allows, is not compared.
LayerFailure(spec, tensors) ==
    LET delta == tensors[PayloadKey(spec)]
    IN  IF PayloadKey(spec) \notin DOMAIN tensors THEN "payload_tensor_key_missing"
        ELSE IF spec.shape \notin {<<>>, delta.shape} THEN "payload_shape_mismatch"
        ELSE IF spec.dtype \notin {"", delta.dtype} THEN "payload_dtype_mismatch"
        ELSE IF ~delta.finite THEN "payload_nan_inf_detected"
        ELSE "none"

\* Step 4 to 8 over a file that was read: the class of the first failure.
TensorFailure(manifest, content) ==
    IF content = Absent THEN "payload_io_error"
    ELSE IF content.parse # "ok" THEN content.parse
    ELSE LET failures == [i \in DOMAIN manifest.body.layers |->
                             LayerFailure(manifest.body.layers[i], content.tensors)]
             bad == {i \in DOMAIN failures : failures[i] # "none"}
         IN  IF bad = {} THEN "none"
             ELSE failures[CHOOSE i \in bad : \A j \in bad : i <= j]

LastOfName(layers, i) ==
    \A j \in DOMAIN layers : layers[j].name = layers[i].name => j <= i

\* The deltas by the name of their layer; the last layer of a name wins.
Deltas(manifest, content) ==
    LET layers == manifest.body.layers
    IN  [name \in {layers[i].name : i \in DOMAIN layers} |->
            LET last == CHOOSE i \in DOMAIN layers :
                           layers[i].name = name /\ LastOfName(layers, i)
            IN  content.tensors[PayloadKey(layers[last])]]

\* load_payload_deltas, which apply_swap uses when it was handed no deltas:
\* neither the size nor the values are looked at, an empty sha256 is compared.
LoaderAccepts(manifest, content) ==
    /\ content # Absent
    /\ manifest.body.payload.sha256 = content
    /\ content.parse = "ok"
    /\ \A i \in DOMAIN manifest.body.layers :
          LayerFailure(manifest.body.layers[i], content.tensors)
             \in {"none", "payload_nan_inf_detected"}

-----------------------------------------------------------------------------
(* validate_payload, one step per access to the file.                      *)

NoCall == [step |-> "idle"]

\* infer fetches the manifest of a route that is not revoked and enters
\* validate_payload, which finds the file or not.
ValidateStart(c, id) ==
    /\ call[c].step \in {"idle", "accepted"}
    /\ routes[id] # Absent
    /\ statuses[id] \notin {"REVOKED", "QUARANTINED"}
    /\ HasPayload(routes[id])
    /\ call' = [call EXCEPT ![c] =
          IF payloadFile = Absent
            THEN [step |-> "rejected", id |-> id, class |-> "payload_file_not_found",
                  manifest |-> routes[id], seen |-> {Absent}]
            ELSE [step |-> "stat", id |-> id, manifest |-> routes[id],
                  seen |-> {payloadFile}]]
    /\ UNCHANGED <<payloadFile, registry>>

Reject(c, class) ==
    call' = [call EXCEPT ![c] = [step |-> "rejected", id |-> call[c].id, class |-> class,
                                 manifest |-> call[c].manifest, seen |-> call[c].seen]]

GotoStep(c, step) == call' = [call EXCEPT ![c].step = step]

StatSize(c) ==
    /\ call[c].step = "stat"
    /\ CASE payloadFile = Absent -> Reject(c, "payload_io_error")
         [] payloadFile # Absent /\ payloadFile.size > MaxPayloadBytes
               -> Reject(c, "payload_too_large")
         [] OTHER -> GotoStep(c, "hash")
    /\ UNCHANGED <<payloadFile, registry>>

\* Mutant: the hash is only compared when the file was not replaced.
CheckHash_Skipped(c) ==
    /\ call[c].step = "hash"
    /\ IF payloadFile = Absent THEN Reject(c, "payload_io_error") ELSE GotoStep(c, "load")
    /\ UNCHANGED <<payloadFile, registry>>

\* An empty sha256, which the schema allows, is not compared.
CheckHash(c) ==
    /\ call[c].step = "hash"
    /\ LET expected == call[c].manifest.body.payload.sha256
       IN  CASE expected = NoHash -> GotoStep(c, "load")
             [] expected # NoHash /\ payloadFile = Absent -> Reject(c, "payload_io_error")
             [] expected # NoHash /\ payloadFile \notin {Absent, expected}
                   -> Reject(c, "payload_sha256_mismatch")
             [] OTHER -> GotoStep(c, "load")
    /\ UNCHANGED <<payloadFile, registry>>

\* Mutant: the tensors are taken as they are.
LoadTensors_Unchecked(c) ==
    /\ call[c].step = "load"
    /\ IF payloadFile = Absent \/ payloadFile.parse # "ok"
         THEN Reject(c, "payload_io_error")
         ELSE call' = [call EXCEPT ![c] =
                [step |-> "accepted", manifest |-> call[c].manifest, content |-> payloadFile,
                 undisturbed |-> call[c].seen = {payloadFile}]]
    /\ UNCHANGED <<payloadFile, registry>>

\* The file is read a second time, by load_file.
LoadTensors(c) ==
    /\ call[c].step = "load"
    /\ LET failure == TensorFailure(call[c].manifest, payloadFile)
       IN  IF failure # "none"
             THEN Reject(c, failure)
             ELSE call' = [call EXCEPT ![c] =
                    [step |-> "accepted", manifest |-> call[c].manifest, content |-> payloadFile,
                     undisturbed |-> call[c].seen = {payloadFile}]]
    /\ UNCHANGED <<payloadFile, registry>>

\* Mutant: every failure quarantines the route.
ApplyVerdict_Always(c) ==
    /\ call[c].step = "rejected"
    /\ statuses' = [statuses EXCEPT ![call[c].id] = "QUARANTINED"]
    /\ call' = [call EXCEPT ![c] = NoCall]
    /\ UNCHANGED <<payloadFile, routes>>

\* infer applies the verdict of the failure policy to the route by its id,
\* whatever has been registered under it meanwhile.
ApplyVerdict(c) ==
    /\ call[c].step = "rejected"
    /\ statuses' = IF EvaluateFailure(call[c].class).scope = "ROUTE"
                     THEN [statuses EXCEPT ![call[c].id] = "QUARANTINED"]
                     ELSE statuses
    /\ call' = [call EXCEPT ![c] = NoCall]
    /\ UNCHANGED <<payloadFile, routes>>

-----------------------------------------------------------------------------
(* The publisher, outside the process.                                     *)

\* A call remembers every content of the file that it could have seen.
WritePayload(content) ==
    /\ payloadFile' = content
    /\ call' = [c \in Callers |->
          IF call[c].step \in {"stat", "hash", "load"}
            THEN [call[c] EXCEPT !.seen = @ \cup {content}] ELSE call[c]]
    /\ UNCHANGED registry

Init ==
    /\ payloadFile \in Payloads \cup {Absent}
    /\ routes = [id \in RouteIds |-> Absent]
    /\ statuses = [id \in RouteIds |-> "ABSENT"]
    /\ call = [c \in Callers |-> NoCall]

CallStep(c) ==
    \/ \E id \in RouteIds : ValidateStart(c, id)
    \/ StatSize(c)
    \/ CheckHash(c)
    \/ LoadTensors(c)
    \/ ApplyVerdict(c)

Next ==
    \/ \E content \in Payloads \cup {Absent} : WritePayload(content)
    \/ \E manifest \in Manifests : RegisterRoute(manifest)
    \/ \E id \in RouteIds : RevokeRoute(id)
    \/ \E c \in Callers : CallStep(c)

Spec == Init /\ [][Next]_vars

-----------------------------------------------------------------------------
(* Properties.                                                             *)

TypeOK ==
    /\ payloadFile \in Payloads \cup {Absent}
    /\ routes \in [RouteIds -> Manifests \cup {Absent}]
    /\ statuses \in [RouteIds -> {"ABSENT", "PRODUCTION", "REVOKED", "QUARANTINED"}]
    /\ \A c \in Callers :
          /\ call[c].step \in {"idle", "stat", "hash", "load", "accepted", "rejected"}
          /\ call[c].step = "rejected" => call[c].class \in PayloadFailure

\* The state is well-formed, and whatever the registry holds under an id was
\* signed, content and id included, with one of the registry's own secrets and
\* passed the license and quality policy, however often the file on the disk
\* is rewritten before and after (register_route, RouteSigner.verify).
RegistryHoldsSigned ==
    /\ TypeOK
    /\ \A id \in RouteIds : routes[id] # Absent =>
          /\ \E k \in DOMAIN SecretKeys : routes[id] = Sign(routes[id], k)
          /\ routes[id].body.route_id = id
          /\ routes[id].body.license \cap {"MIT", "APACHE", "BSD"} # {}
          /\ routes[id].body.verdict \in {"PASS", "CAUTION"}

\* The registry that HotSwapRuntime, RouteWindow and PilotServer are built on,
\* with one fact per route for the outcome of its verification, is what this
\* one looks like from outside: a route becomes PRODUCTION only when one of
\* its manifests verifies, and is revoked or quarantined only while present.
Abstract == INSTANCE RouteRegistry WITH
    Routes <- RouteIds, Tenants <- {}, NoTenant <- Absent,
    RouteTenant <- [id \in RouteIds |-> Absent], Compatible <- RouteIds,
    Registrable <- {m.body.route_id : m \in {n \in Manifests : Verified(n)}}

ImplementsRegistry == Abstract!RegistrySpec

\* Deltas that are handed to the swap have finite values and the shape and
\* dtype that the manifest the call started with gives to the layer, to the
\* last one of a name that occurs twice, even when the file is replaced
\* between the checks (validate_payload, steps 4 to 8).
DeltasWellFormed ==
    \A c \in Callers : call[c].step = "accepted" =>
        LET layers == call[c].manifest.body.layers
            deltas == Deltas(call[c].manifest, call[c].content)
        IN  \A i \in DOMAIN layers :
               /\ layers[i].name \in DOMAIN deltas
               /\ deltas[layers[i].name].finite
               /\ LastOfName(layers, i) =>
                     /\ layers[i].shape \in {<<>>, deltas[layers[i].name].shape}
                     /\ layers[i].dtype \in {"", deltas[layers[i].name].dtype}

\* A call during which the file was left alone accepts only a file within
\* the limit and, when the manifest gives a hash, exactly the file it names,
\* and the second loader of the runtime would accept it, too.  (A file that
\* is replaced between the hash and the load is used without its hash having
\* been compared.)
UndisturbedPayloadExact ==
    \A c \in Callers :
        call[c].step = "accepted" /\ call[c].undisturbed =>
            LET manifest == call[c].manifest
            IN  /\ call[c].content.size <= MaxPayloadBytes
                /\ manifest.body.payload.sha256 # NoHash =>
                      /\ call[c].content = manifest.body.payload.sha256
                      /\ LoaderAccepts(manifest, call[c].content)

\* A route is quarantined by its payload only if some content of the file
\* during the call was missing, unreadable or not what its manifest says:
\* neither a payload that is merely too large nor another route's file takes
\* it out of service (validate_payload, _apply_verdict).
QuarantineHasCause ==
    [][\A id \in RouteIds :
          statuses[id] # "QUARANTINED" /\ statuses'[id] = "QUARANTINED" =>
             \E c \in Callers :
                 /\ call[c].step = "rejected" /\ call[c].id = id
                 /\ \E content \in call[c].seen :
                       \/ content = Absent
                       \/ TensorFailure(call[c].manifest, content) # "none"
                       \/ call[c].manifest.body.payload.sha256 \notin {NoHash, content}]_vars

=============================================================================
