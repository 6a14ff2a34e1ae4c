---------------------------- MODULE MC_RouteStore ----------------------------
(***************************************************************************)
(* A small instance of RouteStore: two routes, manifests that verify, that *)
(* were changed after they were signed, that carry a bad license or        *)
(* verdict or no hash, and payloads with one fault each.                   *)
(***************************************************************************)
EXTENDS RouteStore

CONSTANTS r1, r2, k1

MCSecretKeys == [k \in {k1} |-> "secret"]

Tensor == [shape |-> <<2, 2>>, dtype |-> "float16", finite |-> TRUE]
GoodPayload == [size |-> 1, parse |-> "ok", tensors |-> [key \in {"q", "v"} |-> Tensor]]
OtherPayload == [GoodPayload EXCEPT !.tensors["v"].shape = <<2, 3>>]
NanPayload == [GoodPayload EXCEPT !.tensors["v"].finite = FALSE]
CorruptPayload == [GoodPayload EXCEPT !.parse = "payload_header_corrupted"]
LargePayload == [GoodPayload EXCEPT !.size = 2]

MCPayloads == {GoodPayload, OtherPayload, NanPayload, LargePayload,
               CorruptPayload}

Layers ==
    <<[name |-> "q", payload_key |-> Absent, shape |-> <<2, 2>>, dtype |-> "float16"],
      [name |-> "o", payload_key |-> "v", shape |-> <<2, 2>>, dtype |-> "float16"]>>

Body(id, sha256) ==
    [route_id |-> id, schema_valid |-> TRUE, hashes_valid |-> TRUE,
     license |-> {"MIT", "GPL"}, verdict |-> "PASS", layers |-> Layers,
     payload |-> [uri |-> "file", sha256 |-> sha256]]

Unsigned(body) == [body |-> body, signature |-> Absent]
Good(id) == Sign(Unsigned(Body(id, GoodPayload)), k1)

MCManifests ==
    {Good(r1),
     Sign(Unsigned(Body(r1, LargePayload)), k1),                 \* names the large file
     Sign(Unsigned([Body(r2, NoHash) EXCEPT !.layers[2].name = "q",   \* no hash, and a name
                                            !.layers[2].shape = <<>>]), k1),  \* that occurs twice
     [Sign(Unsigned([Body(r1, GoodPayload) EXCEPT !.verdict = "FAIL"]), k1)
         EXCEPT !.body.verdict = "PASS"],                        \* changed after signing
     Sign(Unsigned([Body(r1, GoodPayload) EXCEPT !.verdict = "FAIL"]), k1),
     Sign(Unsigned([Body(r1, GoodPayload) EXCEPT !.license = {"GPL"}]), k1)}

=============================================================================
