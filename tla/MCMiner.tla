---- MODULE MCMiner ----
EXTENDS RulesMiner
\* Settings that lack nothing, with up to two of them otherwise.
TwoChanges(full, options) ==
  LET One(s) == {[s EXCEPT ![o[1]] = o[2]] : o \in options}
  IN {full} \cup One(full) \cup UNION {One(s) : s \in One(full)}
FullMiner == [network |-> "testnet-12", rpc |-> <<>>, bond |-> "bond", pay_address |-> "address", key_path |-> "own", producer_key_path |-> "producer",
              checkpoint |-> [daa |-> 1, hash |-> "hash"], class |-> "PALW-QWEN25-A16-8K", artifact |-> "file", state_dir |-> None,
              accept_unverified |-> "UNVERIFIED_REMOTE", verify_headers |-> TRUE, remote_miner_path |-> None, attempt_exec_path |-> "mine"]
MCMinerSettings == TwoChanges(FullMiner,
  {<<"network", "testnet-11">>, <<"rpc", <<"n1">>>>, <<"rpc", <<"n1", "n2">>>>, <<"bond", Unfilled>>, <<"bond", None>>, <<"pay_address", None>>,
   <<"key_path", None>>, <<"producer_key_path", None>>, <<"checkpoint", NoCheckpoint>>, <<"checkpoint", [daa |-> 1, hash |-> "short"]>>,
   <<"checkpoint", [daa |-> 2, hash |-> "HASH"]>>, <<"class", Unfilled>>, <<"class", "QWEN36">>, <<"artifact", None>>, <<"state_dir", "mine">>,
   <<"accept_unverified", None>>, <<"accept_unverified", "yes">>, <<"attempt_exec_path", None>>})
Read(network, daa, sink) == [reachable |-> TRUE, network |-> network, daa |-> daa, sink |-> sink]
Reads == {Unreachable, Read("testnet-12", 0, "hash"), Read("testnet-12", 12, None), Read("testnet-12", 13, "fork"), Read("testnet-12", -1, "hash"), Read(None, 5, "hash")}
MCNodeReads == {<<a, b>> : a, b \in Reads}
MCPrograms == {[beside |-> {"palw-remote-miner"}, path |-> {}, files |-> {"mine"}], [beside |-> {}, path |-> {"palw-remote-miner", "palw-attempt-exec"}, files |-> {}],
               [beside |-> {"palw-attempt-exec"}, path |-> {}, files |-> {"mine"}]}
Blocks == {<<>>, [x \in {"hash"} |-> 1], [x \in {"hash", "fork"} |-> 2]}
MCHeld == {<<a, b>> : a, b \in Blocks}
Line(e, d) == [event |-> e, detail |-> d]
MCMinerLines == BoundedSeq({Line("mode", "m"), Line("draw-lost", None), Line("published", "b"), Line("halt", "r"), Line("halt", None), Line("carrier", "c"), Line(None, "x"), Line("fatal", "f")}, 4)
FullStack == [network |-> "testnet-12", misaka_rpc |-> None, producer_key_path |-> "producer", fp_artifact |-> None, fp_tokenizer |-> None, fp_bond |-> None,
              evidence_provider |-> None, fp_accept |-> TRUE, listen |-> "here"]
MCStackSettings == TwoChanges(FullStack,
  {<<"network", "testnet-11">>, <<"misaka_rpc", Unfilled>>, <<"misaka_rpc", "mine">>, <<"producer_key_path", None>>, <<"fp_artifact", "mine">>,
   <<"fp_tokenizer", "mine">>, <<"fp_bond", "bond">>, <<"fp_bond", Unfilled>>, <<"evidence_provider", Unfilled>>, <<"evidence_provider", "mine">>, <<"fp_accept", FALSE>>})
Frame == [kind : {"json"}, id : {1, 2}, error : BOOLEAN, params : {7, 8}] \cup {[kind |-> "ping", id |-> 1, error |-> FALSE, params |-> 9]}
MCFrames == BoundedSeq(Frame, 3)
MCUtxos == BoundedSeq([coinbase : BOOLEAN, daa : {0, 1, 3}, amount : {1, 4}], 2)
MCTables == {GENESIS_CLASSES, TESTNET11_CLASSES}
====
