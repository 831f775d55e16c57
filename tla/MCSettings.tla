------------------------------ MODULE MCSettings ------------------------------
EXTENDS Settings, TLC
MCFiles == {("network" :> "testnet11") @@ ("schema" :> "old"), ("backend.kind" :> "gateway") @@ ("server.api_key" :> "other")}
MCFlags == {<<>>, "backend.kind" :> "llamacpp"}
=============================================================================
