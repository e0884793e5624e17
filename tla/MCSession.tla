----------------------------- MODULE MCSession -----------------------------
(* Model checking of Session: two Dags, one of them built by the caller,   *)
(* and texts that contain what the examples ask for.                       *)
EXTENDS Session

MCPara == {{"nodes", "params", "sig", "exe"}, {"encrypt", "decrypt"}}
MCCalls == {"compileDag", "genKeys", "encryptInput", "exeDag", "decryptOutput",
            "saveDag", "saveKeys", "loadDag", "loadKeys",
            "saveInput", "loadInput", "saveOutput", "loadOutput"}
=============================================================================
