---------------------------- MODULE MCHandover ----------------------------
\* Model checking of Handover with a program of two inputs.
EXTENDS Handover

MCHandle == {Server, Owner, Reader}
MCBuilder == {Server}
MCPara == {{"sig"}, {"params", "sig"}, {"exe"}, {"decrypt"}}
MCCalls == {"compileDag", "genKeys", "encryptInput", "exeDag", "decryptOutput",
            "saveDag", "saveKeys", "loadDag", "loadKeys",
            "saveInput", "loadInput", "saveOutput", "loadOutput"}
=============================================================================
