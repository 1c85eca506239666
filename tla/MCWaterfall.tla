----------------------------- MODULE MCWaterfall -----------------------------
(* Two parts of the composition act at a time; the confining part, the analyzer's
   command and the law alone. *)
EXTENDS Waterfall, TLC

CONSTANTS m1, m2, d1, d2

MCSlices == {{"exception", "acts"}, {"exception", "parts"}, {"acts", "parts"}, {"petition", "refusals"},
             {"petition", "parts"}, {"clock", "parts"}, {"sandbox"}, {"shell"},
             {"law"}}

MCRegister == {[clause |-> "CF-1", service |-> "compact-sandbox"],
               [clause |-> "CF-2", service |-> "compact-sandbox"],
               [clause |-> "R-2", service |-> "constitution"]}

MCClauses == {"CF-1", "CF-2", "R-2"}
MCSuspensions == {{"CF-1"}, {"CF-1", "R-2"}}
MCPaths == {<<"data">>, <<"data", "keys">>, <<"data", "lib">>, <<"gone">>}
MCDeciders == {d1, d2}
Alike == Permutations(MCDeciders)

MCWords == {";", "curl", "/curl", "nc", "git", "push", "status", "npm", "install", "command", "which",
            "sort", "env", "rm", "-v", "-o", "-d", "-T", "--json", "-D", "V=1", "url", "url-ip", "host", "ip",
            "80", ">f"}

MCExisting == {<<"data">>, <<"data", "keys">>, <<"data", "lib">>}
MCProtected == {<<"data", "keys">>}
=============================================================================
