---------------------------- MODULE MCSemantics ----------------------------
(* What becomes of a policy and of a packet, step by step from the         *)
(* manifest to the verdict, one module at a time: the compiler, ipBlock    *)
(* expansion, the rule keys of the kernel, packet parsing, the verdict.    *)
(* The modules share no state here; `part' says which one runs, the others *)
(* stay in one initial state.                                              *)
EXTENDS MCPolicyCompiler, MCIPBlocks, MCPacketParser, MCPacketDecision, MCRuleKeys

VARIABLE part

Runs(p) == part = p /\ part' = p

\* One initial state of each part, for while another one runs.
AnyPolicies == policies = << >> /\ CompilerInit
AnySkb == (skb = CHOOSE s \in MCSkbs : TRUE) /\ ParserInit
AnyPolicySet == (policy = CHOOSE s \in MCPolicySets : TRUE) /\ VerdictInit

MCInit ==
  \/ part = "compiler" /\ BlocksInit /\ AnySkb /\ AnyPolicySet /\ KeysInit /\ CompilerInit
  \/ part = "blocks" /\ AnyPolicies /\ AnySkb /\ AnyPolicySet /\ KeysInit /\ BlocksInit
  \/ part = "parser" /\ AnyPolicies /\ BlocksInit /\ AnyPolicySet /\ KeysInit /\ ParserInit
  \/ part = "verdict" /\ AnyPolicies /\ BlocksInit /\ AnySkb /\ KeysInit /\ VerdictInit
  \/ part = "keys" /\ AnyPolicies /\ BlocksInit /\ AnySkb /\ AnyPolicySet /\ KeysInit

MCNext ==
  \/ Runs("compiler") /\ CompilerNext
       /\ UNCHANGED <<blocksVars, parserVars, verdictVars, keysVars>>
  \/ Runs("blocks") /\ BlocksNext
       /\ UNCHANGED <<compilerVars, parserVars, verdictVars, keysVars>>
  \/ Runs("parser") /\ ParserNext
       /\ UNCHANGED <<compilerVars, blocksVars, verdictVars, keysVars>>
  \/ Runs("verdict") /\ VerdictNext
       /\ UNCHANGED <<compilerVars, blocksVars, parserVars, keysVars>>
  \/ Runs("keys") /\ KeysNext
       /\ UNCHANGED <<compilerVars, blocksVars, parserVars, verdictVars>>

MCSpec ==
  MCInit /\ [][MCNext]_<<part, compilerVars, blocksVars, parserVars, verdictVars, keysVars>>

(* The properties are those of the modules and hold of what has not begun, *)
(* too.                                                                    *)
=============================================================================
