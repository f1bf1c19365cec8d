------------------------------ MODULE MCServer ------------------------------
(* The instances of Chain, Inputs, Catalogue and Reads for TLC in one run.   *)
(* They share nothing, so a behaviour moves one of them and leaves the       *)
(* others as one of their initial states.                                    *)
EXTENDS MCChain, MCInputs, MCCatalogue, MCReads

VARIABLE subject

Alike == Symmetry \cup Permutations(Callers)

serverVars == <<subject, chainVars, inputVars, catalogueVars, readVars>>

TheChain == CHOOSE k \in Chains : TRUE
TheDeclaration == CHOOSE t \in Tools : TRUE
TheSetting == CHOOSE s \in Settings : s.filter
TheRead == CHOOSE c \in Ask(CHOOSE d \in Doors : TRUE) : TRUE

ChainAtRest ==
  /\ grants = Grants /\ run = [c \in Calls |-> [binding |-> TheChain, step |-> 1]]
  /\ ChainInit
InputsAtRest == tool = TheDeclaration /\ standing = "declared" /\ sent = {}
CatalogueAtRest == setting = TheSetting /\ met = {} /\ CatalogueInit
ReadsAtRest ==
  /\ call = TheRead /\ world = [class |-> TRUE, object |-> TRUE, rows |-> 0]
  /\ ReadsInit

ServerInit ==
  \/ subject = "chain" /\ ChainInit /\ InputsAtRest /\ CatalogueAtRest /\ ReadsAtRest
  \/ subject = "inputs" /\ ChainAtRest /\ InputsInit /\ CatalogueAtRest /\ ReadsAtRest
  \/ subject = "catalogue" /\ ChainAtRest /\ InputsAtRest /\ CatalogueInit /\ ReadsAtRest
  \/ subject = "reads" /\ ChainAtRest /\ InputsAtRest /\ CatalogueAtRest /\ ReadsInit

On(what) == subject = what /\ UNCHANGED subject

ServerNext ==
  \/ On("chain") /\ ChainNext /\ UNCHANGED <<inputVars, catalogueVars, readVars>>
  \/ On("inputs") /\ InputsNext /\ UNCHANGED <<chainVars, catalogueVars, readVars>>
  \/ On("catalogue") /\ CatalogueNext /\ UNCHANGED <<chainVars, inputVars, readVars>>
  \/ On("reads") /\ ReadsNext /\ UNCHANGED <<chainVars, inputVars, catalogueVars>>

ServerSpec == ServerInit /\ [][ServerNext]_serverVars
=============================================================================
