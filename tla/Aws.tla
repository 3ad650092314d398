-------------------------------- MODULE Aws --------------------------------
(***************************************************************************)
(* The AWS provider: two binaries with a discovery each, of which a run    *)
(* takes one (main.rs and identity_center/main.rs); the other rests.       *)
(***************************************************************************)
EXTENDS IdentityCenter, AwsIam

VARIABLE binary

AwsInit ==
  /\ Init /\ IamInit
  /\ binary \in {"iam", "identity-center"} /\ (binary = "iam" => ~organizations)

RunsIam == binary = "iam" /\ IamNext /\ UNCHANGED <<binary, vars>>

RunsIdentityCenter == binary = "identity-center" /\ Next /\ UNCHANGED <<binary, iamVars>>

AwsNext == RunsIam \/ RunsIdentityCenter

AwsSpec == AwsInit /\ [][AwsNext]_<<binary, vars, iamVars>>

\* The variables of both binaries keep their types: whatever a listing repeats, each
\* binary stays within its pages and its rows, and what it has resolved within the
\* rows it was charged for.
TypesOK == TypeOK /\ IamTypeOK

=============================================================================
