------------------------------ MODULE Reproductions ------------------------------
(***************************************************************************)
(* The workflow kinds of a single step whose session retains a fresh             *)
(* reproduction of it, or the proof of it.  For each kind: its step, the programs  *)
(* verified around a call, what inspection can tell of the data, what _validate     *)
(* compares on a step, on the reproduction and on the receipt, and the stages of     *)
(* create_session and replay_session.                                             *)
(***************************************************************************)
EXTENDS Chains

Reproducing(steps, upstream, verified, inprocess, checks, create, replay) ==
  [steps |-> steps, upstream |-> upstream, verified |-> verified, verifier |-> {},
   inprocess |-> inprocess, reads |-> "never", native |-> "native" \in checks,
   checks |-> checks, create |-> create, replay |-> replay]

StepContents == {"requests", "refs", "envelopes"}
SameAs == {"about"}        \* the data is checked against the request
AllOver == {"recomputed"}  \* ... by computing it
Declaring(roles) == <<Step(roles, {}, {0}, {}, Wrapped)>>
Selecting(roles) == <<Step(roles, {Up}, {0, Up}, {}, Wrapped)>>

(***************************************************************************)
(* SRA assesses a declared schematic, or SCR runs a declared heat field.          *)
(***************************************************************************)
DeclaredSteps == Declaring({"native"})
DeclaredVerified == {"native"}
DeclaredData == SameAs
DeclaredStepChecks == StepContents \cup DeclaredData
DeclaredProof == {"subject", "reproduced", "fresh"}
DeclaredChecks == DeclaredStepChecks \cup DeclaredProof
DeclaredExecute == <<"execute", "reproduce", "attest", "validate">>
DeclaredCreate == <<"bind">> \o DeclaredExecute
DeclaredReplay == <<"inspect", "bind">> \o DeclaredExecute \o <<"match", "receipt">>
DeclaredWork == Reproducing(DeclaredSteps, "none", DeclaredVerified, {}, DeclaredChecks, DeclaredCreate, DeclaredReplay)

(***************************************************************************)
(* Kinds of the same shape.                                                     *)
(***************************************************************************)
\* GTE projects points on a circle.
CircleSteps == Declaring({"gte"})
CircleData == SameAs
CircleStepChecks == StepContents \cup CircleData
CircleChecks == CircleStepChecks \cup DeclaredProof
Circle == Reproducing(CircleSteps, "none", {"gte"}, {}, CircleChecks, DeclaredCreate, DeclaredReplay)

\* CSE reads one quantity of a building model.
BimSteps == Declaring({"cse"})
BimData == SameAs
BimStepChecks == StepContents \cup BimData
Bim == Reproducing(BimSteps, "none", {"cse"}, {}, BimStepChecks \cup DeclaredProof, DeclaredCreate, DeclaredReplay)

\* PPDA, with its vendored package, acquires from snapshots; inspection does it again.
AcquisitionSteps == Declaring({"ppda", "vendor"})
AcquisitionVerified == {"ppda", "vendor"}
AcquisitionData == AllOver
AcquisitionStepChecks == StepContents \cup AcquisitionData
AcquisitionChecks == AcquisitionStepChecks \cup DeclaredProof
Acquisition == Reproducing(AcquisitionSteps, "none", AcquisitionVerified, {}, AcquisitionChecks, DeclaredCreate, DeclaredReplay)

\* FTR or CGT computes geodesics that are known in closed form.
GeodesicSteps == Declaring({"geodesic"})
GeodesicVerified == {"geodesic"}
GeodesicData == SameAs
GeodesicStepChecks == StepContents \cup GeodesicData
GeodesicProof == DeclaredProof
GeodesicReceipts == {"receipt", "receipt_subject", "receipt_proof"}
GeodesicChecks == GeodesicStepChecks \cup GeodesicProof \cup GeodesicReceipts
Geodesic == Reproducing(GeodesicSteps, "none", GeodesicVerified, {}, GeodesicChecks, DeclaredCreate, DeclaredReplay)

\* CGGT, ISGT or TSDE, with what inspection accepts of the geodesic kinds.
GeometrySteps == Declaring({"geometry"})
GeometryVerified == {"geometry"}
GeometryData == SameAs
GeometryStepChecks == StepContents \cup GeometryData
Geometry == Reproducing(GeometrySteps, "none", GeometryVerified, {}, GeometryStepChecks \cup GeodesicProof \cup GeodesicReceipts,
                        DeclaredCreate, DeclaredReplay)

(***************************************************************************)
(* SCR's heat field in a proved guest: the prover computes it a second time, the  *)
(* verifier compares, and the proof is retained in the result.                     *)
(***************************************************************************)
\* The executables run from private copies of the bytes that were bound.
ProvedSteps == Declaring({"scr"})
ProvedVerified == {"scr"}
ProvedData == SameAs
ProvedStepChecks == StepContents \cup ProvedData
ProvedReport == {"subject"}
ProvedReceipts == {"receipt", "receipt_subject", "receipt_proof"}
ProvedChecks == ProvedStepChecks \cup ProvedReport \cup ProvedReceipts
ProvedInvoke == <<"execute", "rerun", "compare">>
ProvedExecute == ProvedInvoke \o <<"verify", "validate">>
ProvedCreate == <<"bind">> \o ProvedExecute
ProvedReplay == <<"inspect", "bind">> \o ProvedExecute \o <<"match", "receipt", "validate">>
Proved == Reproducing(ProvedSteps, "none", ProvedVerified, {}, ProvedChecks, ProvedCreate, ProvedReplay)

(***************************************************************************)
(* Steps on retained sessions which the source names.                             *)
(***************************************************************************)
\* PLSR on a model and a state of a retained design.
StabilitySteps == Selecting({"plsr"})
StabilityVerified == {"plsr"}
StabilityData == SameAs
StabilityStepChecks == StepContents \cup StabilityData
StabilityUpstream == {"selected"}
StabilityReceipts == {"receipt", "receipt_subject", "receipt_proof"}
StabilityChecks == StabilityStepChecks \cup DeclaredProof \cup StabilityUpstream \cup StabilityReceipts
StabilityExecute == <<"select", "execute", "reproduce", "attest", "validate">>
StabilityCreate == <<"select", "bind", "execute", "reproduce", "attest", "validate">>
StabilityReplay == <<"inspect", "bind">> \o StabilityExecute \o <<"match", "receipt", "validate">>
Stability == Reproducing(StabilitySteps, "selected", StabilityVerified, {}, StabilityChecks, StabilityCreate, StabilityReplay)

\* SRA, JSPT and PLSR on the schematic of a retained assessment.
CompanionSteps == Selecting({"sra", "jspt", "plsr"})
CompanionVerified == {"sra", "jspt", "plsr"}
CompanionData == SameAs
CompanionStepChecks == StepContents \cup CompanionData
CompanionUpstream == {"selected"}
CompanionProof == {"subject", "reproduced", "fresh", "native"}
CompanionChecks == CompanionStepChecks \cup CompanionUpstream \cup CompanionProof
CompanionExecute == <<"select", "execute", "reproduce", "attest", "validate">>
CompanionCreate == <<"bind">> \o CompanionExecute
CompanionReplay == <<"inspect", "bind">> \o CompanionExecute \o <<"match", "receipt">>
Companion == Reproducing(CompanionSteps, "selected", CompanionVerified, {}, CompanionChecks, CompanionCreate, CompanionReplay)

\* FDIR and OIT on the innovations of retained windows.
ResidualSteps == Selecting({"fdir", "oit"})
ResidualVerified == {"fdir", "oit"}
ResidualOracle == AllOver
ResidualStepChecks == StepContents \cup ResidualOracle
ResidualUpstream == {"selected"}
ResidualProof == DeclaredProof
ResidualChecks == ResidualStepChecks \cup ResidualUpstream \cup ResidualProof
ResidualExecute == <<"select", "execute", "reproduce", "attest", "validate">>
ResidualCreate == <<"select", "bind">> \o Tail(ResidualExecute)
ResidualReplay == <<"inspect", "bind">> \o ResidualExecute \o <<"match", "receipt">>
Residual == Reproducing(ResidualSteps, "selected", ResidualVerified, {}, ResidualChecks, ResidualCreate, ResidualReplay)

(***************************************************************************)
(* Several programs in one step.                                                *)
(***************************************************************************)
\* RCI, FSRT and JSPT in a native workspace of their own.
ChainSteps == Declaring({"rci", "fsrt", "jspt"})
ChainVerified == {"rci", "fsrt", "jspt"}
ChainData == SameAs
ChainStepChecks == StepContents \cup ChainData
ChainRuntimes == {"ran"}
ChainProof == {"subject", "reproduced", "fresh", "native"}
ChainChecks == ChainStepChecks \cup ChainRuntimes \cup ChainProof
Chain == Reproducing(ChainSteps, "none", ChainVerified, {}, ChainChecks, DeclaredCreate, DeclaredReplay)

\* CSG, GSIE and PLSR stages around the workbench's own mathematics.
FreeEnergySteps == Declaring({"csg", "gsie", "plsr", "workbench"})
FreeEnergyVerified == {"csg", "gsie", "plsr", "workbench"}
FreeEnergyData == SameAs
FreeEnergyStepChecks == StepContents \cup FreeEnergyData
FreeEnergyProof == {"subject", "reproduced", "fresh", "native"}
FreeEnergyReceipts == {"receipt", "receipt_subject", "receipt_proof"}
FreeEnergyChecks == FreeEnergyStepChecks \cup FreeEnergyProof \cup FreeEnergyReceipts
FreeEnergy == Reproducing(FreeEnergySteps, "none", FreeEnergyVerified, {"workbench"}, FreeEnergyChecks, DeclaredCreate, DeclaredReplay)

\* The worker reports its own files; nothing looks at the executable again.
JuliaSteps == <<Step({"worker", "julia"}, {}, {0}, {}, {"result"})>>
JuliaVerified == {"worker"}
JuliaData == SameAs
JuliaStepChecks == StepContents \cup {"declared"} \cup JuliaData
JuliaProof == {"subject", "reproduced"}
JuliaReceipts == {"receipt"}
JuliaChecks == JuliaStepChecks \cup JuliaProof \cup JuliaReceipts
JuliaExecute == <<"execute", "reproduce", "attest", "validate">>
JuliaCreate == <<"bind">> \o JuliaExecute
JuliaReplay == <<"inspect", "bind">> \o JuliaExecute \o <<"match", "receipt", "validate">>
Julia == Reproducing(JuliaSteps, "none", JuliaVerified, {}, JuliaChecks, JuliaCreate, JuliaReplay)

(***************************************************************************)
(* Computations of this process.                                                *)
(***************************************************************************)
ThermalSteps == Declaring({"thermal"})
ThermalVerified == {}   \* the files are read when the adapter is made
ThermalData == SameAs
ThermalStepChecks == StepContents \cup ThermalData
ThermalProof == {"subject", "reproduced", "fresh"}
ThermalReceipts == {"receipt", "receipt_subject", "receipt_run"}
ThermalChecks == ThermalStepChecks \cup ThermalProof \cup ThermalReceipts
ThermalExecute == <<"execute", "reproduce", "attest", "validate">>
ThermalCreate == <<"bind">> \o ThermalExecute
ThermalReplay == <<"inspect", "bind">> \o ThermalExecute \o <<"match", "receipt", "validate">>
Thermal == Reproducing(ThermalSteps, "none", ThermalVerified, {"thermal"}, ThermalChecks, ThermalCreate, ThermalReplay)

MachineSteps == Declaring({"machine"})
MachineVerified == {}
MachineData == AllOver
MachineStepChecks == StepContents \cup MachineData
MachineProof == {"subject", "reproduced", "fresh"}
MachineReceipts == {"receipt", "receipt_subject", "receipt_run"}
MachineChecks == MachineStepChecks \cup MachineProof \cup MachineReceipts
MachineExecute == <<"execute", "reproduce", "attest", "validate">>
MachineCreate == <<"bind">> \o MachineExecute
MachineReplay == <<"inspect", "bind">> \o MachineExecute \o <<"match", "receipt", "validate">>
Machine == Reproducing(MachineSteps, "none", MachineVerified, {"machine"}, MachineChecks, MachineCreate, MachineReplay)

EnergySteps == Declaring({"energy"})
EnergyVerified == {"energy"}
EnergyData == AllOver
EnergyStepChecks == StepContents \cup EnergyData
EnergyProof == {"subject", "reproduced", "fresh"}
EnergyReceipts == {"receipt", "receipt_subject", "receipt_proof"}
EnergyChecks == EnergyStepChecks \cup EnergyProof \cup EnergyReceipts
EnergyExecute == <<"execute", "reproduce", "attest", "validate">>
EnergyReplay == <<"inspect", "bind">> \o EnergyExecute \o <<"match", "receipt", "validate">>
Energy == Reproducing(EnergySteps, "none", EnergyVerified, {"energy"}, EnergyChecks, DeclaredCreate, EnergyReplay)
=============================================================================
