--------------------------------- MODULE Chains ---------------------------------
(***************************************************************************)
(* The workflow kinds whose session is compared with a rerun of its whole chain  *)
(* under the same occurrences: pinned providers, each verified around its calls,   *)
(* and SET when it verifies the session.  For each kind: its steps, the programs    *)
(* a call verifies, when all of them are asked, what _validate compares, and the     *)
(* stages of create_session and replay_session.                                      *)
(***************************************************************************)
EXTENDS Lineage

Wrapped == {"result", "refs"}   \* a result in the workbench's own envelope
Exported == {"request", "result"}   \* the provider is told the occurrence and repeats it

Pinned(steps, upstream, verified, reads, checks, create, replay) ==
  [steps |-> steps, upstream |-> upstream, verified |-> verified, verifier |-> {"set"},
   inprocess |-> {}, reads |-> reads, native |-> FALSE,
   checks |-> checks, create |-> create, replay |-> replay]
RerunChecks == {"requests", "refs", "envelopes", "executions", "subject"}

(***************************************************************************)
(* Telemetry: every call also verifies SET; PPDA runs on checked bytes.           *)
(***************************************************************************)
TelemetryPpda == Step({"ppda", "set"}, {}, {0}, {}, {})
TelemetryStfe == Step({"stfe", "set"}, {1}, {1}, {1}, Exported)
TelemetryGsie == Step({"gsie", "set"}, {2}, {2}, {2}, Exported)
TelemetryCbsr == Step({"cbsr", "set"}, {3}, {3}, {3}, {"request", "unbound"})
TelemetrySteps == <<TelemetryPpda, TelemetryStfe, TelemetryGsie, TelemetryCbsr>>
TelemetryVerified == {"ppda", "stfe", "gsie", "cbsr", "set"}
TelemetryReads == "first"
TelemetryChecks == RerunChecks
TelemetryCreate == <<"bind", "execute", "validate", "rerun", "compare", "verify">>
TelemetryReplay == <<"inspect", "bind", "rerun", "compare", "execute", "match", "verify", "receipt">>
Telemetry == Pinned(TelemetrySteps, "none", TelemetryVerified, TelemetryReads, TelemetryChecks,
                    TelemetryCreate, TelemetryReplay)

(***************************************************************************)
(* A calibrated observable.                                                    *)
(***************************************************************************)
ObservableSteps ==
  <<Step({"fsrt"}, {}, {0}, {}, Exported),
    Step({"tbrt"}, {}, {1}, {}, Wrapped),
    Step({"mcur"}, {2}, {1, 2}, {}, Wrapped),
    Step({"oit"}, {}, {1, 3}, {}, Wrapped),
    Step({"gsie"}, {2, 3, 4}, {2, 3, 4}, {}, Wrapped),
    Step({"cbsr"}, {5}, {5}, {5}, Wrapped \cup {"request"}),
    Step({"fdir"}, {5, 6}, {5, 6}, {5, 6}, Wrapped)>>
ObservableVerified == {"fsrt", "tbrt", "mcur", "oit", "gsie", "cbsr", "fdir", "set"}
ObservableReads == "last"
ObservableChecks == RerunChecks
ObservableCreate == <<"bind", "execute", "validate", "rerun", "compare", "verify">>
ObservableReplay == <<"inspect", "bind", "rerun", "compare", "execute", "match", "verify", "receipt">>
Observable == Pinned(ObservableSteps, "none", ObservableVerified, ObservableReads, ObservableChecks,
                     ObservableCreate, ObservableReplay)

(***************************************************************************)
(* A calibrated window of observations.                                        *)
(***************************************************************************)
\* The uncertainty step is told the derivatives of the mapped samples.
WindowMcur == Step({"mcur"}, {1}, {0, 1}, {}, Wrapped)
WindowSteps ==
  <<Step({"tbrt"}, {}, {0}, {}, Wrapped),
    WindowMcur,
    Step({"stfe", "set"}, {1, 2}, {1, 2}, {2}, Exported),
    Step({"gsie", "set"}, {3}, {3}, {3}, Exported)>>
WindowVerified == {"tbrt", "mcur", "stfe", "gsie", "set"}
WindowReads == "first"
WindowChecks == RerunChecks
WindowCreate == <<"bind", "execute", "validate", "rerun", "compare", "verify">>
WindowReplay == <<"inspect", "bind", "rerun", "compare", "execute", "match", "verify", "receipt">>
Window == Pinned(WindowSteps, "none", WindowVerified, WindowReads, WindowChecks, WindowCreate, WindowReplay)

(***************************************************************************)
(* A calibrated window over records a retained acquisition selects: the source of *)
(* the chain is derived from the source and the acquisition.                       *)
(***************************************************************************)
Derived(step) ==
  [step EXCEPT !.data = @ \cup {Up}, !.refs = IF 0 \in @ THEN @ \cup {Up} ELSE @]
AcquiredSteps == [i \in DOMAIN WindowSteps |-> Derived(WindowSteps[i])]
AcquiredChecks == WindowChecks \cup {"selected"}
\* The child is verified; the session is validated when it is wrapped around the child.
AcquiredCreate == <<"select">> \o WindowCreate \o <<"validate">>
AcquiredReplay == WindowReplay \o <<"validate">>
Acquired == Pinned(AcquiredSteps, "selected", WindowVerified, WindowReads, AcquiredChecks,
                   AcquiredCreate, AcquiredReplay)

(***************************************************************************)
(* A design identified from a retained calibrated session, which is replayed       *)
(* before it is used.                                                             *)
(***************************************************************************)
DesignSidt == Step({"sidt"}, {}, {0, Up}, {}, Wrapped \cup {"request"})
DesignOit == Step({"oit"}, {1}, {0, 1}, {}, Wrapped)
DesignGsie == Step({"gsie"}, {1, Up}, {0, Up, 1, 2}, {}, Wrapped)
DesignEdspt == Step({"edspt"}, {1, 2, 3}, {0, 1, 2, 3}, {}, Wrapped)
DesignYwir == Step({"ywir"}, {4}, {0, 4}, {}, Wrapped)
DesignSteps == <<DesignSidt, DesignOit, DesignGsie, DesignEdspt, DesignYwir>>
DesignVerified == {"sidt", "oit", "gsie", "edspt", "ywir", "set"}
DesignReads == "last"
DesignData == {"about"}
DesignPair == {"paired"}
DesignReceipts == {"receipt", "receipt_subject"}
DesignChecks == RerunChecks \cup DesignData \cup DesignPair \cup DesignReceipts
DesignCreate == <<"bind", "upstream", "execute", "validate", "rerun", "compare", "verify">>
DesignReplay ==
  <<"inspect", "bind", "upstream", "rerun", "compare", "execute", "match", "verify", "receipt">>
Design == Pinned(DesignSteps, "replayed", DesignVerified, DesignReads, DesignChecks, DesignCreate, DesignReplay)
=============================================================================
