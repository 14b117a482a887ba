------------------------------ MODULE UIFailures ------------------------------
(***************************************************************************)
(* Why a preparation failed: what the server makes of the lines its        *)
(* initializer prints (command_ui_initializer.go) and what the job service *)
(* lets through to the browser (ui_prepare.go).  Both keep a list of the   *)
(* names they trust.  An error code and the reason made of it by           *)
(* strings.ToLower have one name here.                                     *)
(***************************************************************************)
EXTENDS Naturals

CONSTANTS
    Unknown,    \* a name on no list
    LogPath,    \* where the runner keeps its log; the one the service expects
    KnownPath

VARIABLES
    action,     \* "prepare" or "reset"
    details,    \* what the lines have told so far
    progress,   \* of the job
    shown       \* the failure in the job

vars == <<action, details, progress, shown>>

(* Error codes with a key and a default stage of their own. *)
Classes ==
    { [codes |-> {"preflight_failed"},          key |-> "ui_preflight_failed",             step |-> "preflight"],
      [codes |-> {"template_layout_invalid"},   key |-> "ui_template_layout_invalid",      step |-> "preflight"],
      [codes |-> {"api_unavailable"},           key |-> "ui_api_unavailable",              step |-> "preflight"],
      [codes |-> {"init_busy"},                 key |-> "ui_initialization_busy",          step |-> "preflight"],
      [codes |-> {"init_lease_failed"},         key |-> "ui_initialization_lease_failed",  step |-> "preflight"],
      [codes |-> {"install_state_dir_invalid"}, key |-> "ui_state_directory_invalid",      step |-> "preflight"],
      [codes |-> {"node_version_unsupported"},  key |-> "ui_node_version_unsupported",     step |-> "launch"],
      [codes |-> {"pnpm_version_unsupported"},  key |-> "ui_pnpm_version_unsupported",     step |-> "launch"],
      [codes |-> {"dependency_install_failed", "dependency_transaction_invalid"},
                                                key |-> "ui_dependency_install_failed",    step |-> "dependencies"],
      [codes |-> {"source_move_state_invalid", "initialization_resume_invalid"},
                                                key |-> "ui_workspace_prepare_failed",     step |-> "workspace"],
      [codes |-> {"workspace_layout_invalid", "ui_package_mismatch"},
                                                key |-> "ui_workspace_layout_invalid",     step |-> "preflight"],
      [codes |-> {"workspace_transaction_invalid"}, key |-> "ui_workspace_transaction_invalid", step |-> "workspace"],
      [codes |-> {"ui_switch_failed"},          key |-> "ui_switch_failed",                step |-> "workspace"] }

Codes ==
    UNION {c.codes : c \in Classes} \cup
    { "none", "dependency_install_busy", "reset_layout_invalid", "reset_receipt_unavailable", "reset_transaction_invalid",
      "reset_unavailable", "reset_unavailable_installed", "legacy_migration_invalid", "recovery_validation_failed",
      "runtime_env_app_invalid", "runtime_env_profile_invalid", "runtime_env_target_invalid",
      "runtime_env_template_invalid", "ui_invalid", "ui_profile_invalid", "ui_profile_mismatch", "ui_profile_required",
      "reset_in_progress", "state_inconsistent", "initialization_in_progress", "initialization_operation_failed" }

Scopes     == {"admin_root", "admin_apps", "selected_ui", "state_root", "ui_backup"}
Operations == {"read", "create", "write", "sync", "link", "rename", "delete", "cross_directory_rename", "execute", "lock"}

(* The lists of the job service. *)
Keys == {c.key : c \in Classes} \cup {"ui_prepare_failed", "ui_reset_failed"}
ReasonList ==
    { "process_failed", "preflight_failed", "template_layout_invalid", "api_unavailable", "init_busy",
      "init_lease_failed", "install_state_dir_invalid", "node_version_unsupported", "pnpm_version_unsupported",
      "dependency_install_failed", "dependency_transaction_invalid", "source_move_state_invalid",
      "initialization_resume_invalid", "dependency_install_busy", "reset_layout_invalid", "reset_receipt_unavailable",
      "reset_transaction_invalid", "reset_unavailable", "reset_unavailable_installed", "legacy_migration_invalid",
      "recovery_validation_failed", "runtime_env_app_invalid", "runtime_env_profile_invalid",
      "runtime_env_target_invalid", "runtime_env_template_invalid", "ui_invalid", "ui_package_mismatch",
      "ui_profile_invalid", "ui_profile_mismatch", "ui_profile_required", "reset_in_progress", "state_inconsistent",
      "initialization_in_progress", "initialization_operation_failed", "workspace_layout_invalid",
      "workspace_transaction_invalid", "ui_switch_failed" }
Reasons == ReasonList
Steps == {"queued", "launch", "preflight", "workspace", "dependencies", "reset", "complete", "failed"}

Nothing == [step |-> "", code |-> "", scope |-> "", operation |-> "", log |-> FALSE]
NoFailure == [key |-> "", step |-> "", reason |-> "", scope |-> "", operation |-> "", log |-> FALSE]

Init ==
    /\ action \in {"prepare", "reset"}
    /\ details = Nothing /\ progress = 5 /\ shown = NoFailure

-----------------------------------------------------------------------------
(* Lines.  A stage line counts for the action that was asked for, and is   *)
(* what moves the job; other lines may be longer than is kept, or unknown. *)

Stages ==
    IF action = "prepare"
    THEN {<<"preflight", 10>>, <<"workspace", 40>>, <<"dependencies", 75>>, <<"complete", 99>>}
    ELSE {<<"preflight", 10>>, <<"reset", 60>>, <<"complete", 99>>}

StageLine == \E s \in Stages :
    /\ details' = [details EXCEPT !.step = s[1]]
    /\ progress' = IF s[1] \in Steps /\ s[2] <= 99 THEN s[2] ELSE progress

DiagnosticLine ==
    /\ UNCHANGED progress
    /\ \/ \E c \in Codes \cup {Unknown} : details' = IF c \in Codes THEN [details EXCEPT !.code = c] ELSE details
       \/ \E s \in Scopes \cup {Unknown} : details' = IF s \in Scopes THEN [details EXCEPT !.scope = s] ELSE details
       \/ \E o \in Operations \cup {Unknown} :
              details' = IF o \in Operations THEN [details EXCEPT !.operation = o] ELSE details
       \/ details' = [details EXCEPT !.log = TRUE]

Line == shown = NoFailure /\ (StageLine \/ DiagnosticLine) /\ UNCHANGED <<action, shown>>

-----------------------------------------------------------------------------
(* The failure. *)

Failure ==
    LET class == {c \in Classes : action = "prepare" /\ details.code \in c.codes}
        step  == IF details.step # "" THEN details.step
                 ELSE IF class # {} THEN (CHOOSE c \in class : TRUE).step ELSE "launch"
    IN [ key       |-> IF class # {} THEN (CHOOSE c \in class : TRUE).key
                       ELSE IF action = "reset" THEN "ui_reset_failed" ELSE "ui_prepare_failed",
         step      |-> step,
         reason    |-> IF details.code \in {"", "none"} THEN "process_failed" ELSE details.code,
         scope     |-> details.scope,
         operation |-> details.operation,
         log       |-> details.log /\ step = "dependencies" ]

(* Only names on the service's lists go through. *)
Normalized(f) ==
    LET step == IF f.step \in Steps \ {"queued", "complete", "failed"} THEN f.step ELSE "launch"
    IN [ key       |-> IF f.key \in Keys THEN f.key
                       ELSE IF action = "reset" THEN "ui_reset_failed" ELSE "ui_prepare_failed",
         step      |-> step,
         reason    |-> IF f.reason \in Reasons THEN f.reason ELSE "process_failed",
         scope     |-> IF f.scope \in Scopes THEN f.scope ELSE "",
         operation |-> IF f.operation \in Operations THEN f.operation ELSE "",
         log       |-> f.log /\ step = "dependencies" /\ f.key \in Keys /\ f.reason \in Reasons ]

UpdateFailure ==
    /\ shown = NoFailure
    /\ shown' = [Normalized(Failure) EXCEPT !.log = @ /\ LogPath = KnownPath]
    /\ UNCHANGED <<action, details, progress>>

Next == Line \/ UpdateFailure
Spec == Init /\ [][Next]_vars

-----------------------------------------------------------------------------
(* Properties. *)

(* What the server has understood of a failure reaches the browser: the    *)
(* two lists agree on every key, reason, scope and operation, and on every *)
(* stage but the last, which is reported as the first.  The log is named   *)
(* for a failure of the dependencies only.                                 *)
FailureReported == shown # NoFailure =>
    LET f == Failure
    IN /\ shown.key = f.key /\ shown.reason = f.reason /\ shown.scope = f.scope /\ shown.operation = f.operation
       /\ shown.step = IF f.step = "complete" THEN "launch" ELSE f.step
       /\ shown.log => shown.step = "dependencies" /\ f.log
=============================================================================
