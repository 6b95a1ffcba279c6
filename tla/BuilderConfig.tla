---------------------------- MODULE BuilderConfig ----------------------------
(***************************************************************************)
(* The configuration of the builder: saved in a transaction that locks its *)
(* row, with a token that is written and never read back, so that a form   *)
(* without one keeps the token there is (builder/repository_mysql.go), and *)
(* used by a publish attempt, which prepares its target, records it in the *)
(* job and then triggers Jenkins (builder/callback.go, jenkins.go,         *)
(* release/service.go).  A token is sealed when it is stored and opened    *)
(* when it is sent (platform/crypto.go): here it is the same token.        *)
(*                                                                         *)
(* Target is the name, URL, user and job; a target that is not in          *)
(* EnabledTarget has the builder switched off.  newestToken belongs to the *)
(* model: the token of the last save that gave one.                        *)
(***************************************************************************)
EXTENDS Naturals

CONSTANTS
    BuilderSave,     \* requests that save
    Target, EnabledTarget,
    BuilderToken, KeepToken,
    NoConfig         \* no row; no save, attempt or build

ASSUME BuilderAssumption ==
    /\ EnabledTarget \subseteq Target /\ KeepToken \notin BuilderToken
    /\ NoConfig \notin BuilderSave \cup Target

VARIABLES
    builderRow,      \* builder_config
    rowHolder,       \* the save whose transaction has locked the row
    builderSaves,    \* what each save was given and found
    newestToken,
    target,          \* what the publish attempt has prepared, and written into its job
    lastBuild        \* what the last build was recorded as and started with

builderVars == <<builderRow, rowHolder, builderSaves, newestToken, target, lastBuild>>

BuilderInit ==
    /\ builderRow = NoConfig /\ rowHolder = NoConfig
    /\ builderSaves = [s \in BuilderSave |-> NoConfig]
    /\ newestToken = KeepToken
    /\ target = NoConfig /\ lastBuild = NoConfig

-----------------------------------------------------------------------------

\* Variant: the row is read without FOR UPDATE.
RowIsReadable == TRUE

RowIsFree == rowHolder = NoConfig

\* The row is read and locked; where there is none, a token has to be given, and
\* the transactions that found none do not exclude each other.
BeginBuilderSave(s, fields, token) ==
    /\ builderSaves[s] = NoConfig
    /\ RowIsFree
    /\ builderRow = NoConfig => token # KeepToken
    /\ rowHolder' = IF builderRow = NoConfig THEN NoConfig ELSE s
    /\ builderSaves' = [builderSaves EXCEPT ![s] = [fields |-> fields, token |-> token, found |-> builderRow]]
    /\ UNCHANGED <<builderRow, newestToken, target, lastBuild>>

EndBuilderSave(s) ==
    /\ builderSaves' = [builderSaves EXCEPT ![s] = NoConfig]
    /\ rowHolder' = IF rowHolder = s THEN NoConfig ELSE rowHolder

\* The unique key lets one of the inserts through.
InsertBuilder(save) ==
    /\ save.found = NoConfig /\ builderRow = NoConfig
    /\ builderRow' = [fields |-> save.fields, token |-> save.token]
    /\ newestToken' = save.token

UpdateBuilder(save) ==
    /\ save.found # NoConfig
    /\ builderRow' = [fields |-> save.fields, token |-> IF save.token = KeepToken THEN save.found.token ELSE save.token]
    /\ newestToken' = IF save.token = KeepToken THEN newestToken ELSE save.token

CommitBuilderSave(s) ==
    /\ builderSaves[s] # NoConfig
    /\ InsertBuilder(builderSaves[s]) \/ UpdateBuilder(builderSaves[s])
    /\ EndBuilderSave(s)
    /\ UNCHANGED <<target, lastBuild>>

\* A duplicate, a deadlock, a lost connection: the transaction is rolled back.
RollBackBuilderSave(s) ==
    /\ builderSaves[s] # NoConfig /\ EndBuilderSave(s)
    /\ UNCHANGED <<builderRow, newestToken, target, lastBuild>>

-----------------------------------------------------------------------------

\* Client.validate
Usable(config) == config # NoConfig /\ config.fields \in EnabledTarget /\ config.token # KeepToken

PrepareTarget ==
    /\ target = NoConfig /\ Usable(builderRow)
    /\ target' = [config |-> builderRow, job |-> NoConfig]
    /\ UNCHANGED <<builderRow, rowHolder, builderSaves, newestToken, lastBuild>>

\* CreateLocked or CreateRetryLocked writes the target into the job.
RecordTarget ==
    /\ target # NoConfig /\ target.job = NoConfig
    /\ target' = [target EXCEPT !.job = target.config.fields]
    /\ UNCHANGED <<builderRow, rowHolder, builderSaves, newestToken, lastBuild>>

\* Variant: Trigger loads the configuration when it needs it.
PresentConfig == builderRow

PreparedConfig == target.config

TriggerTarget ==
    /\ target # NoConfig /\ target.job # NoConfig
    /\ Usable(PreparedConfig)
    /\ lastBuild' = [job |-> target.job, config |-> PreparedConfig]
    /\ target' = NoConfig
    /\ UNCHANGED <<builderRow, rowHolder, builderSaves, newestToken>>

\* Another release is active, or Jenkins refuses the request.
AttemptEnds ==
    /\ target # NoConfig /\ target' = NoConfig
    /\ UNCHANGED <<builderRow, rowHolder, builderSaves, newestToken, lastBuild>>

BuilderNext ==
    \/ \E s \in BuilderSave :
        \/ \E fields \in Target, token \in BuilderToken \cup {KeepToken} : BeginBuilderSave(s, fields, token)
        \/ CommitBuilderSave(s) \/ RollBackBuilderSave(s)
    \/ PrepareTarget \/ RecordTarget \/ TriggerTarget \/ AttemptEnds

BuilderSpec == BuilderInit /\ [][BuilderNext]_builderVars

-----------------------------------------------------------------------------

\* A save without a token keeps the token of the save before it, never that of an
\* earlier one, though it has read the row before another save was over.
TokenIsNewest == builderRow # NoConfig => builderRow.token = newestToken

\* A build is started where its job says, though the configuration was changed or
\* switched off between the moment it was loaded, the release that recorded it
\* and the request to Jenkins.
BuildsRunWhereRecorded ==
    lastBuild # NoConfig => lastBuild.config.fields = lastBuild.job
=============================================================================
