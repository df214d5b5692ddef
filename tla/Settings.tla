------------------------------ MODULE Settings ------------------------------
(***************************************************************************)
(* The AI settings of a tenant (modules/integrations): one row, whose only *)
(* column is a JSON document that every save merges into and writes whole. *)
(* One provider and one stage of the document are followed.                *)
(*                                                                         *)
(* Testing a connection is two transactions of one request, with a call to *)
(* the provider between them.  The session keeps its objects over a commit *)
(* (expire_on_commit=False, core/database.py:90), so the second merges into*)
(* the document the first one read.                                        *)
(***************************************************************************)
EXTENDS Session

CONSTANTS
    Keys,      \* provider keys an admin may type
    EnvKey,    \* the key in the environment of the server
    Patches    \* bound: what a save carries

\* In a patch "absent" leaves a member alone and "delete" (JSON null) takes it out.
\* The key a form shows, "masked" or "blank" if there is none, comes back with a
\* save of the form.
Patch ==
    [key : Keys \cup {"absent", "delete", "masked", "blank"},
     url : {"absent", "delete", "url"},
     prompt : {"absent", "delete", "prompt"}]

\* What is typed as a key is none of the words a patch has for other things.
ASSUME SettingsAssumption ==
    /\ Patches \subseteq Patch /\ EnvKey \notin Keys
    /\ Keys \cap {"absent", "delete", "masked", "blank"} = {}

VARIABLES
    config,    \* ai_settings.config, or None without a row
    said       \* history: each member as the last request about it left it

settingsRows == <<config, said>>

Document ==
    [key : Keys \cup {None, "blank"}, url : {None, "url"}, prompt : {None, "prompt"}]

ASSUME DocumentAssumption == None \notin Document

\* What is stored as a key is never the mask shown for one.
SettingsTypeOK ==
    /\ config \in Document \cup {None}
    /\ said \in Document
    /\ config = None => said = [key |-> None, url |-> None, prompt |-> None]

-----------------------------------------------------------------------------
Blank == [key |-> None, url |-> None, prompt |-> None]
get_or_create == IF config = None THEN Blank ELSE config

MutantStripNothing(patch) == patch

_strip_masked_secrets(patch) ==
    IF patch.key = "masked" THEN [patch EXCEPT !.key = "absent"] ELSE patch

Member(value, change) ==
    CASE change = "absent" -> value [] change = "delete" -> None [] OTHER -> change

\* The mutant merges one level deep: a provider in the patch replaces the stored one.
MutantShallow(base, patch) ==
    LET provider == IF patch.key = "absent" /\ patch.url = "absent" THEN base
                    ELSE [base EXCEPT !.key = None, !.url = None]
    IN  [m \in DOMAIN base |-> Member(provider[m], patch[m])]

_merge(base, patch) == [m \in DOMAIN base |-> Member(base[m], patch[m])]

\* What a stage runs with: of the document, else of the environment and the
\* registry (None).
resolve_stage(c) ==
    [key |-> IF c.key \in {None, "blank"} THEN EnvKey ELSE c.key,
     url |-> c.url, prompt |-> c.prompt]

-----------------------------------------------------------------------------
SettingsInit ==
    /\ SessionInit
    /\ config = None
    /\ said = Blank

BeginSettings(q, change, set) ==
    /\ Begin(q, [key |-> "settings", change |-> change, loaded |-> config, set |-> set])
    /\ UNCHANGED settingsRows

NoPatch == [key |-> "absent", url |-> "absent", prompt |-> "absent"]

\* GET, and the list of models, add the row if there is none.
GetSettings(q) == config = None /\ BeginSettings(q, NoPatch, Blank)

UpdateSettings(q, patch) ==
    BeginSettings(q, patch, _merge(get_or_create, _strip_masked_secrets(patch)))

ResetPrompts(q) ==
    BeginSettings(q, [NoPatch EXCEPT !.prompt = "delete"],
                  [get_or_create EXCEPT !.prompt = None])

\* With no row yet the first transaction is that of GetSettings.  A key that is
\* not new is only tested.
TestConnection(q, k) ==
    /\ config # None
    /\ BeginSettings(q, [NoPatch EXCEPT !.key = k],
                     _merge(config, [NoPatch EXCEPT !.key = k]))

\* Unique: the tenant.  A document that is not changed is not written.
CommitSettings(q) ==
    /\ End(q)
    /\ req[q].key = "settings"
    /\ LET r == req[q]
       IN  /\ r.loaded = None => config = None
           /\ config' = IF config = None \/ r.set # r.loaded THEN r.set ELSE config
           /\ said' = IF "settings" \in crossed THEN said
                      ELSE [m \in DOMAIN said |->
                              IF r.change[m] = "masked" THEN said[m]
                              ELSE Member(said[m], r.change[m])]

\* An error, or a connection test that failed.
AbortSettings(q) == End(q) /\ UNCHANGED settingsRows

SettingsNext ==
    \E q \in Requests :
        \/ GetSettings(q)
        \/ \E patch \in Patches : UpdateSettings(q, patch)
        \/ ResetPrompts(q)
        \/ \E k \in Keys : TestConnection(q, k)
        \/ CommitSettings(q)
        \/ AbortSettings(q)

SettingsSpec == SettingsInit /\ [][SettingsNext]_<<session, settingsRows>>
-----------------------------------------------------------------------------
\* Saving settings loses none (service.py:226): whatever is typed, echoed, reset
\* or tested, a stage runs with each member as the last request about it left it,
\* unless two requests met.  A connection test meets every save made during the
\* call to the provider.  Whatever met, the key is one that was typed.
SettingsAddUp ==
    config # None =>
        /\ resolve_stage(config).key \in Keys \cup {EnvKey}
        /\ "settings" \notin crossed => resolve_stage(config) = resolve_stage(said)
=============================================================================
