----------------------------- MODULE AiSettings -----------------------------
(***************************************************************************)
(* The configuration of the assistant: what is stored of it, the snapshot  *)
(* of it that requests work with, and the request that saves new settings. *)
(* A snapshot is never changed.  It counts the references to it and is     *)
(* freed with the last one; a save stores the new settings, takes the old  *)
(* snapshot out and installs one made from what is stored then.            *)
(* Of the settings two are kept apart: the key of a provider, which a save *)
(* may have to carry over, and the rest (model).  A value is the save that *)
(* set it.  Threads and children that a save also stops are in SummaryPool *)
(* and McpPool.  A snapshot that cannot be allocated and a row that cannot *)
(* be read are left out.                                                   *)
(***************************************************************************)
EXTENDS Integers, Sequences, FiniteSets

CONSTANTS
    Askers,      \* requests, loops and summaries that use the configuration
    Savers       \* requests that save settings

Installed == "installed"     \* g_snapshot, which holds a reference like a request
Unset == "unset"
Nowhere == "nowhere"

ASSUME SettingsAssumption ==
    /\ IsFiniteSet(Askers) /\ IsFiniteSet(Savers) /\ Askers \cap Savers = {}
    /\ Installed \notin Askers \cup Savers
    /\ {Unset, Nowhere} \cap Savers = {}

Holders == Askers \cup Savers \cup {Installed}
NoSnapshot == 0

VARIABLES
    inDb,        \* the row of ai_settings, if there is one,
    inFile,      \* and config/ai.json
    snap,        \* the snapshots made so far: configuration, count, freed or not
    holds,       \* the snapshot each holder has a reference to
    asker,       \* requests that use the configuration
    saver,       \* requests that save
    agreed,      \* the settings last reported as saved
    blurred      \* saves overlapped, or one stored its settings in the file only

settingsVars == <<inDb, inFile, snap, holds, asker, saver, agreed, blurred>>

Blank == [key |-> Unset, model |-> Unset]
NoConfig == [key |-> Unset, model |-> Nowhere]
NewSnap(config) == [config |-> config, refs |-> 1, freed |-> FALSE]
NoSave == [at |-> "idle", draft |-> NoConfig, old |-> NoSnapshot, inRow |-> FALSE]

\* ai_init before the first request: it installs what is stored, if anything is.
SettingsInit ==
    /\ inDb \in {NoConfig, Blank} /\ inFile \in {NoConfig, Blank}
    /\ agreed = IF NoConfig = inDb THEN inFile ELSE inDb
    /\ snap = IF agreed = NoConfig THEN <<>> ELSE <<NewSnap(agreed)>>
    /\ holds = [h \in Holders |-> IF h = Installed THEN Len(snap) ELSE NoSnapshot]
    /\ asker = [a \in Askers |-> "idle"]
    /\ saver = [s \in Savers |-> NoSave]
    /\ blurred = FALSE

-----------------------------------------------------------------------------
\* A reference taken under the lock, and one given up: as if the count that is
\* left were compared, and as it is.
Counts(n, refs, freed) == [config |-> snap[n].config, refs |-> refs, freed |-> freed]
Taken(n) == [snap EXCEPT ![n] = Counts(n, snap[n].refs + 1, snap[n].freed)]
Dropped_Early(n) == [snap EXCEPT ![n] = Counts(n, snap[n].refs - 1, snap[n].refs <= 2)]
Dropped(n) == [snap EXCEPT ![n] = Counts(n, snap[n].refs - 1, snap[n].refs = 1)]

\* ai_config_acquire, ai_config_release
Acquire(a) ==
    /\ asker[a] = "idle"
    /\ \/ /\ holds[Installed] # NoSnapshot
          /\ snap' = Taken(holds[Installed])
          /\ holds' = [holds EXCEPT ![a] = holds[Installed]]
          /\ asker' = [asker EXCEPT ![a] = "using"]
       \/ /\ holds[Installed] = NoSnapshot
          /\ asker' = [asker EXCEPT ![a] = "over"]
          /\ UNCHANGED <<snap, holds>>
    /\ UNCHANGED <<inDb, inFile, saver, agreed, blurred>>
Release(a) ==
    /\ asker[a] = "using"
    /\ snap' = Dropped(holds[a])
    /\ holds' = [holds EXCEPT ![a] = NoSnapshot]
    /\ asker' = [asker EXCEPT ![a] = "over"]
    /\ UNCHANGED <<inDb, inFile, saver, agreed, blurred>>

\* The list of models and the early returns of some handlers never release:
\* what they held stays counted.
Forget(a) ==
    /\ asker[a] = "using"
    /\ asker' = [asker EXCEPT ![a] = "over"]
    /\ UNCHANGED <<inDb, inFile, snap, holds, saver, agreed, blurred>>

-----------------------------------------------------------------------------
\* What ai_init and a save read: the row before the file.
Stored_FileFirst == IF inFile # NoConfig THEN inFile ELSE inDb
Stored == IF inDb # NoConfig THEN inDb ELSE inFile

SaverIs(s, at, draft, old, inRow) ==
    saver' = [saver EXCEPT ![s] = [at |-> at, draft |-> draft, old |-> old, inRow |-> inRow]]
SaverWith(s, at, draft) == SaverIs(s, at, draft, saver[s].old, saver[s].inRow)
SaverAt(s, at) == SaverWith(s, at, saver[s].draft)
SaverBeginsAt(s, at) == SaverIs(s, at, NoConfig, NoSnapshot, FALSE)
Saving(s) == saver[s].at \notin {"idle", "over"}

\* ai_usecase_settings_update begins with what is stored
Load(s) ==
    /\ saver[s].at = "idle"
    /\ SaverWith(s, "merge", IF Stored = NoConfig THEN Blank ELSE Stored)
    /\ blurred' = (blurred \/ \E t \in Savers : Saving(t))
    /\ UNCHANGED <<inDb, inFile, snap, holds, asker, agreed>>

\* and puts in what the request names.  Without providers it asks nothing and the
\* keys stay; with providers those it does not name are dropped, and for each of
\* the others the snapshot is asked for the key if there is none yet, and for the
\* prices if it was not stored.
MergeNamed(s) ==
    /\ saver[s].at = "merge"
    /\ LET base == saver[s].draft IN
       \E key \in {s, base.key, Unset}, model \in {s, base.model}, at \in {"ask", "store"} :
          /\ at = "ask" => key \in {s, base.key}
          /\ SaverWith(s, at, [key |-> key, model |-> model])
    /\ UNCHANGED <<inDb, inFile, snap, holds, asker, agreed, blurred>>

\* ai_config_find_provider takes no care of a snapshot that is not there: the
\* process ends.
AskSnapshot(s) ==
    /\ saver[s].at = "ask"
    /\ \/ /\ holds[Installed] # NoSnapshot
          /\ snap' = Taken(holds[Installed])
          /\ holds' = [holds EXCEPT ![s] = holds[Installed]]
          /\ SaverAt(s, "asked")
       \/ holds[Installed] = NoSnapshot /\ SaverAt(s, "crashed") /\ UNCHANGED <<snap, holds>>
    /\ UNCHANGED <<inDb, inFile, asker, agreed, blurred>>

\* The prices are copied before the reference is given back, the key after.  Once
\* the key is there, the next provider may ask again (what is asked after a key
\* that was not found is left out).
GiveBack(s) ==
    /\ saver[s].at = "asked"
    /\ snap' = Dropped(holds[s])
    /\ holds' = [holds EXCEPT ![s] = NoSnapshot]
    /\ \/ saver[s].draft.key = Unset /\ SaverIs(s, "copy", saver[s].draft, holds[s], FALSE)
       \/ saver[s].draft.key # Unset /\ \E at \in {"ask", "store"} : SaverAt(s, at)
    /\ UNCHANGED <<inDb, inFile, asker, agreed, blurred>>
CopyKey(s) ==
    /\ saver[s].at = "copy"
    /\ \E key \in Savers \cup {Unset}, at \in {"ask", "store"} :
        /\ ~ snap[saver[s].old].freed => key = snap[saver[s].old].config.key
        /\ key = Unset => at = "store"
        /\ SaverIs(s, at, [key |-> key, model |-> saver[s].draft.model], NoSnapshot, FALSE)
    /\ UNCHANGED <<inDb, inFile, snap, holds, asker, agreed, blurred>>

\* The row, then the file; the save fails if neither takes the settings.
StoreRow(s) ==
    /\ saver[s].at = "store"
    /\ \/ inDb' = saver[s].draft /\ SaverIs(s, "file", saver[s].draft, NoSnapshot, TRUE)
       \/ UNCHANGED inDb /\ SaverAt(s, "file")
    /\ UNCHANGED <<inFile, snap, holds, asker, agreed, blurred>>
StoreFile(s) ==
    /\ saver[s].at = "file"
    /\ \/ /\ inFile' = saver[s].draft /\ agreed' = saver[s].draft /\ SaverBeginsAt(s, "swap")
          /\ blurred' = (blurred \/ (~ saver[s].inRow /\ inDb # NoConfig))
       \/ /\ saver[s].inRow
          /\ agreed' = saver[s].draft /\ SaverBeginsAt(s, "swap")
          /\ UNCHANGED <<inFile, blurred>>
       \/ /\ ~ saver[s].inRow
          /\ SaverBeginsAt(s, "over")
          /\ UNCHANGED <<inFile, agreed, blurred>>
    /\ UNCHANGED <<inDb, snap, holds, asker>>

\* ai_shutdown takes the snapshot out and then gives its reference up.
Withdraw(s) ==
    /\ saver[s].at = "swap"
    /\ holds' = [holds EXCEPT ![s] = holds[Installed], ![Installed] = NoSnapshot]
    /\ SaverAt(s, "drop")
    /\ UNCHANGED <<inDb, inFile, snap, asker, agreed, blurred>>
DropOld(s) ==
    /\ saver[s].at = "drop"
    /\ snap' = IF holds[s] = NoSnapshot THEN snap ELSE Dropped(holds[s])
    /\ holds' = [holds EXCEPT ![s] = NoSnapshot]
    /\ SaverAt(s, "reload")
    /\ UNCHANGED <<inDb, inFile, asker, agreed, blurred>>

\* ai_init reads what is stored and installs it in place of what another save
\* may have installed meanwhile.
Reload(s) ==
    /\ saver[s].at = "reload"
    /\ SaverWith(s, "install", Stored)
    /\ UNCHANGED <<inDb, inFile, snap, holds, asker, agreed, blurred>>
Install(s) ==
    /\ saver[s].at = "install"
    /\ snap' = Append(IF holds[Installed] = NoSnapshot THEN snap ELSE Dropped(holds[Installed]),
                      NewSnap(saver[s].draft))
    /\ holds' = [holds EXCEPT ![Installed] = Len(snap) + 1]
    /\ SaverBeginsAt(s, "over")
    /\ UNCHANGED <<inDb, inFile, asker, agreed, blurred>>

-----------------------------------------------------------------------------
AskerStep(a) == Acquire(a) \/ Release(a) \/ Forget(a)
SaverStep(s) ==
    \/ Load(s) \/ MergeNamed(s) \/ AskSnapshot(s) \/ GiveBack(s) \/ CopyKey(s)
    \/ StoreRow(s) \/ StoreFile(s) \/ Withdraw(s) \/ DropOld(s) \/ Reload(s) \/ Install(s)
SettingsNext ==
    /\ \A s \in Savers : saver[s].at # "crashed"
    /\ \/ \E a \in Askers : AskerStep(a)
       \/ \E s \in Savers : SaverStep(s)
SettingsSpec == SettingsInit /\ [][SettingsNext]_settingsVars

-----------------------------------------------------------------------------
\* A snapshot is freed exactly when the last of those who hold it, the global
\* pointer among them, has let go of it: never under a request that uses it,
\* and not later, however acquisitions, releases and saves interleave.
SnapshotsSound ==
    \A n \in DOMAIN snap : snap[n].freed <=> \A h \in Holders : holds[h] # n

\* The provider of a save is looked up in a snapshot that is there, and its key
\* copied from one that is not freed.  Neither holds: before anything is stored,
\* and between another save's ai_shutdown and ai_init, there is no snapshot; and
\* the reference is given back too early.
LookupSafe ==
    \A s \in Savers :
        /\ saver[s].at # "crashed"
        /\ saver[s].at = "copy" => ~ snap[saver[s].old].freed

\* With no save under way, requests get the settings last reported as saved, or
\* those of the start, whichever of the row and the file could be written; and
\* the lookup of a save is safe - unless saves overlapped, or one could write
\* the file only, beside an older row; and but for a server without settings.
SavesSound ==
    ~ blurred =>
        /\ (\A s \in Savers : ~ Saving(s)) =>
              agreed = IF holds[Installed] = NoSnapshot THEN NoConfig ELSE snap[holds[Installed]].config
        /\ agreed # NoConfig => LookupSafe
=============================================================================
