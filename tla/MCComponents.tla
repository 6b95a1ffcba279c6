---------------------------- MODULE MCComponents ----------------------------
(***************************************************************************)
(* Small instances of the components that share no state with each other.  *)
(* They are checked in one run, one at a time: subject is the component    *)
(* under check, chosen at the start, and the others rest in one of their   *)
(* initial states, so the behaviours are those of each component alone.    *)
(***************************************************************************)
EXTENDS HotlinkCache, TagSnapshots, MediaRegistry, AdminAccess, CallbackDelivery,
        Autosave, AdminSession, ReleaseBundle, SiteForm, BuilderConfig, VisualEditor,
        PublishingPage

CONSTANT Subject

VARIABLE subject

componentVars ==
    <<hotlinkVars, tagVars, mediaVars, accessVars, callbackVars,
      autosaveVars, sessionVars, bundleVars, siteVars, builderVars,
      visualVars, pageVars>>

\* One initial state is enough for a component that rests.
Rest ==
    /\ subject # "session" => ~signedIn
    /\ subject # "media"   =>
          \A u \in Uploader : /\ upload[u].file = CHOOSE f \in GfsFile : TRUE
                            /\ upload[u].key = CHOOSE k \in PublicKey : TRUE

ComponentsInit ==
    /\ subject \in Subject
    /\ HotlinkInit /\ TagsInit /\ MediaInit /\ AccessInit /\ CallbackInit
    /\ AutosaveInit /\ SessionInit /\ BundleInit /\ SiteInit /\ BuilderInit
    /\ VisualInit /\ PageInit
    /\ Rest

\* Those that rest come first, for TLC to settle them once for all the steps of a state.
ComponentsNext ==
    /\ UNCHANGED subject
    /\ IF subject # "hotlink"  THEN UNCHANGED hotlinkVars ELSE TRUE
    /\ IF subject # "tags"     THEN UNCHANGED tagVars ELSE TRUE
    /\ IF subject # "media"    THEN UNCHANGED mediaVars ELSE TRUE
    /\ IF subject # "access"   THEN UNCHANGED accessVars ELSE TRUE
    /\ IF subject # "callback" THEN UNCHANGED callbackVars ELSE TRUE
    /\ IF subject # "autosave" THEN UNCHANGED autosaveVars ELSE TRUE
    /\ IF subject # "session"  THEN UNCHANGED sessionVars ELSE TRUE
    /\ IF subject # "bundle"   THEN UNCHANGED bundleVars ELSE TRUE
    /\ IF subject # "site"     THEN UNCHANGED siteVars ELSE TRUE
    /\ IF subject # "builder"  THEN UNCHANGED builderVars ELSE TRUE
    /\ IF subject # "editor"   THEN UNCHANGED visualVars ELSE TRUE
    /\ IF subject # "page"     THEN UNCHANGED pageVars ELSE TRUE
    /\ \/ subject = "hotlink"  /\ HotlinkNext
       \/ subject = "tags"     /\ TagsNext
       \/ subject = "media"    /\ MediaNext
       \/ subject = "access"   /\ AccessNext
       \/ subject = "callback" /\ CallbackNext
       \/ subject = "autosave" /\ AutosaveNext
       \/ subject = "session"  /\ SessionNext
       \/ subject = "bundle"   /\ BundleNext
       \/ subject = "site"     /\ SiteNext
       \/ subject = "builder"  /\ BuilderNext
       \/ subject = "editor"   /\ VisualNext
       \/ subject = "page"     /\ PageNext

ComponentsFairness ==
    /\ \A r \in Reader : WF_hotlinkVars(subject = "hotlink" /\ ReaderStep(r))
    /\ WF_autosaveVars(subject = "autosave" /\ Run)
    /\ WF_autosaveVars(subject = "autosave" /\ SaveProceeds)

ComponentsSpec == ComponentsInit /\ [][ComponentsNext]_<<subject, componentVars>> /\ ComponentsFairness

-----------------------------------------------------------------------------

ImportedIds == {1, 2, 3}

Limits == [ip |-> 1, username |-> 1]

MessageStatus == [m1 |-> "queued", m2 |-> "building", m3 |-> "deploying"]
MessageTime   == [m1 |-> 1, m2 |-> 1, m3 |-> 2]
MessageNonce  == [m1 |-> "n1", m2 |-> "n2", m3 |-> "n2"]

\* The order of the slugs is not that of the ids.
SlugsOfTags == [t \in BundleTag |-> -t]

\* A content that has space around it is stored without.
Normalized == [c \in SiteContent |-> IF c = "a " THEN "a" ELSE c]
=============================================================================
