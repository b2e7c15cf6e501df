--------------------------- MODULE ContentClassifier ---------------------------
(***************************************************************************)
(* ContentClassifier::classify() and default_classification_rules().       *)
(* A path is the sequence of its segments, in lower case: same_segment     *)
(* compares them folded.  Of what a rule answers the class and the cleaner *)
(* are kept; texts, kinds and confidences are left out.                    *)
(***************************************************************************)
EXTENDS Naturals, Sequences, SequencesExt, FiniteSetsExt

Classes == {"safe", "consequence", "review", "protected"}

LOCAL Rule(class, cleaner, segments) ==
  [segments |-> segments, exactLeaf |-> FALSE, class |-> class, cleaner |-> cleaner]
LOCAL Safe(cleaner, segments)   == Rule("safe", cleaner, segments)
LOCAL Costly(cleaner, segments) == Rule("consequence", cleaner, segments)
LOCAL Review(segments)          == Rule("review", "", segments)
LOCAL Guarded(segments)         == Rule("protected", "", segments)

NeverLeaves ==
  << Guarded(<<"credentials">>), Guarded(<<"login data">>), Guarded(<<"cookies">>),
     Guarded(<<"conversations">>), Guarded(<<"sessions">>) >>

Browser ==
  << Safe("browser.code-cache", <<"user data", "code cache">>),
     Safe("browser.gpu-cache", <<"user data", "gpucache">>),
     Safe("browser.shader-cache", <<"user data", "shadercache">>),
     Safe("browser.crash-reports", <<"user data", "crashpad">>),
     Safe("browser.cache", <<"user data", "cache">>),
     Guarded(<<"user data", "extensions">>),
     Costly("", <<"user data", "indexeddb">>), Costly("", <<"user data", "local storage">>),
     Guarded(<<"user data", "history">>), Guarded(<<"user data", "bookmarks">>),
     Guarded(<<"user data">>) >>

Development ==
  << Costly("python.uv-cache", <<"uv", "cache">>), Costly("python.pip-cache", <<"pip", "cache">>),
     Guarded(<<"programs", "python">>), Review(<<"site-packages">>), Review(<<".venv">>),
     Costly("node.npm-cache", <<"npm-cache">>), Costly("node.yarn-cache", <<"yarn", "cache">>),
     Costly("node.pnpm-store", <<"pnpm-store">>), Review(<<"node_modules">>),
     Costly("dev.gradle-cache", <<".gradle", "caches">>),
     Costly("dev.nuget-cache", <<".nuget", "packages">>),
     Costly("dev.cargo-registry", <<".cargo", "registry">>),
     Safe("vscode.cached-data", <<"code", "cacheddata">>), Safe("vscode.logs", <<"code", "logs">>),
     Guarded(<<"code", "user">>), Guarded(<<".vscode", "extensions">>),
     Safe("codex.temporary", <<".codex", ".tmp">>), Guarded(<<".codex">>) >>

Applications ==
  << Costly("adobe.media-cache", <<"adobe", "common", "media cache files">>),
     Costly("adobe.media-cache-db", <<"adobe", "common", "media cache">>),
     Review(<<"adobe", "speechesl">>), Guarded(<<"adobe", "presets">>),
     Safe("discord.cache", <<"discord", "cache">>),
     Safe("discord.code-cache", <<"discord", "code cache">>),
     Safe("teams.cache", <<"microsoft", "teams", "cache">>) >>

Windows ==
  << Safe("windows.temp", <<"windows", "temp">>),
     Safe("user.temp", <<"appdata", "local", "temp">>),
     Safe("windows.wer", <<"wer", "reportarchive">>),
     Safe("windows.crash-dumps", <<"crashdumps">>),
     Safe("windows.thumbnails", <<"microsoft", "windows", "explorer">>),
     Safe("windows.shader-cache", <<"d3dscache">>),
     Safe("nvidia.dxcache", <<"nvidia", "dxcache">>),
     Safe("nvidia.glcache", <<"nvidia", "glcache">>),
     Costly("windows.update-download", <<"softwaredistribution", "download">>),
     Safe("windows.delivery-optimization", <<"deliveryoptimization">>),
     Guarded(<<"windows", "installer">>), Guarded(<<"winsxs">>),
     Guarded(<<"system volume information">>),
     Costly("windows.previous-installation", <<"windows.old">>),
     Safe("cleaner.quarantine", <<"cleaner", "quarentena">>) >>

GenericRoots ==
  << Review(<<"packages">>), Guarded(<<"program files">>), Guarded(<<"windows">>) >>

DefaultRules ==
  NeverLeaves \o Browser \o Development \o Applications \o Windows \o GenericRoots

Rules == DefaultRules

\* The position of the last segment matched when each is taken as early as it
\* comes, Len(path) + 1 when they are not all there in order.
MatchPosition(path, wanted) ==
  LET next(at, segment) ==
        Min({i \in at + 1..Len(path) : path[i] = segment} \cup {Len(path) + 1})
  IN  FoldLeft(next, 0, wanted)

Matches(rule, path) ==
  LET at == MatchPosition(path, rule.segments)
  IN  /\ rule.segments # <<>>
      /\ at <= Len(path)
      /\ rule.exactLeaf => at = Len(path)

Unclassified == Review(<<>>)

\* The first rule that matches decides.
Classify(path) ==
  LET matching == {i \in DOMAIN Rules : Matches(Rules[i], path)}
  IN  IF matching = {} THEN Unclassified ELSE Rules[Min(matching)]
=============================================================================
