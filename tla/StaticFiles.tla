------------------------------ MODULE StaticFiles ------------------------------
(***************************************************************************)
(* The built client as the service hands it out: assets whose names carry  *)
(* their content's hash are cached for good, the page that names them is   *)
(* asked for every time, a path that is no file is the page itself.  A     *)
(* deploy replaces the files under a running service and open browsers.    *)
(***************************************************************************)
EXTENDS Integers

CONSTANTS MaxVersion, None

VARIABLES files,  \* paths under the root -> the version that wrote them
          built,  \* the version last deployed
          cache,  \* what the browser may use unasked: path -> content
          page,   \* the version of the page on screen, or None
          script  \* what its script tag got: <<kind, version>>, or None
vars == <<files, built, cache, page, script>>

Version == 1 .. MaxVersion
Asset(v) == <<"asset", v>>
Index == <<"index", 0>>
Path == {Asset(v) : v \in Version} \union {Index, <<"deep link", 0>>, <<"manifest", 0>>}

TypeOK ==
  /\ DOMAIN files \subseteq Path
  /\ built \in Version
  /\ DOMAIN cache \subseteq Path
  /\ page \in Version \union {None}
  /\ script \in ({"script", "page", "missing"} \X Version) \union {None}

Init == /\ built = 1
        /\ files = [p \in {Asset(1), Index} |-> 1]
        /\ cache = << >>
        /\ page = None /\ script = None

(* The new build replaces the old one while the service is down: assets    *)
(* and page of one version appear together, those before are gone.         *)
Deploy ==
  /\ built < MaxVersion
  /\ built' = built + 1
  /\ files' = [p \in {Asset(built + 1), Index} |-> built + 1]
  /\ UNCHANGED <<cache, page, script>>

(* Mutant: the page has no header of its own.                              *)
CacheControlAny(p) == "long"
(* cacheControlFor: only what is under assets/ is immutable.               *)
CacheControl(p) == IF p[1] = "asset" THEN "long" ELSE "no-cache"

(* Mutant: every unknown path is the page.                                 *)
LooksLikeNonHtmlNever(p) == FALSE
(* A last segment with an extension other than .html.                      *)
LooksLikeNonHtml(p) == p[1] \in {"asset", "manifest"}

(* tryServeFile, then the fallback.                                        *)
Serve(p) ==
  IF p \in DOMAIN files
  THEN [content |-> files[p], page |-> p = Index, cache |-> CacheControl(p)]
  ELSE IF LooksLikeNonHtml(p)
  THEN [content |-> None, page |-> FALSE, cache |-> "no-cache"]
  ELSE [content |-> files[Index], page |-> TRUE, cache |-> "no-cache"]

(* The browser takes what it may from its cache.                           *)
Fetch(p) == IF p \in DOMAIN cache THEN cache[p] ELSE Serve(p)
Keep(p, r) == IF r.cache = "long"
              THEN [q \in DOMAIN cache \union {p} |-> IF q = p THEN r ELSE cache[q]]
              ELSE cache

Navigate(p) ==
  /\ Fetch(p).page
  /\ page' = Fetch(p).content
  /\ cache' = Keep(p, Fetch(p))
  /\ script' = None
  /\ UNCHANGED <<files, built>>

LoadScript ==
  /\ page # None /\ script = None
  /\ LET r == Fetch(Asset(page))
     IN /\ script' = IF r.content = None THEN <<"missing", page>>
                     ELSE <<IF r.page THEN "page" ELSE "script", r.content>>
        /\ cache' = Keep(Asset(page), r)
  /\ UNCHANGED <<files, built, page>>

Next == \/ Deploy
        \/ \E p \in {Index, <<"deep link", 0>>} : Navigate(p)
        \/ LoadScript
Spec == Init /\ [][Next]_vars

(*------------------------------ properties -------------------------------*)
(* A page runs its own script or none: a deploy under an open page may     *)
(* take its script away, and never answers it with the page or with the    *)
(* script of another build.  (createStaticHandler, looksLikeNonHtmlAsset)  *)
ScriptFitsThePage == script \in {None, <<"missing", page>>, <<"script", page>>}

(* A reload always cures a page a deploy has outlived: whatever the cache  *)
(* holds, it brings the page of the build that is deployed.                *)
(* (cacheControlFor)                                                       *)
ReloadIsCurrentStep == script' = None /\ page' # None /\ script' # script => page' = built
ReloadIsCurrent == [][ReloadIsCurrentStep]_vars
(* The inductive invariant: the files are of one build, and the browser    *)
(* keeps nothing but assets, each with its own content.                    *)
FilesInv ==
  /\ TypeOK
  /\ files = [p \in {Asset(built), Index} |-> built]
  /\ \A p \in DOMAIN cache : \E v \in Version :
       p = Asset(v) /\ cache[p] = [content |-> v, page |-> FALSE, cache |-> "long"]
  /\ ScriptFitsThePage
================================================================================
