------------------------------ MODULE DocsPage ------------------------------
(***************************************************************************)
(* The API documentation page seen through the gateway: the browser gets   *)
(* index.html, asks for the files it names in the order it names them, and *)
(* on window.onload runs the initializer, which makes the Swagger UI and   *)
(* has it get openapi.json.                                                *)
(* Every file comes from addSwagger, behind the gateway's limiter and its  *)
(* proxy.                                                                  *)
(***************************************************************************)
EXTENDS Gateway

CONSTANTS Pages,      \* page loads
          PageIp,     \* the address each one comes from
          Builds,     \* what "make swagger" and go:embed may have put together:
                      \* [files, parses]: parses: openapi.json is a JSON object
          MaxCuts     \* bound on pages with an answer lost on the way

ASSUME PagesAssumption == PageIp \in [Pages -> Ips]

VARIABLES
  build,  \* the embedded files of the server
  page,   \* per page: [at, got]: got maps a file to what came of its request
  cut     \* history: pages one of whose requests found no upstream

docsVars == <<build, page, cut>>

\* The two style sheets, the two icons and the three scripts of index.html.
Linked == <<"swagger-ui.css", "index.css", "favicon-32x32.png", "favicon-16x16.png",
            "bundle.js", "preset.js", "initializer.js">>

-----------------------------------------------------------------------------
\* RegisterSwaggerHandlers: the route and file type of each file the page asks
\* for; the other four routes are not reached from it.
FileType(file) ==
  CASE file \in {"index.html", "index.css"} -> "HTML"
    [] file = "swagger-ui.css"             -> "CSS"
    [] file = "openapi.json"               -> "JSON"
    [] file \in {"favicon-32x32.png", "favicon-16x16.png"}      -> "PNG"
    [] file \in {"bundle.js", "preset.js", "initializer.js"}    -> "JS"

\* Mutant: a script is printed as the slice of bytes it was read into.
addSwaggerSlices(file) ==
  CASE file \notin build.files                          -> "panic"
    [] file \in build.files /\ FileType(file) = "JSON"  ->
         IF build.parses THEN "ok" ELSE "panic"
    [] file \in build.files /\ FileType(file) # "JSON"  ->
         IF FileType(file) \in {"PNG", "JS"} THEN "digits" ELSE "ok"

\* A file that is not embedded is a panic, and so is the host set in the nil map
\* of a spec that did not parse; an icon is printed as the numbers of its bytes.
addSwagger(file) ==
  CASE file \notin build.files                          -> "panic"
    [] file \in build.files /\ FileType(file) = "JSON"  ->
         IF build.parses THEN "ok" ELSE "panic"
    [] file \in build.files /\ FileType(file) # "JSON"  ->
         IF FileType(file) = "PNG" THEN "digits" ELSE "ok"

-----------------------------------------------------------------------------
FileRequest(p) == [ip |-> PageIp[p], method |-> "GET", path |-> "open",
                   token |-> "short", uuid |-> CHOOSE u \in Uuids : TRUE]

Comes(p, file, result) == page' = [page EXCEPT ![p].got = Put(@, file, result)]

\* One request of the page: the gateway refuses it, its proxy finds no upstream
\* and answers 502, or the server answers.
Fetch(p, file, q) ==
  LET limited == limitEnabled /\ Tokens(<<"ip", PageIp[p]>>) = 0
  IN  /\ Arrive(q, FileRequest(p))
      /\ \/ limited /\ Comes(p, file, "429") /\ UNCHANGED cut
         \/ ~limited /\ Comes(p, file, addSwagger(file)) /\ UNCHANGED cut
         \/ /\ ~limited /\ Cardinality(cut) < MaxCuts
            /\ Comes(p, file, "502") /\ cut' = cut \cup {p}
      /\ UNCHANGED <<requests, build>>

Got(p, file) == file \in DOMAIN page[p].got /\ page[p].got[file] = "ok"
Asked(p, file) == file \in DOMAIN page[p].got

OpenPage(p, q) ==
  page[p].at = "opening" /\ ~Asked(p, "index.html") /\ Fetch(p, "index.html", q)

FetchLinked(p, i, q) ==
  /\ page[p].at = "opening" /\ Got(p, "index.html")
  /\ ~Asked(p, Linked[i]) /\ \A j \in 1..i-1 : Asked(p, Linked[j])
  /\ Fetch(p, Linked[i], q)

GoTo(p, to) == page' = [page EXCEPT ![p].at = to] /\ UNCHANGED <<build, cut, gatewayVars>>

\* SwaggerUIBundle and SwaggerUIStandalonePreset are globals of their scripts.
RunInitializer(p) ==
  IF Got(p, "bundle.js") /\ Got(p, "preset.js") THEN GoTo(p, "ui") ELSE GoTo(p, "broken")

\* The load event comes when every linked file is there or has failed; without
\* the initializer there is no handler and no UI.
Onload(p) ==
  /\ page[p].at = "opening" /\ \A i \in DOMAIN Linked : Asked(p, Linked[i])
  /\ \/ Got(p, "initializer.js") /\ RunInitializer(p)
     \/ ~Got(p, "initializer.js") /\ GoTo(p, "broken")

NoIndex(p) == /\ page[p].at = "opening" /\ Asked(p, "index.html")
              /\ ~Got(p, "index.html")
              /\ GoTo(p, "broken")

\* url: "openapi.json", relative to the page.
FetchSpec(p, q) ==
  page[p].at = "ui" /\ ~Asked(p, "openapi.json") /\ Fetch(p, "openapi.json", q)

ShowDocs(p) ==
  /\ page[p].at = "ui" /\ Asked(p, "openapi.json")
  /\ GoTo(p, IF Got(p, "openapi.json") THEN "shown" ELSE "broken")

DocsInit ==
  /\ GatewayInit
  /\ build \in Builds /\ cut = {}
  /\ page = [p \in Pages |-> [at |-> "opening", got |-> <<>>]]

DocsNext ==
  \/ GatewayNext /\ UNCHANGED docsVars
  \/ \E p \in Pages, q \in Slots :
       \/ OpenPage(p, q)
       \/ \E i \in DOMAIN Linked : FetchLinked(p, i, q)
       \/ FetchSpec(p, q)
  \/ \E p \in Pages : Onload(p) \/ NoIndex(p) \/ ShowDocs(p)

DocsSpec == DocsInit /\ [][DocsNext]_<<gatewayVars, docsVars>>

-----------------------------------------------------------------------------
Needed == {"index.html", "bundle.js", "preset.js", "initializer.js", "openapi.json"}

\* The documentation page comes up broken only if its address has used up a whole
\* burst of the gateway's limiter, if the upstream was away for one of its
\* requests, or if the server was built without a file it needs or with an
\* openapi.json that does not parse.  The routes and their file types give it all
\* that index.html and the initializer name; the lack of a token, a style sheet
\* that did not come and the icons do not matter.
BrokenHasCause ==
  \A p \in Pages : page[p].at = "broken" =>
    \/ limitEnabled /\ admitted[<<"ip", PageIp[p]>>] >= Burst
    \/ p \in cut
    \/ ~(Needed \subseteq build.files /\ build.parses)
=============================================================================
