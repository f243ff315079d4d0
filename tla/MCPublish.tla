------------------------------- MODULE MCPublish -------------------------------
(* Manifests for the model checker: every single hook and every list of up to   *)
(* three files, each beside an otherwise good manifest, and a few to publish.   *)
EXTENDS Publish

path(form, text) == [form |-> form, text |-> text]
hook(form, seconds) == [executable |-> path(form, "hook"), timeout |-> seconds]

NoHooks == [h \in {"upgrade", "rollback", "version", "check", "restart"} |-> {}]
GoodHooks == [NoHooks EXCEPT !["upgrade"] = {hook("slash", 60)}, !["check"] = {hook("drive", 0)}]

Good == [name |-> "myapp", known |-> TRUE,
         header |-> [f \in {"apiVersion", "kind", "name"} |-> TRUE],
         hooks |-> GoodHooks, configuration |-> {}]

OptionalHooks ==
  {{}} \cup {{hook(form, seconds)} : form \in {"slash", "drive", "relative"},
                                      seconds \in {-1, 0, MaxTimeout, MaxTimeout + 1}}

Files == [id : {"", "main", "logging"},
          destination : {path("slash", "a"), path("slash", "b"), path("drive", "a"),
                         path("relative", "a")}]

Section(files, apply) == {[files |-> files, validate |-> {}, apply |-> apply]}

Windows == [Good EXCEPT !.configuration =
              Section(<<[id |-> "main", destination |-> path("drive", "a")]>>, {})]

MCDrafts == {Windows, Good, [Good EXCEPT !.name = "other"], [Good EXCEPT !.hooks = NoHooks]}

MCManifests ==
  MCDrafts
    \cup {[Good EXCEPT !.hooks[h] = optional] : h \in DOMAIN NoHooks, optional \in OptionalHooks}
    \cup {[Good EXCEPT !.header[f] = FALSE] : f \in DOMAIN Good.header}
    \cup {[Good EXCEPT !.known = FALSE]}
    \cup {[Good EXCEPT !.configuration = Section(files, {})] :
            files \in UNION {[1..n -> Files] : n \in 0..3}}
    \cup {[Good EXCEPT !.configuration =
             Section(<<[id |-> "main", destination |-> path("slash", "a")]>>, apply)] :
            apply \in OptionalHooks}
===============================================================================
