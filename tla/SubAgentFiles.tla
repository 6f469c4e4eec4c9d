--------------------------- MODULE SubAgentFiles ---------------------------
(***************************************************************************)
(* ensureToolRestrictions (internal/shared/subagentconfig): the tools entry *)
(* of a sub-agent's front matter is rewritten so that the sub-agent cannot  *)
(* call the tools that end a review.                                        *)
(*                                                                          *)
(* Operators only.  A front matter is the form of its tools entry, the      *)
(* permissions in it, in order, and what the code's search for text finds   *)
(* in the rest: a comment, a description, the name of another tool.         *)
(***************************************************************************)
EXTENDS Naturals, Sequences, SequencesExt

TerminalTools == {"submit_review", "submit_final_review"}

\* No tools entry; a map `tool: value` by lines, indented by two columns or otherwise, or in
\* braces; a list of `- type: tool`, indented by two columns, not at all or otherwise.
\* "broken" is text whose tools entry is not the one that was written: it is no YAML, or
\* the lines went elsewhere.
Maps == {"map", "deepMap", "flowMap"}
Lists == {"list", "flatList", "deepList"}
Forms == {"none", "broken"} \cup Maps \cup Lists

\* In a list "absent" stands for an item without `allowed`.
Permission(tool, value) == [tool |-> tool, value |-> value]

\* A terminal tool is in `text` when `tool: false`, or an item that reads like a denial of
\* it, is found outside the tools entry; "tools" when `tools:` is found before it; "list"
\* when the items of another list are indented by two columns.
FrontMatters ==
    {fm \in [form : Forms \ {"broken"}, entries : Seq([tool : STRING, value : STRING]),
             text : SUBSET ({"tools", "list"} \cup TerminalTools)] :
        /\ fm.form = "none" => fm.entries = <<>>
        /\ fm.form \in Lists \cup {"deepMap"} => fm.entries /= <<>>}

FirstOf(entries, tool) ==
    LET of == {i \in DOMAIN entries : entries[i].tool = tool}
    IN  IF of = {} THEN "absent" ELSE entries[Min(of)].value

Names(entries, tool) == \E i \in DOMAIN entries : entries[i].tool = tool

\* hasDisabledTool: `tool: false` anywhere, or the first item of a list for the tool.
HasDisabledTool(fm, tool) ==
    \/ tool \in fm.text
    \/ fm.form \in Maps /\ \E i \in DOMAIN fm.entries : fm.entries[i] = Permission(tool, "false")
    \/ fm.form \in Lists /\ FirstOf(fm.entries, tool) = "false"

HasListTools(fm) == fm.form = "list" \/ "list" \in fm.text

\* normalizeListToolsBlock: the list as a map; an item without `allowed` is allowed.
Normalized(entries) ==
    [i \in DOMAIN entries |->
        Permission(entries[i].tool,
                   IF entries[i].value = "absent" THEN "true" ELSE entries[i].value)]

\* An entry that denies each of the tools, in the order of the code.
Entries(tools) ==
    (IF "submit_review" \in tools THEN <<Permission("submit_review", "false")>> ELSE <<>>)
    \o (IF "submit_final_review" \in tools THEN <<Permission("submit_final_review", "false")>> ELSE <<>>)

Rewritten(fm, form, entries) == [form |-> form, entries |-> entries, text |-> fm.text]

\* The tools that `missing` says are not denied, where their entries go: after the first
\* `tools:`, indented by two columns, or at the end as an entry of their own.  When some list
\* is indented by two columns the entry is written anew from the items found in it, which in
\* a map are none.
Restricted(fm, missing) ==
    CASE "tools" \in fm.text -> Rewritten(fm, "broken", <<>>)
      [] "tools" \notin fm.text /\ fm.form = "none" -> Rewritten(fm, "map", Entries(missing))
      [] "tools" \notin fm.text /\ HasListTools(fm) /\ fm.form \in {"list", "deepList"} ->
            Rewritten(fm, "map", Normalized(fm.entries)
                                 \o Entries({t \in missing : ~Names(fm.entries, t)}))
      [] "tools" \notin fm.text /\ HasListTools(fm) /\ fm.form \in Maps ->
            Rewritten(fm, "map", Entries(missing))
      [] "tools" \notin fm.text /\ ~HasListTools(fm) /\ fm.form = "map" ->
            Rewritten(fm, "map", Entries(missing) \o fm.entries)
      [] OTHER -> Rewritten(fm, "broken", <<>>)

MissingTools(fm) == {t \in TerminalTools : ~HasDisabledTool(fm, t)}

\* Bug: one of the two entries is taken for both.
EnsureIfBothMissing(fm) ==
    IF ~HasListTools(fm) /\ \E t \in TerminalTools : HasDisabledTool(fm, t) THEN fm
    ELSE Restricted(fm, MissingTools(fm))

EnsureToolRestrictions(fm) ==
    IF ~HasListTools(fm) /\ \A t \in TerminalTools : HasDisabledTool(fm, t) THEN fm
    ELSE Restricted(fm, MissingTools(fm))

\* The tools entry of fm, a map, denies the tool, whichever of several entries counts.
Denies(fm, tool) ==
    /\ fm.form \in Maps
    /\ Names(fm.entries, tool)
    /\ \A i \in DOMAIN fm.entries : fm.entries[i].tool = tool => fm.entries[i].value = "false"
============================================================================
