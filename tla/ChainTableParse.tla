--------------------------- MODULE ChainTableParse ---------------------------
(***************************************************************************)
(* The parser of admin_cli list-chains output (internal/controller/        *)
(* tfsct_resources.go, lines 55-99) as pure operators.                     *)
(*                                                                         *)
(* The output is a sequence of lines (strings.Split on "\n"); a line is    *)
(* the sequence of its whitespace-separated fields (strings.Fields), the   *)
(* empty line "" being <<>>.  A field is a record: a number (Atoi          *)
(* succeeds), a word, or a target field that matches                      *)
(* ^(\d+)\((\S+-\S+)\)$ and carries its target id and state.  A line of   *)
(* only whitespace is not "" and has no fields: ParseChain would index     *)
(* fields[0] and panic, so such lines, and lines of fewer than five        *)
(* fields, are outside the outputs this module is applied to.              *)
(***************************************************************************)
EXTENDS Naturals, Sequences

Num(n)        == [k |-> "num", v |-> n]
Word(w)       == [k |-> "word", v |-> w]
TargetField(t, s) == [k |-> "tgt", v |-> <<t, s>>]

\* ParseChain, lines 55-81: the five positional fields, then every further
\* field must match the target pattern or the line is an error.
ParseChainOk(f) == \A j \in 6..Len(f) : f[j].k = "tgt"

ParseChain(f) ==
    [ChainId |-> f[1], Status |-> f[4],
     Targets |-> [i \in 1..(Len(f) - 5) |-> f[i + 5].v]]

\* ParseChainTable, lines 83-99: the header (line 0) and empty lines are
\* skipped, a line ParseChain rejects is logged and skipped.
ParseChainTable(lines) ==
    LET keep(i) == i > 1 /\ lines[i] # <<>> /\ ParseChainOk(lines[i])
        idx == SelectSeq([i \in 1..Len(lines) |-> i], keep)
    IN [n \in 1..Len(idx) |-> ParseChain(lines[idx[n]])]

=============================================================================
