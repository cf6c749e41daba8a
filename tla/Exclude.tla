------------------------------- MODULE Exclude -------------------------------
(***************************************************************************)
(* Exclusion patterns (src/src/io/exclude.rs).                             *)
(*                                                                         *)
(* A pattern is matched against a path relative to the checkout: letters   *)
(* and "/", with "?", "*" and "**".  A leading "/" anchors it, a trailing  *)
(* one makes it a pattern of directories.                                  *)
(***************************************************************************)
EXTENDS Naturals, Sequences, SequencesExt

CONSTANTS Patterns,     \* the patterns and
          SourcePaths   \* the paths to consider

ASSUME ExcludeAssumption ==
    /\ \A p \in Patterns : p \in Seq(STRING) /\ p # <<>>
    /\ \A p \in SourcePaths :
          p \in Seq(STRING) /\ p # <<>> /\ p[1] # "/" /\ Last(p) # "/"

VARIABLES pattern, path, excluded

excludeVars == <<pattern, path, excluded>>

\* A "**" at position g of a glob, and the position behind it: "**/" is one token.
DoubleStar(glob, g) == g < Len(glob) /\ glob[g] = "*" /\ glob[g + 1] = "*"

AfterDoubleStar(glob, g) ==
    IF g + 2 <= Len(glob) /\ glob[g + 2] = "/" THEN g + 3 ELSE g + 2

\* Mutant: one star crosses a separator.
GlobMatches_Crosses(glob, text, from, to) ==
    LET visit[at \in (1..Len(glob) + 1) \X (from..to)] ==
            LET g == at[1] t == at[2]
            IN  IF g > Len(glob) THEN t = to
                ELSE IF glob[g] = "*" THEN visit[<<g + 1, t>>] \/ (t < to /\ visit[<<g, t + 1>>])
                ELSE /\ t < to
                     /\ glob[g] = text[t] \/ glob[g] = "?"
                     /\ visit[<<g + 1, t + 1>>]
    IN  visit[<<1, from>>]

\* The glob against the part of text from position from to in front of position to:
\* visit is of the rest of the glob at g and the rest of the text at t.
GlobMatches(glob, text, from, to) ==
    LET visit[at \in (1..Len(glob) + 1) \X (from..to)] ==
            LET g == at[1] t == at[2]
            IN  IF g > Len(glob) THEN t = to
                ELSE IF DoubleStar(glob, g)
                THEN visit[<<AfterDoubleStar(glob, g), t>>] \/ (t < to /\ visit[<<g, t + 1>>])
                ELSE IF glob[g] = "*"
                THEN visit[<<g + 1, t>>] \/ (t < to /\ text[t] # "/" /\ visit[<<g, t + 1>>])
                ELSE /\ t < to
                     /\ glob[g] = text[t] \/ (glob[g] = "?" /\ text[t] # "/")
                     /\ visit[<<g + 1, t + 1>>]
    IN  visit[<<1, from>>]

\* Pattern::new
Anchored(p)  == p[1] = "/"
Stripped(p)  == IF Anchored(p) THEN Tail(p) ELSE p
DirectoryPattern(p) == Stripped(p) # <<>> /\ Last(Stripped(p)) = "/"
Body(p)      == IF DirectoryPattern(p) THEN Front(Stripped(p)) ELSE Stripped(p)

\* matches_candidate, of the part of the path in front of `to`: unless the pattern
\* is anchored, behind each separator once more.
MatchesCandidate(p, text, to) ==
    LET loop[start \in 1..to] ==
            \/ GlobMatches(Body(p), text, start, to)
            \/ /\ ~Anchored(p)
               /\ \E i \in start..(to - 1) :
                     /\ text[i] = "/" /\ \A j \in start..(i - 1) : text[j] # "/"
                     /\ loop[i + 1]
    IN  loop[1]

\* Pattern::matches
PatternMatches(p, text) ==
    IF DirectoryPattern(p)
    THEN \E i \in 1..Len(text) : text[i] = "/" /\ MatchesCandidate(p, text, i)
    ELSE MatchesCandidate(p, text, Len(text) + 1)

ExcludeInit ==
    /\ pattern \in Patterns /\ path \in SourcePaths
    /\ excluded = "unknown"

\* ExcludeMatcher::is_excluded
IsExcluded ==
    /\ excluded = "unknown"
    /\ excluded' = IF PatternMatches(pattern, path) THEN "yes" ELSE "no"
    /\ UNCHANGED <<pattern, path>>

ExcludeSpec == ExcludeInit /\ [][IsExcluded]_excludeVars
-----------------------------------------------------------------------------
\* The position behind the token at g.
NextToken(glob, g) == IF DoubleStar(glob, g) THEN AfterDoubleStar(glob, g) ELSE g + 1

\* Where the tokens from the one at g on begin: the least set that holds g and,
\* with a token, the position behind it.
TokensFrom(glob, g) ==
    {k \in 1..Len(glob) + 1 :
        \A S \in SUBSET (1..Len(glob) + 1) :
            (g \in S /\ \A j \in S : j <= Len(glob) => NextToken(glob, j) \in S) => k \in S}

\* The token at g stands for the part of text from `from` to in front of `to`.
Stands(glob, g, text, from, to) ==
    IF DoubleStar(glob, g) THEN TRUE
    ELSE IF glob[g] = "*" THEN \A i \in from..(to - 1) : text[i] # "/"
    ELSE /\ to = from + 1
         /\ text[from] = glob[g] \/ (glob[g] = "?" /\ text[from] # "/")

\* A part of the text can be cut into parts that the tokens from g on stand for.
DenotesFrom(glob, g, text, from, to) ==
    LET tokens == TokensFrom(glob, g)
    IN  \E cut \in [tokens -> 1..to] :
           /\ cut[g] = from /\ cut[Len(glob) + 1] = to
           /\ \A k \in tokens \ {Len(glob) + 1} :
                 /\ cut[k] <= cut[NextToken(glob, k)]
                 /\ Stands(glob, k, text, cut[k], cut[NextToken(glob, k)])

\* A pattern excludes exactly the paths some part of which it denotes: a part
\* that starts the path or a name in it, and that ends with the path, or with a
\* directory of it (and not the file itself) if the pattern ends in a slash
\* (Pattern::matches, matches_candidate and the two searches of glob_matches).
ExclusionIsExact ==
    LET starts == {i \in 1..Len(path) : i = 1 \/ (~Anchored(pattern) /\ path[i - 1] = "/")}
        stops == IF DirectoryPattern(pattern) THEN {i \in 1..Len(path) : path[i] = "/"}
                 ELSE {Len(path) + 1}
    IN  excluded # "unknown" =>
            (excluded = "yes" <=> \E i \in starts, j \in stops :
                i <= j /\ DenotesFrom(Body(pattern), 1, path, i, j))
=============================================================================
