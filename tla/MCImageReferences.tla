-------------------------- MODULE MCImageReferences --------------------------
EXTENDS ImageReferences, TLC
Symmetry == Permutations(Texture) \cup Permutations(Context)
\* States that differ in which identifiers images have, and not in who has pointers to
\* which image, are one state.
Pointers(i) == <<image[i], {t \in Texture : texture[t].level = i},
                 {s \in Surface : surface[s].back = i},
                 {c \in Context : context[c].zero = i}, {c \in Context : context[c].target = i}>>
View == <<{Pointers(i) : i \in {i \in Image : image[i].refs > 0}},
          [t \in Texture |-> [texture[t] EXCEPT !.level = NONE]],
          [s \in Surface |-> [surface[s] EXCEPT !.back = NONE]],
          [c \in Context |-> [context[c] EXCEPT !.zero = NONE, !.target = NONE]],
          current, dangling>>
=============================================================================
