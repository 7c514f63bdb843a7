--------------------------- MODULE ImageReferences ---------------------------
(***************************************************************************)
(* The life of egl::Image and of what refers to images: EGL surfaces,      *)
(* textures, EGLImages, the default framebuffers and render targets of     *)
(* contexts.  src/src/OpenGL: common/Image.cpp, libEGL/Surface.cpp,        *)
(* Display.cpp, libEGL.cpp and main.cpp, libGLESv2/Texture.cpp, Context.cpp*)
(* and Device.cpp.  A deletion may cause others, so the calls are written  *)
(* as functions of all objects.  The contexts are of one share group, and a*)
(* texture has one level.                                                  *)
(***************************************************************************)
EXTENDS Integers, FiniteSets

CONSTANTS
    Image,        \* images; a deleted one may be allocated again
    Texture,      \* textures, likewise
    Surface,      \* EGL surfaces, likewise
    Window,       \* those that are windows; the others are pbuffers
    Context,      \* contexts, likewise
    Thread,       \* the client's threads
    Drawing,      \* those on which it makes contexts current
    Respecifies,  \* TRUE if a client changes the image of a texture while it is an EGLImage,
                  \* or a render target
    LinksOutlive, \* TRUE if a client destroys surfaces before the textures they were bound to
    NONE

ASSUME CountAssumption == \A S \in {Texture, Surface, Context, Thread} : IsFiniteSet(S)
ASSUME WindowAssumption == Window \subseteq Surface
ASSUME DrawingAssumption == Drawing \subseteq Thread
ASSUME RuleAssumption == {Respecifies, LinksOutlive} \subseteq BOOLEAN
ASSUME NoneAssumption == NONE \notin Image \cup Texture \cup Surface \cup Context

VARIABLES
    image,    \* parentTexture, referenceCount and shared of each image
    texture,  \* referenceCount, image[0] and mSurface, and whether the name is in use
    surface,  \* reference count, backBuffer and mTexture, and whether it is in mSurfaceSet
    context,  \* reference count, mFramebufferMap[0], the texture attached to another
              \* framebuffer, Device::renderTarget, and whether it is in mContextSet
    current,  \* per thread, the current context and surface
    dangling  \* whether an object was used after its deletion, or an EGLImage deleted

eglVars == <<image, texture, surface, context, current, dangling>>

NoImage == [refs |-> 0, parent |-> NONE, shared |-> FALSE]
NoTexture == [refs |-> 0, level |-> NONE, surface |-> NONE, named |-> FALSE]
NoSurface == [refs |-> 0, back |-> NONE, texture |-> NONE, inSet |-> FALSE]
NoContext == [refs |-> 0, zero |-> NONE, attached |-> NONE, target |-> NONE, inSet |-> FALSE]

EGLInit ==
    /\ image = [i \in Image |-> NoImage]
    /\ texture = [t \in Texture |-> NoTexture]
    /\ surface = [s \in Surface |-> NoSurface]
    /\ context = [c \in Context |-> NoContext]
    /\ current = [th \in Thread |-> [context |-> NONE, surface |-> NONE]]
    /\ dangling = FALSE

\* All objects, and how they are after a call.
Objects == [image |-> image, texture |-> texture, surface |-> surface, context |-> context,
            dangling |-> dangling]
Become(o) == /\ image' = o.image /\ texture' = o.texture /\ surface' = o.surface
             /\ context' = o.context /\ dangling' = o.dangling

Dangles(o) == [o EXCEPT !.dangling = TRUE]
-----------------------------------------------------------------------------
(* References to images; an image that has a parent leaves them to it       *)

AddRef(o, i) ==
    IF i = NONE THEN o
    ELSE IF o.image[i].refs = 0 THEN Dangles(o)
    ELSE IF o.image[i].parent # NONE THEN [o EXCEPT !.texture[o.image[i].parent].refs = @ + 1]
    ELSE [o EXCEPT !.image[i].refs = @ + 1]

\* release() of an image without a parent
Dropped(o, i) ==
    IF o.image[i].refs = 1
    THEN [(IF o.image[i].shared THEN Dangles(o) ELSE o) EXCEPT !.image[i] = NoImage]
    ELSE [o EXCEPT !.image[i].refs = @ - 1]

\* ~Texture2D(), whose image is unbound: the surface is no longer bound to the texture.
Gone(o, t) ==
    LET s == o.texture[t].surface
        left == [o EXCEPT !.texture[t] = NoTexture]
    IN  IF s = NONE THEN left
        ELSE IF o.surface[s].refs = 0 THEN Dangles(left)
        ELSE [left EXCEPT !.surface[s].texture = NONE]

\* release() of an image's parent.  ~Texture2D() unbinds its level, which is this image
\* (or dangling says so) and has no parent then: the calls do not go deeper.
ParentReleased(o, i) ==
    LET t == o.image[i].parent
    IN  IF o.texture[t].refs > 1 THEN [o EXCEPT !.texture[t].refs = @ - 1]
        ELSE IF o.texture[t].refs = 0 \/ o.texture[t].level # i THEN Dangles(o)
        ELSE Gone(Dropped([o EXCEPT !.image[i].parent = NONE], i), t)

Released(o, i) ==
    IF i = NONE THEN o
    ELSE IF o.image[i].refs = 0 THEN Dangles(o)
    ELSE IF o.image[i].parent # NONE THEN ParentReleased(o, i)
    ELSE Dropped(o, i)

\* unbind() of a texture's image, and the pointer to it
Unbound(o, t) ==
    LET i == o.texture[t].level
        orphaned == [o EXCEPT !.image[i].parent = IF @ = t THEN NONE ELSE @]
    IN  IF i = NONE THEN o
        ELSE IF o.image[i].refs = 0 THEN Dangles(o)
        ELSE [Released(orphaned, i) EXCEPT !.texture[t].level = NONE]

TextureReleased(o, t) ==
    IF t = NONE THEN o
    ELSE IF o.texture[t].refs = 0 THEN Dangles(o)
    ELSE IF o.texture[t].refs = 1 THEN Gone(Unbound(o, t), t)
    ELSE [o EXCEPT !.texture[t].refs = @ - 1]

\* new Image(), the image of parent or of none
NewImage(o) == CHOOSE i \in Image : o.image[i].refs = 0
Created(o, parent) == [o EXCEPT !.image[NewImage(o)] = [NoImage EXCEPT !.refs = 1,
                                                                       !.parent = parent]]
HasMemory == \E i \in Image : image[i].refs = 0
-----------------------------------------------------------------------------
(* Textures                                                                 *)

\* setImage() for new contents
Specified(o, t) ==
    LET left == Unbound(o, t)
    IN  [Created(left, t) EXCEPT !.texture[t].level = NewImage(left)]

\* mutated: the old image is not unbound
Replaced(o, t, i) == [AddRef(o, i) EXCEPT !.texture[t].level = i]

\* setImage() for an EGLImage
Shared(o, t, i) ==
    IF i = o.texture[t].level THEN o
    ELSE [Unbound(AddRef(o, i), t) EXCEPT !.texture[t].level = i]

\* releaseTexImage(): the texture and the surface stay linked.
TexImageReleased(o, t) ==
    IF o.texture[t].refs = 0 THEN Dangles(o)
    ELSE Unbound(o, t)

\* mutated: no reference is added to the back buffer
TexImageBorrowed(o, t, s) ==
    LET back == o.surface[s].back
    IN  [Unbound(o, t) EXCEPT
            !.texture[t].level = back, !.texture[t].surface = s, !.surface[s].texture = t]

TexImageBound(o, t, s) ==
    LET back == o.surface[s].back
    IN  [AddRef(Unbound(o, t), back) EXCEPT
            !.texture[t].level = back, !.texture[t].surface = s, !.surface[s].texture = t]
-----------------------------------------------------------------------------
(* Surfaces                                                                 *)

\* deleteResources()
WithoutResources(o, s) ==
    LET t == o.surface[s].texture
        released == IF t = NONE THEN o ELSE TexImageReleased(o, t)
    IN  [Released(released, released.surface[s].back) EXCEPT
            !.surface[s].texture = NONE, !.surface[s].back = NONE]

SurfaceReleased(o, s) ==
    IF s = NONE THEN o
    ELSE IF o.surface[s].refs = 1 THEN [WithoutResources(o, s) EXCEPT !.surface[s] = NoSurface]
    ELSE [o EXCEPT !.surface[s].refs = @ - 1]

\* reset()
Reset(o, s) ==
    LET left == WithoutResources(o, s)
    IN  [Created(left, NONE) EXCEPT !.surface[s].back = NewImage(left)]
-----------------------------------------------------------------------------
(* Contexts                                                                 *)

\* makeCurrent(): the new default framebuffer holds the back buffer.
Wrapped(o, c, s) ==
    LET back == o.surface[s].back
    IN  [Released(AddRef(o, back), o.context[c].zero) EXCEPT !.context[c].zero = back]

\* Device::setRenderTarget()
Targeted(o, c, i) == [Released(AddRef(o, i), o.context[c].target) EXCEPT !.context[c].target = i]

\* Framebuffers share the one reference of mColorbufferProxy to their texture.
Proxied(o, t) == \E c \in Context : o.context[c].attached = t

\* Framebuffer::setColorbuffer()
Attached(o, c, t) ==
    LET old == o.context[c].attached
        o2 == IF t = NONE \/ Proxied(o, t) THEN o ELSE [o EXCEPT !.texture[t].refs = @ + 1]
        o3 == [o2 EXCEPT !.context[c].attached = t]
    IN  IF old = NONE \/ Proxied(o3, old) THEN o3 ELSE TextureReleased(o3, old)

\* ResourceManager::deleteTexture()
NameDeleted(o, t) == TextureReleased([o EXCEPT !.texture[t].named = FALSE], t)

\* ~Context(): its framebuffers, all names if it is the last one, and its device
ContextDeleted(o, c) ==
    LET framebuffers == Attached(Released(o, o.context[c].zero), c, NONE)
        names == IF \E d \in Context \ {c} : o.context[d].refs > 0 THEN {}
                 ELSE {t \in Texture : o.texture[t].named}
        without[some \in SUBSET names] ==
            IF some = {} THEN framebuffers
            ELSE LET t == CHOOSE t \in some : TRUE IN NameDeleted(without[some \ {t}], t)
    IN  [Released(without[names], o.context[c].target) EXCEPT !.context[c] = NoContext]

ContextReleased(o, c) ==
    IF c = NONE THEN o
    ELSE IF o.context[c].refs = 1 THEN ContextDeleted(o, c)
    ELSE [o EXCEPT !.context[c].refs = @ - 1]

\* setCurrentDrawSurface() and setCurrentContext(): the new one is referenced before
\* the old one is released.
Switched(o, th, c, s) ==
    LET o2 == IF s = NONE THEN o ELSE [o EXCEPT !.surface[s].refs = @ + 1]
        o3 == SurfaceReleased(o2, current[th].surface)
        o4 == IF c = NONE THEN o3 ELSE [o3 EXCEPT !.context[c].refs = @ + 1]
    IN  ContextReleased(o4, current[th].context)
-----------------------------------------------------------------------------
(* Rules that clients keep                                                  *)

\* A texture's own image, if others have a reference to it as well.
HeldByOthers(t) ==
    LET i == texture[t].level
    IN  /\ i # NONE
        /\ image[i].parent = t
        /\ \/ image[i].shared
           \/ \E u \in Texture \ {t} : texture[u].level = i
           \/ \E c \in Context : context[c].target = i

MaySpecify(t) == texture[t].named /\ (Respecifies \/ ~HeldByOthers(t))

CurrentElsewhere(th, c, s) ==
    \E other \in Thread \ {th} : \/ c # NONE /\ current[other].context = c
                                 \/ s # NONE /\ current[other].surface = s
-----------------------------------------------------------------------------
(* EGL                                                                      *)

createSurface(s) ==
    /\ surface[s].refs = 0 /\ HasMemory
    /\ Become(Reset([Objects EXCEPT !.surface[s].refs = 1, !.surface[s].inSet = TRUE], s))
    /\ UNCHANGED current

createContext(c) ==
    /\ context[c].refs = 0
    /\ context' = [context EXCEPT ![c].refs = 1, ![c].inSet = TRUE]
    /\ UNCHANGED <<image, texture, surface, current, dangling>>

makeCurrent(th, c, s) ==
    /\ c = NONE <=> s = NONE
    /\ c # NONE => context[c].inSet /\ surface[s].inSet
    /\ ~CurrentElsewhere(th, c, s)
    /\ LET o == Switched(Objects, th, c, s)
       IN  Become(IF c = NONE THEN o ELSE Wrapped(o, c, s))
    /\ current' = [current EXCEPT ![th] = [context |-> c, surface |-> s]]

destroySurface(th, s) ==
    /\ surface[s].inSet
    /\ LinksOutlive \/ \A t \in Texture : texture[t].surface # s
    /\ LET o == [SurfaceReleased(Objects, s) EXCEPT !.surface[s].inSet = FALSE]
       IN  IF current[th].surface = s
           THEN /\ Become(SurfaceReleased(o, s))
                /\ current' = [current EXCEPT ![th].surface = NONE]
           ELSE /\ Become(o)
                /\ UNCHANGED current

destroyContext(th, c) ==
    /\ context[c].inSet
    /\ LET o == [ContextReleased(Objects, c) EXCEPT !.context[c].inSet = FALSE]
       IN  IF current[th].context = c
           THEN /\ Become(SurfaceReleased(ContextReleased(o, c), current[th].surface))
                /\ current' = [current EXCEPT ![th] = [context |-> NONE, surface |-> NONE]]
           ELSE /\ Become(o)
                /\ UNCHANGED current

\* mutated: the current context keeps the old back buffer as its default framebuffer
ResetOnly(th, s) == Reset(Objects, s)

\* checkForResize()
Resized(th, s) ==
    LET o == Reset(Objects, s)
    IN  IF current[th].surface = s THEN Wrapped(o, current[th].context, s) ELSE o

\* The window has another size than the surface that is swapped.
swap(th, s) ==
    /\ s \in Window /\ surface[s].inSet /\ HasMemory
    /\ ~CurrentElsewhere(th, NONE, s)
    /\ Become(Resized(th, s))
    /\ UNCHANGED current

bindTexImage(th, s, t) ==
    /\ s \notin Window /\ surface[s].inSet /\ surface[s].texture = NONE
    /\ current[th].context # NONE
    /\ MaySpecify(t) /\ (LinksOutlive \/ texture[t].surface = NONE)
    /\ Become(TexImageBound(Objects, t, s))
    /\ UNCHANGED current

releaseTexImage(s) ==
    /\ surface[s].inSet /\ surface[s].texture # NONE
    /\ MaySpecify(surface[s].texture)
    /\ Become(TexImageReleased(Objects, surface[s].texture))
    /\ UNCHANGED current

\* The texture is complete, and neither bound to a surface nor an EGLImage already.
createImage(t) ==
    /\ texture[t].named
    /\ texture[t].level # NONE /\ texture[t].surface = NONE
    /\ ~image[texture[t].level].shared
    /\ Become([AddRef(Objects, texture[t].level) EXCEPT !.image[texture[t].level].shared = TRUE])
    /\ UNCHANGED current

destroyImage(i) ==
    /\ image[i].shared
    /\ Become(Released([Objects EXCEPT !.image[i].shared = FALSE], i))
    /\ UNCHANGED current
-----------------------------------------------------------------------------
(* OpenGL ES, in the context that is current                                *)

bindTexture(t) ==
    /\ texture[t].refs = 0
    /\ texture' = [texture EXCEPT ![t].refs = 1, ![t].named = TRUE]
    /\ UNCHANGED <<image, surface, context, current, dangling>>

texImage(t) ==
    /\ MaySpecify(t) /\ HasMemory
    /\ Become(Specified(Objects, t))
    /\ UNCHANGED current

imageTargetTexture(t, i) ==
    /\ image[i].shared
    /\ MaySpecify(t)
    /\ Become(Shared(Objects, t, i))
    /\ UNCHANGED current

framebufferTexture(c, t) ==
    /\ texture[t].named
    /\ Become(Attached(Objects, c, t))
    /\ UNCHANGED current

\* The texture is detached from the framebuffer if that is bound.
deleteTexture(c, t, bound) ==
    /\ texture[t].named
    /\ LET detached == IF bound /\ context[c].attached = t THEN Attached(Objects, c, NONE)
                       ELSE Objects
       IN  Become(NameDeleted(detached, t))
    /\ UNCHANGED current

\* applyRenderTarget(), with the default framebuffer or the other one
applyRenderTarget(c, other) ==
    /\ other => context[c].attached # NONE
    /\ LET target == IF other THEN texture[context[c].attached].level ELSE context[c].zero
       IN  /\ target # NONE
           /\ Become(Released(Targeted(AddRef(Objects, target), c, target), target))
    /\ UNCHANGED current

Call(c) == \E t \in Texture : \/ bindTexture(t) \/ texImage(t) \/ framebufferTexture(c, t)
                              \/ \E i \in Image : imageTargetTexture(t, i)
                              \/ \E bound \in BOOLEAN : deleteTexture(c, t, bound)

EGLNext ==
    \/ \E s \in Surface : createSurface(s) \/ releaseTexImage(s)
    \/ \E c \in Context : createContext(c)
    \/ \E t \in Texture : createImage(t)
    \/ \E i \in Image : destroyImage(i)
    \/ \E th \in Drawing, c \in Context \cup {NONE}, s \in Surface \cup {NONE} :
          makeCurrent(th, c, s)
    \/ \E th \in Thread, s \in Surface : \/ destroySurface(th, s) \/ swap(th, s)
                                         \/ \E t \in Texture : bindTexImage(th, s, t)
    \/ \E th \in Thread, c \in Context : destroyContext(th, c)
    \/ \E th \in Drawing :
          LET c == current[th].context
          IN  c # NONE /\ (Call(c) \/ \E other \in BOOLEAN : applyRenderTarget(c, other))

EGLSpec == EGLInit /\ [][EGLNext]_eglVars
-----------------------------------------------------------------------------
(* No sequence of calls uses an image, a texture or a surface that was        *)
(* deleted, or deletes an EGLImage before eglDestroyImageKHR() (Image.cpp:627,*)
(* "Should still hold a reference if eglDestroyImage hasn't been called"), and*)
(* neither textures nor render targets are deleted images.                    *)
NothingDangles ==
    /\ ~dangling
    /\ \A t \in Texture : texture[t].level # NONE => image[texture[t].level].refs > 0
    /\ \A c \in Context : context[c].target # NONE => image[context[c].target].refs > 0

\* Who has a pointer to image i, other than the texture that is its parent
Holders(i) ==
    {<<t, "texture">> : t \in {t \in Texture : texture[t].level = i /\ image[i].parent # t}}
    \cup {<<s, "surface">> : s \in {s \in Surface : surface[s].back = i}}
    \cup {<<c, "framebuffer">> : c \in {c \in Context : context[c].zero = i}}
    \cup {<<c, "device">> : c \in {c \in Context : context[c].target = i}}
    \cup {<<x, "EGLImage">> : x \in {x \in {i} : image[x].shared}}

(* References are neither lost nor kept: those of an image are its holders,   *)
(* those of a texture also count the holders of its own image, its name and   *)
(* the framebuffers it is attached to, together, and those of contexts and    *)
(* surfaces the threads on which they are current.                            *)
ReferencesExact ==
    /\ \A i \in Image :
          image[i].refs = IF image[i].parent = NONE THEN Cardinality(Holders(i)) ELSE 1
    /\ \A t \in Texture :
          LET own == {i \in Image : image[i].parent = t}
          IN  /\ own \subseteq {texture[t].level}
              /\ texture[t].refs = (IF texture[t].named THEN 1 ELSE 0)
                    + (IF Proxied(Objects, t) THEN 1 ELSE 0)
                    + Cardinality(UNION {Holders(i) : i \in own})
    /\ \A s \in Surface :
          surface[s].refs = (IF surface[s].inSet THEN 1 ELSE 0)
                              + Cardinality({th \in Thread : current[th].surface = s})
    /\ \A c \in Context :
          context[c].refs = (IF context[c].inSet THEN 1 ELSE 0)
                              + Cardinality({th \in Thread : current[th].context = c})

(* What a thread draws without a framebuffer of its own gets into the back    *)
(* buffer that the next swap shows, after every resize.                       *)
ZeroIsBackBuffer ==
    \A th \in Thread : current[th].surface # NONE =>
        context[current[th].context].zero = surface[current[th].surface].back
=============================================================================
