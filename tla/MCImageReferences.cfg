SPECIFICATION EGLSpec
CONSTANTS
    Image = {1, 2, 3}
    Texture = {t1, t2}
    Surface = {window, pbuffer}
    Window = {window}
    Context = {c1, c2}
    Thread = {th1, th2}
    Drawing = {th1}
    Respecifies = FALSE
    LinksOutlive = FALSE
    NONE = NONE
SYMMETRY Symmetry
VIEW View
INVARIANTS
    NothingDangles
    
    ZeroIsBackBuffer
