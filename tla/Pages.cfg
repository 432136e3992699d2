SPECIFICATION Spec
INVARIANTS
    PagesTypeOK
    PictureLive
    PageOwns
    EveryButton
    NamedIsEnlarged
CONSTANTS
    Wallpapers <- MCWallpapers
    MainBgPic = "pic0"
    Overscroll = 3
