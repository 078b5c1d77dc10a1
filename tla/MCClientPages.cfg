SPECIFICATION Spec
CONSTANTS
    None = None
    Main = "main"
    Blocks = {"block"}
    Kinds = {"login", "page"}
    Unsigned = {"login"}
    ParamsFirst = {"login"}
    MaxMain = 1
    Subjects = {"login", "submits", "slot", "images", "attachments", "videos", "image lists", "attachment list", "carousel", "paged", "fading", "lazy"}
INVARIANT RequestIsOwn
PROPERTIES LoginIsTrue FileDialogsAreTrue CarouselIsSound PagesComeToRest
CHECK_DEADLOCK FALSE
