\* Two shards, two users: the abstract service.
CONSTANTS
    Shards = {s1, s2}
    Users = {alice, bob}
    Choices = {"english", "japanese"}
    LanguageFiles = {"en-us", "ja-jp", "vi-vn"}
SPECIFICATION Spec
PROPERTY
    ImplementsService
